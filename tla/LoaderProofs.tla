---------------------------- MODULE LoaderProofs ----------------------------
(***************************************************************************)
(* Proofs about Loader for any number of PWM groups, channels and runs.    *)
(* The argument goes by control point: before a run has touched the core   *)
(* (Early) the core is in reset; from the first write to the end of the    *)
(* reset handshake (Live) the run owns memory, groups and pins; after the  *)
(* handshake (Late) both reset bits are known to be set.                   *)
(* The second half follows what a run borrows (BorrowInv): where the board *)
(* differs from what the run found, the run knows the old value, until the *)
(* step that puts it back, or knows that the step had no effect (damaged). *)
(***************************************************************************)
EXTENDS Loader, TLAPS

Idle == {"idle", "pins", "gates", "unbind", "save", "alloc", "load"}
Early == {"lock", "check"} \cup Idle
Live == {"assert", "base", "clock", "bus", "mux", "core", "magic", "serve",
         "holding", "hold", "confirm", "fatal"}
Late == {"baseBack", "muxBack", "clockBack", "verify"}
Giving == {"pwmBack", "gatesBack", "bind", "free", "close", "exit"}

\* Which control points belong to a run that has written to the core.
TouchedInv ==
  /\ lpc \in Early => ~touched
  /\ lpc \in Live \cup Late => touched

\* What the first look at the E907 found still holds when it is taken over.
IdleInv == lpc \in Idle => reset = ResetMask /\ ~clock /\ ~base

\* After the handshake the core is in reset; without a kill also between
\* two runs and before the first write.
ResetInv ==
  /\ touched /\ lpc \in Late \cup Giving => reset = ResetMask
  /\ ~killed /\ lpc \notin Live => reset = ResetMask
  /\ lpc = "dead" => killed

\* How the groups, the pins and the memory are gathered one by one.
LeaseInv ==
  /\ lpc \in {"lock", "check", "idle", "pins", "gates"} => leased = {}
  /\ servo /\ lpc \in {"gates", "unbind", "save", "alloc", "load"} \cup Live
       => pins = "servo"
  /\ lpc = "unbind" => bound \cap leased = {}
  /\ servo /\ lpc \in {"save", "alloc", "load"} \cup Live => bound = {}
  /\ lpc \in {"load"} \cup Live => memory = "allocated"
  /\ lpc \in Live => image # "none"
  /\ lpc \in {"idle", "pins", "gates", "unbind", "save"} => servo

IInv == TypeOK /\ TouchedInv /\ IdleInv /\ ResetInv /\ LeaseInv

(* Type correctness is inductive on its own. *)
LEMMA TypeInit == Init => TypeOK
<1>1. Init => found \in [mux : BOOLEAN, gates : [Groups -> BOOLEAN],
                        pwm : [Channels -> PwmRegs], bound : SUBSET Groups,
                        pins : {"linux", "servo"}]
  BY DEF Init, World, PwmRegs
<1>2. Init => old \in [mux : BOOLEAN, gates : [Groups -> BOOLEAN],
                      pwm : [Channels -> PwmRegs]]
  BY DEF Init, Nothing, PwmRegs
<1>3. Init => /\ cancelled \in BOOLEAN /\ initialized \in BOOLEAN
              /\ allocated \in BOOLEAN /\ touched \in BOOLEAN
              /\ saved_pwm \in BOOLEAN /\ pinned \in BOOLEAN
              /\ base \in BOOLEAN /\ clock \in BOOLEAN
              /\ damaged \in BOOLEAN /\ killed \in BOOLEAN
  BY DEF Init
<1>4. Init => /\ gates \in [Groups -> BOOLEAN] /\ pwm \in [Channels -> PwmRegs]
              /\ mux \in BOOLEAN /\ servo \in BOOLEAN
  BY DEF Init, PwmRegs
<1>5. Init => runs \in 1 .. MaxRuns /\ rc \in {0, 1}
  BY LoaderAssumption DEF Init
<1> QED
  BY <1>1, <1>2, <1>3, <1>4, <1>5 DEF Init, TypeOK, ResetMask

LEMMA TypeStep == TypeOK /\ [Next]_vars => TypeOK'
<1> SUFFICES ASSUME TypeOK, [Next]_vars PROVE TypeOK'
  OBVIOUS
<1> USE DEF TypeOK, PwmRegs, ResetMask, processVars, coreRegs, linuxVars,
            memoryVars, ghostVars
<1>1. CASE OpenFiles
  BY <1>1 DEF OpenFiles, Out, Goto, Elsewhere
<1>2. CASE CheckUnused
  BY <1>2 DEF CheckUnused, Out, Goto, Elsewhere
<1>3. CASE CheckIdle
  BY <1>3 DEF CheckIdle, Out, Goto, Elsewhere
<1>4. CASE AcquirePins
  <2>1. pinned' \in BOOLEAN /\ touched' \in BOOLEAN
    BY <1>4 DEF AcquirePins, Out, Goto, TypeOK
  <2> QED
    BY <1>4, <2>1 DEF AcquirePins, Out, Goto
<1>5. CASE SaveGates
  BY <1>5 DEF SaveGates, Out, Goto, Elsewhere
<1>6. CASE EnableGates
  BY <1>6 DEF EnableGates, Goto
<1>7. CASE SavePwm
  BY <1>7 DEF SavePwm, Elsewhere
<1>8. CASE Allocate
  <2>1. initialized' \in BOOLEAN /\ allocated' \in BOOLEAN
    BY <1>8 DEF Allocate, Out, Goto, TypeOK
  <2> QED
    BY <1>8, <2>1 DEF Allocate, Out, Goto
<1>9. CASE LoadFirmware
  <2>1. touched' \in BOOLEAN /\ cancelled' \in BOOLEAN
    BY <1>9 DEF LoadFirmware, Out, Goto, TypeOK
  <2> QED
    BY <1>9, <2>1 DEF LoadFirmware, Out, Goto
<1>10. CASE AssertReset
  BY <1>10 DEF AssertReset, Write, Goto
<1>11. CASE SetBase
  BY <1>11 DEF SetBase, Write, Goto
<1>12. CASE ClockOn
  BY <1>12 DEF ClockOn, Write, Goto
<1>13. CASE ReleaseBus
  BY <1>13 DEF ReleaseBus, Write, Goto
<1>14. CASE SelectSource
  BY <1>14 DEF SelectSource, Write, Goto
<1>15. CASE ReleaseCore
  BY <1>15 DEF ReleaseCore, Write, Goto
<1>16. CASE AwaitMagic
  BY <1>16 DEF AwaitMagic, Out, Goto, Elsewhere
<1>17. CASE Serve \/ EndHolding
  <2>1. CASE Serve
    BY <2>1 DEF Serve, Served, Elsewhere
  <2>2. CASE EndHolding
    BY <2>2 DEF EndHolding, Served, Elsewhere
  <2> QED
    BY <1>17, <2>1, <2>2
<1>18. CASE HoldCore
  BY <1>18 DEF HoldCore, Goto
<1>19. CASE Confirm
  BY <1>19 DEF Confirm, Goto, Elsewhere
<1>20. CASE RestoreBase
  <2>1. base' \in BOOLEAN
    BY <1>20 DEF RestoreBase
  <2> QED
    BY <1>20, <2>1 DEF RestoreBase, Goto, Damage
<1>21. CASE RestoreMux
  BY <1>21 DEF RestoreMux, Goto, Damage
<1>22. CASE RestoreClock
  <2>1. clock' \in BOOLEAN
    BY <1>22 DEF RestoreClock
  <2> QED
    BY <1>22, <2>1 DEF RestoreClock, Goto, Damage
<1>23. CASE VerifyCore
  BY <1>23 DEF VerifyCore, Report, Elsewhere
<1>24. CASE RestorePwm
  BY <1>24 DEF RestorePwm, Report, Goto
<1>25. CASE RestoreGates
  BY <1>25 DEF RestoreGates, Report, Damage
<1>26. CASE ReleasePins
  BY <1>26 DEF ReleasePins, Report, Damage
<1>27. CASE FreeMemory
  BY <1>27 DEF FreeMemory, Report, Damage
<1>28. CASE Close
  BY <1>28 DEF Close, Report, Elsewhere
<1>29. ASSUME NEW g \in Groups, UnbindGroup(g)
      PROVE TypeOK'
  BY <1>29 DEF UnbindGroup, Out, Goto
<1>30. ASSUME NEW g \in Groups, BindGroup(g)
      PROVE TypeOK'
  BY <1>30 DEF BindGroup, Damage
<1>31. CASE Signal
  BY <1>31 DEF Signal, Elsewhere
<1>32. CASE Kill
  BY <1>32 DEF Kill
<1>33. CASE Restart
  <2>1. /\ cancelled' \in BOOLEAN /\ initialized' \in BOOLEAN
        /\ allocated' \in BOOLEAN /\ touched' \in BOOLEAN
        /\ saved_pwm' \in BOOLEAN /\ pinned' \in BOOLEAN
        /\ damaged' \in BOOLEAN
    BY <1>33 DEF Restart
  <2>2. old' \in [mux : BOOLEAN, gates : [Groups -> BOOLEAN],
                 pwm : [Channels -> PwmRegs]]
    BY <1>33 DEF Restart, Nothing, PwmRegs
  <2>3. found' \in [mux : BOOLEAN, gates : [Groups -> BOOLEAN],
                   pwm : [Channels -> PwmRegs], bound : SUBSET Groups,
                   pins : {"linux", "servo"}]
    BY <1>33 DEF Restart, World, TypeOK
  <2>4. runs' \in 1 .. MaxRuns
    BY <1>33, LoaderAssumption DEF Restart, TypeOK
  <2> QED
    BY <1>33, <2>1, <2>2, <2>3, <2>4 DEF Restart
<1>34. ASSUME NEW c \in Channels, CoreDrives(c)
      PROVE TypeOK'
  BY <1>34 DEF CoreDrives
<1>35. CASE UNCHANGED vars
  BY <1>35 DEF vars
<1>36. QED
  BY <1>1, <1>2, <1>3, <1>4, <1>5, <1>6, <1>7, <1>8, <1>9, <1>10, <1>11,
     <1>12, <1>13, <1>14, <1>15, <1>16, <1>17, <1>18, <1>19, <1>20, <1>21,
     <1>22, <1>23, <1>24, <1>25, <1>26, <1>27, <1>28, <1>29, <1>30, <1>31,
     <1>32, <1>33, <1>34, <1>35 DEF Next, Process

(* The control-point invariants hold initially and are kept by every step. *)
LEMMA PointsInit == Init => TouchedInv /\ IdleInv /\ ResetInv /\ LeaseInv
BY DEF Init, TouchedInv, IdleInv, ResetInv, LeaseInv, Early, Idle, Live, Late,
       Giving, ResetMask

LEMMA PointsStep ==
  IInv /\ [Next]_vars => (TouchedInv /\ IdleInv /\ ResetInv /\ LeaseInv)'
<1> SUFFICES ASSUME IInv, [Next]_vars
             PROVE (TouchedInv /\ IdleInv /\ ResetInv /\ LeaseInv)'
  OBVIOUS
<1> USE DEF IInv, TypeOK, TouchedInv, IdleInv, ResetInv, LeaseInv, Early, Idle,
            Live, Late, Giving, ResetMask, processVars, coreRegs, linuxVars,
            memoryVars, ghostVars
<1>1. CASE OpenFiles
  BY <1>1 DEF OpenFiles, Out, Goto, Elsewhere
<1>2. CASE CheckUnused
  BY <1>2 DEF CheckUnused, Out, Goto, Elsewhere
<1>3. CASE CheckIdle
  <2>1. CASE Goto("pins") /\ bound = Groups
    BY <1>3, <2>1 DEF CheckIdle, Out, Goto, Elsewhere
  <2>2. CASE Out
    BY <1>3, <2>2 DEF CheckIdle, Out, Goto, Elsewhere
  <2> QED
    BY <1>3, <2>1, <2>2 DEF CheckIdle
<1>4. CASE AcquirePins
  <2>1. CASE Out
    BY <1>4, <2>1 DEF AcquirePins, Out, Goto
  <2>2. CASE pins' = "servo" /\ lpc' = "gates"
    BY <1>4, <2>2 DEF AcquirePins, Out, Goto
  <2>3. CASE pins' = "servo" /\ lpc' = "pwmBack"
    BY <1>4, <2>3 DEF AcquirePins, Out, Goto
  <2> QED
    BY <1>4, <2>1, <2>2, <2>3 DEF AcquirePins
<1>5. CASE SaveGates
  <2>1. CASE Out
    BY <1>5, <2>1 DEF SaveGates, Out, Goto, Elsewhere
  <2>2. CASE lpc' = "unbind"
    BY <1>5, <2>2 DEF SaveGates, Out, Goto, Elsewhere
  <2> QED
    BY <1>5, <2>1, <2>2 DEF SaveGates
<1>6. CASE EnableGates
  BY <1>6 DEF EnableGates, Goto
<1>7. CASE SavePwm
  BY <1>7 DEF SavePwm, Elsewhere
<1>8. CASE Allocate
  BY <1>8 DEF Allocate, Out, Goto
<1>9. CASE LoadFirmware
  BY <1>9 DEF LoadFirmware, Out, Goto
<1>10. CASE AssertReset
  BY <1>10 DEF AssertReset, Write, Goto
<1>11. CASE SetBase
  BY <1>11 DEF SetBase, Write, Goto
<1>12. CASE ClockOn
  BY <1>12 DEF ClockOn, Write, Goto
<1>13. CASE ReleaseBus
  BY <1>13 DEF ReleaseBus, Write, Goto
<1>14. CASE SelectSource
  BY <1>14 DEF SelectSource, Write, Goto
<1>15. CASE ReleaseCore
  BY <1>15 DEF ReleaseCore, Write, Goto
<1>16. CASE AwaitMagic
  <2>1. CASE Out
    BY <1>16, <2>1 DEF AwaitMagic, Out, Goto, Elsewhere
  <2>2. CASE Goto("serve")
    BY <1>16, <2>2 DEF AwaitMagic, Out, Goto, Elsewhere
  <2>3. CASE Goto("holding")
    BY <1>16, <2>3 DEF AwaitMagic, Out, Goto, Elsewhere
  <2> QED
    BY <1>16, <2>1, <2>2, <2>3 DEF AwaitMagic
<1>17. CASE Serve \/ EndHolding
  <2>1. CASE Serve
    BY <2>1 DEF Serve, Served, Elsewhere
  <2>2. CASE EndHolding
    BY <2>2 DEF EndHolding, Served, Elsewhere
  <2> QED
    BY <1>17, <2>1, <2>2
<1>18. CASE HoldCore
  BY <1>18 DEF HoldCore, Goto
<1>19. CASE Confirm
  BY <1>19 DEF Confirm, Goto, Elsewhere
<1>20. CASE RestoreBase
  BY <1>20 DEF RestoreBase, Goto, Damage
<1>21. CASE RestoreMux
  BY <1>21 DEF RestoreMux, Goto, Damage
<1>22. CASE RestoreClock
  BY <1>22 DEF RestoreClock, Goto, Damage
<1>23. CASE VerifyCore
  BY <1>23 DEF VerifyCore, Report, Elsewhere
<1>24. CASE RestorePwm
  BY <1>24 DEF RestorePwm, Report, Goto
<1>25. CASE RestoreGates
  BY <1>25 DEF RestoreGates, Report, Damage
<1>26. CASE ReleasePins
  BY <1>26 DEF ReleasePins, Report, Damage
<1>27. CASE FreeMemory
  BY <1>27 DEF FreeMemory, Report, Damage
<1>28. CASE Close
  BY <1>28 DEF Close, Report, Elsewhere
<1>29. ASSUME NEW g \in Groups, UnbindGroup(g)
      PROVE (TouchedInv /\ IdleInv /\ ResetInv /\ LeaseInv)'
  <2>1. CASE Out
    BY <1>29, <2>1 DEF UnbindGroup, Out, Goto
  <2>2. CASE bound' = bound \ {g} /\ lpc' = lpc
    BY <1>29, <2>2 DEF UnbindGroup, Out, Goto
  <2> QED
    BY <1>29, <2>1, <2>2 DEF UnbindGroup, Out, Goto
<1>30. ASSUME NEW g \in Groups, BindGroup(g)
      PROVE (TouchedInv /\ IdleInv /\ ResetInv /\ LeaseInv)'
  BY <1>30 DEF BindGroup, Damage
<1>31. CASE Signal
  BY <1>31 DEF Signal, Elsewhere
<1>32. CASE Kill
  BY <1>32 DEF Kill
<1>33. CASE Restart
  BY <1>33 DEF Restart, World, Nothing
<1>34. ASSUME NEW c \in Channels, CoreDrives(c)
      PROVE (TouchedInv /\ IdleInv /\ ResetInv /\ LeaseInv)'
  BY <1>34 DEF CoreDrives
<1>35. CASE UNCHANGED vars
  BY <1>35 DEF vars
<1>36. QED
  BY <1>1, <1>2, <1>3, <1>4, <1>5, <1>6, <1>7, <1>8, <1>9, <1>10, <1>11,
     <1>12, <1>13, <1>14, <1>15, <1>16, <1>17, <1>18, <1>19, <1>20, <1>21,
     <1>22, <1>23, <1>24, <1>25, <1>26, <1>27, <1>28, <1>29, <1>30, <1>31,
     <1>32, <1>33, <1>34, <1>35 DEF Next, Process

(* The strengthening is an invariant of the loader. *)
THEOREM Invariance == Spec => []IInv
<1>1. Init => IInv
  BY TypeInit, PointsInit DEF IInv
<1>2. IInv /\ [Next]_vars => IInv'
  BY TypeStep, PointsStep DEF IInv
<1> QED
  BY <1>1, <1>2, PTL DEF Spec

(* Type correctness of the loader, its registers and its bookkeeping. *)
THEOREM TypeCorrect == Spec => []TypeOK
<1>1. IInv => TypeOK
  BY DEF IInv
<1> QED
  BY <1>1, Invariance, PTL

(* main gives nothing back while the core may execute: without SIGKILL,    *)
(* memory, groups and pins stay until the reset is confirmed.              *)
THEOREM ResourcesAreKept == Spec => []ResourcesOutliveCore
<1>1. IInv => ResourcesOutliveCore
  BY DEF IInv, ResourcesOutliveCore, CoreRuns, ResetInv, LeaseInv, ResetMask,
         Live
<1> QED
  BY <1>1, Invariance, PTL

(* A run only takes over a core that is idle at that moment. *)
THEOREM OnlyIdleCoresAreTaken == Spec => TakesOnlyIdleCore
<1>1. IInv /\ [Next]_vars
        => [~touched /\ touched' => reset = ResetMask /\ ~clock /\ ~base]_vars
  <2> SUFFICES ASSUME IInv, Next, ~touched, touched'
               PROVE lpc = "load"
    BY DEF IInv, IdleInv, Idle
  <2> QED
    BY DEF Next, Process, OpenFiles, CheckUnused, CheckIdle, AcquirePins,
       SaveGates,
           UnbindGroup, BindGroup, EnableGates, SavePwm, Allocate,
           AssertReset, SetBase, ClockOn, ReleaseBus, SelectSource,
              ReleaseCore,
           AwaitMagic, Serve, EndHolding, Served, HoldCore, Confirm,
           RestoreBase, RestoreMux, RestoreClock, VerifyCore, RestorePwm,
           RestoreGates, ReleasePins, FreeMemory, Close, Signal, Kill,
           Restart, CoreDrives, LoadFirmware, Out, Goto, Write, Report,
           processVars
<1> QED
  BY <1>1, Invariance, PTL DEF Spec, TakesOnlyIdleCore

(* The loader writes PWM registers only after the reset handshake. *)
THEOREM LoaderWritesAlone == Spec => WritesPwmAlone
<1>1. IInv /\ [Next]_vars
        => [pwm' # pwm /\ lpc' # lpc => reset = ResetMask]_vars
  <2> SUFFICES ASSUME IInv, Next, pwm' # pwm, lpc' # lpc
               PROVE reset = ResetMask
    OBVIOUS
  <2>1. lpc = "pwmBack" /\ touched
    BY DEF Next, Process, OpenFiles, CheckUnused, CheckIdle, AcquirePins,
       SaveGates,
           UnbindGroup, BindGroup, EnableGates, SavePwm, Allocate,
           AssertReset, SetBase, ClockOn, ReleaseBus, SelectSource,
              ReleaseCore,
           AwaitMagic, Serve, EndHolding, Served, HoldCore, Confirm,
           RestoreBase, RestoreMux, RestoreClock, VerifyCore, RestorePwm,
           RestoreGates, ReleasePins, FreeMemory, Close, Signal, Kill,
           Restart, CoreDrives, LoadFirmware, Write, Elsewhere, linuxVars,
           processVars
  <2> QED
    BY <2>1 DEF IInv, ResetInv, Late, Giving
<1> QED
  BY <1>1, Invariance, PTL DEF Spec, WritesPwmAlone

(***************************************************************************)
(* What the run has borrowed and how it can still be given back. found is  *)
(* the board at the start of the run, so each part says by how much the    *)
(* board differs from it at a control point and where the old value is.    *)
(***************************************************************************)
Working == {"pins", "gates", "unbind", "save"}
Starting == {"assert", "base", "clock", "bus", "mux", "core"}
Exits == {"free", "close", "exit"}
AllLinux(regs) == \A c \in Channels \ stuck : regs[c].by = "linux"
NoneForeign(regs) == \A c \in Channels : regs[c].by = "linux" => ~regs[c].en

\* The groups: each is with Linux or on the way back to it.
BoundInv ==
  /\ lpc \in Working => bound \cup leased = Groups
  /\ ~damaged => bound \cup leased = found.bound
  /\ lpc \in Exits => leased = {}
  /\ lpc \in {"save", "alloc", "load"} \cup Live \cup Late /\ servo
       => leased = Groups
  /\ leased # {} => servo

\* The clock gates, the clock source, the boot address and the pins.
GatesInv ==
  /\ leased # {} => old.gates = found.gates
  /\ lpc = "unbind" => old.gates = found.gates
  /\ lpc # "dead" /\ ~damaged => gates = found.gates \/ leased = Groups
  /\ lpc \in {"bind"} \cup Exits /\ ~damaged => gates = found.gates
MuxInv ==
  /\ ~touched => mux = found.mux
  /\ touched \/ lpc \in Idle => old.mux = found.mux
  /\ touched /\ lpc \in {"clockBack", "verify"} \cup Giving /\ ~damaged
       => mux = found.mux
  /\ touched /\ lpc \in (Late \ {"baseBack"}) \cup Giving /\ ~damaged => ~base
  /\ touched /\ lpc \in {"verify"} \cup Giving /\ ~damaged => ~clock
PinsInv ==
  /\ ~pinned => pins = found.pins
  /\ lpc \in Exits /\ ~damaged => pins = found.pins

\* What could not be given back is reported; and the memory.
ReportInv ==
  /\ damaged => lpc \in (Late \ {"baseBack"}) \cup Giving \cup {"dead"}
  /\ damaged /\ lpc = "muxBack" => base
  /\ damaged /\ lpc = "clockBack" => base \/ mux # old.mux
  /\ damaged /\ lpc = "verify" => base \/ mux # old.mux \/ clock
  /\ damaged /\ lpc \in Giving => rc = 1
  /\ allocated /\ lpc \in {"close", "exit"} /\ ~damaged => memory = "none"

\* The registers: who may write them, and from when on they are as found.
CoreInv ==
  /\ lpc \in Starting => "core" \in reset
  /\ touched => image = (IF servo THEN "servo" ELSE "probe")
  /\ leased # {} /\ (~touched \/ lpc \in Giving) => reset = ResetMask
  /\ CoreRuns /\ image = "servo" => bound = {} /\ NoneForeign(pwm)
  /\ CoreRuns /\ image = "servo" => NoneForeign(found.pwm)
PwmInv ==
  /\ ~touched => pwm = found.pwm \/ (CoreRuns /\ image = "servo")
  /\ lpc \in Starting => pwm = found.pwm
  /\ touched /\ ~servo => pwm = found.pwm
  /\ touched /\ servo => saved_pwm /\ NoneForeign(found.pwm)
  /\ saved_pwm => old.pwm = found.pwm /\ AllLinux(old.pwm)
  /\ touched /\ servo /\ lpc = "pwmBack" => leased = Groups
  /\ lpc \in {"alloc", "load"} /\ servo => saved_pwm /\ NoneForeign(found.pwm)
  /\ touched /\ lpc \in {"gatesBack", "bind"} \cup Exits =>
       \A c \in Channels \ stuck : pwm[c] = found.pwm[c]
  /\ touched /\ lpc \in {"gatesBack", "bind"} \cup Exits /\ ~damaged
       => pwm = found.pwm
QuietInv ==
  /\ LinuxGroupsQuiet
  /\ lpc \in Working => AllLinux(pwm)
  /\ leased # {} /\ ~touched => AllLinux(pwm)
  /\ leased # {} /\ touched => AllLinux(found.pwm)

BorrowInv == /\ BoundInv /\ GatesInv /\ MuxInv /\ PinsInv /\ ReportInv
             /\ CoreInv /\ PwmInv /\ QuietInv


(* Before the first action nothing is borrowed. *)
LEMMA BorrowInit == Init => BorrowInv
<1> SUFFICES ASSUME Init PROVE BorrowInv
  OBVIOUS
<1> USE DEF Init, World, Idle, Early, Live, Late, Giving, Working, Starting,
            Exits
<1>1. BoundInv /\ GatesInv /\ PinsInv /\ ReportInv
  BY DEF BoundInv, GatesInv, PinsInv, ReportInv
<1>2. MuxInv
  BY DEF MuxInv
<1>3. ~CoreRuns
  BY DEF CoreRuns, ResetMask
<1>4. CoreInv /\ PwmInv
  BY <1>3 DEF CoreInv, PwmInv
<1>5. AllLinux(pwm)
  BY DEF AllLinux
<1>6. QuietInv
  BY <1>5 DEF QuietInv, LinuxGroupsQuiet, AllLinux
<1> QED
  BY <1>1, <1>2, <1>4, <1>6 DEF BorrowInv

(* A group changes hands together with the run's own count of it. *)
LEMMA BoundStep == IInv /\ BorrowInv /\ [Next]_vars => BoundInv'
<1> SUFFICES ASSUME IInv, BorrowInv, [Next]_vars PROVE BoundInv'
  OBVIOUS
<1> USE DEF IInv, TypeOK, BorrowInv, BoundInv, TouchedInv, ResetInv,
       LeaseInv, Idle, Early, Live, Late, Giving, Starting, Working, Exits,
       processVars, coreRegs, linuxVars, memoryVars, ghostVars
<1>1. ASSUME NEW g \in Groups, UnbindGroup(g)
      PROVE BoundInv'
  <2>1. CASE Out /\ bound' = bound
    BY <1>1, <2>1 DEF UnbindGroup, Out, Goto
  <2>2. CASE /\ bound' = bound \ {g} /\ leased' = leased \cup {g}
             /\ UNCHANGED <<lpc, servo, touched, saved_pwm, old>>
    BY <1>1, <2>2, LoaderAssumption DEF UnbindGroup
  <2> QED
    BY <1>1, <2>1, <2>2 DEF UnbindGroup
<1>2. ASSUME NEW g \in Groups, BindGroup(g)
      PROVE BoundInv'
  BY LoaderAssumption, <1>2 DEF BindGroup, Damage
<1>3. CASE EnableGates
  BY LoaderAssumption, <1>3 DEF EnableGates, Goto
<1>4. CASE CheckIdle
  <2>1. CASE bound = Groups /\ Goto("pins")
    BY LoaderAssumption, <1>4, <2>1 DEF CheckIdle, Goto, Elsewhere
  <2>2. CASE Out
    BY LoaderAssumption, <1>4, <2>2 DEF CheckIdle, Out, Goto, Elsewhere
  <2> QED
    BY <1>4, <2>1, <2>2 DEF CheckIdle
<1>5. CASE Serve \/ EndHolding
  <2>1. CASE Serve
    BY LoaderAssumption, <2>1 DEF Serve, Served, Elsewhere
  <2>2. CASE EndHolding
    BY LoaderAssumption, <2>2 DEF EndHolding, Served, Elsewhere
  <2> QED
    BY <1>5, <2>1, <2>2
<1>6. CASE RestoreBase
  BY LoaderAssumption, <1>6 DEF RestoreBase, Goto, Damage
<1>7. CASE RestoreMux
  BY LoaderAssumption, <1>7 DEF RestoreMux, Goto, Damage
<1>8. CASE RestoreClock
  BY LoaderAssumption, <1>8 DEF RestoreClock, Goto, Damage
<1>9. CASE RestorePwm
  BY LoaderAssumption, <1>9 DEF RestorePwm, Report, Goto
<1>10. CASE RestoreGates
  BY LoaderAssumption, <1>10 DEF RestoreGates, Report, Damage
<1> QED
  BY LoaderAssumption, <1>1, <1>2, <1>3, <1>4, <1>5, <1>6, <1>7, <1>8, <1>9,
     <1>10 DEF Next, Process, vars, OpenFiles, Out, Goto, Elsewhere,
     CheckUnused, AcquirePins, SaveGates, SavePwm, Allocate, LoadFirmware,
     AssertReset, Write, SetBase, ClockOn, ReleaseBus, SelectSource,
     ReleaseCore, AwaitMagic, HoldCore, Confirm, VerifyCore, Report,
     ReleasePins, Damage, FreeMemory, Close, Signal, Kill, Restart, World,
     Nothing, CoreDrives

(* The gates are switched on for all groups or for none, and are remembered *)
(* before.                                                                 *)
LEMMA GatesStep == IInv /\ BorrowInv /\ [Next]_vars => GatesInv'
<1> SUFFICES ASSUME IInv, BorrowInv, [Next]_vars PROVE GatesInv'
  OBVIOUS
<1> USE DEF IInv, TypeOK, BorrowInv, GatesInv, BoundInv, ReportInv, TouchedInv,
       ResetInv, LeaseInv, Idle, Early, Live, Late, Giving, Starting,
       Working, Exits, processVars, coreRegs, linuxVars, memoryVars,
       ghostVars
<1>1. CASE SaveGates
  BY LoaderAssumption, <1>1 DEF SaveGates, Out, Goto, Elsewhere
<1>2. ASSUME NEW g \in Groups, UnbindGroup(g)
      PROVE GatesInv'
  BY LoaderAssumption, <1>2 DEF UnbindGroup, Out, Goto
<1>3. CASE EnableGates
  BY LoaderAssumption, <1>3 DEF EnableGates, Goto
<1>4. CASE RestoreGates
  BY LoaderAssumption, <1>4 DEF RestoreGates, Report, Damage
<1>5. ASSUME NEW g \in Groups, BindGroup(g)
      PROVE GatesInv'
  BY LoaderAssumption, <1>5 DEF BindGroup, Damage
<1>6. CASE Serve \/ EndHolding
  <2>1. CASE Serve
    BY LoaderAssumption, <2>1 DEF Serve, Served, Elsewhere
  <2>2. CASE EndHolding
    BY LoaderAssumption, <2>2 DEF EndHolding, Served, Elsewhere
  <2> QED
    BY <1>6, <2>1, <2>2
<1>7. CASE RestoreBase
  BY LoaderAssumption, <1>7 DEF RestoreBase, Goto, Damage
<1>8. CASE RestoreMux
  BY LoaderAssumption, <1>8 DEF RestoreMux, Goto, Damage
<1>9. CASE RestoreClock
  BY LoaderAssumption, <1>9 DEF RestoreClock, Goto, Damage
<1>10. CASE RestorePwm
  BY LoaderAssumption, <1>10 DEF RestorePwm, Report, Goto
<1> QED
  BY LoaderAssumption, <1>1, <1>2, <1>3, <1>4, <1>5, <1>6, <1>7, <1>8, <1>9,
     <1>10 DEF Next, Process, vars, OpenFiles, Out, Goto, Elsewhere,
     CheckUnused, CheckIdle, AcquirePins, SavePwm, Allocate, LoadFirmware,
     AssertReset, Write, SetBase, ClockOn, ReleaseBus, SelectSource,
     ReleaseCore, AwaitMagic, HoldCore, Confirm, VerifyCore, Report,
     ReleasePins, Damage, FreeMemory, Close, Signal, Kill, Restart, World,
     Nothing, CoreDrives

(* The clock source is written only by a run that remembers it; the base    *)
(* and the clock go back in the order of the way out.                      *)
LEMMA MuxStep == IInv /\ BorrowInv /\ [Next]_vars => MuxInv'
<1> SUFFICES ASSUME IInv, BorrowInv, [Next]_vars PROVE MuxInv'
  OBVIOUS
<1> USE DEF IInv, TypeOK, BorrowInv, MuxInv, ReportInv, TouchedInv, ResetInv,
       LeaseInv, Idle, Early, Live, Late, Giving, Starting, Working, Exits,
       processVars, coreRegs, linuxVars, memoryVars, ghostVars
<1>1. CASE CheckUnused
  BY <1>1 DEF CheckUnused, Out, Goto, Elsewhere
<1>2. CASE LoadFirmware
  BY <1>2 DEF LoadFirmware, Out, Goto
<1>3. CASE SelectSource
  BY <1>3 DEF SelectSource, Write, Goto
<1>4. CASE RestoreMux
  BY <1>4 DEF RestoreMux, Goto, Damage
<1>5. CASE Serve \/ EndHolding
  <2>1. CASE Serve
    BY <2>1 DEF Serve, Served, Elsewhere
  <2>2. CASE EndHolding
    BY <2>2 DEF EndHolding, Served, Elsewhere
  <2> QED
    BY <1>5, <2>1, <2>2
<1>6. CASE RestoreBase
  BY <1>6 DEF RestoreBase, Goto, Damage
<1>7. CASE RestoreClock
  BY <1>7 DEF RestoreClock, Goto, Damage
<1>8. CASE RestorePwm
  BY <1>8 DEF RestorePwm, Report, Goto
<1>9. CASE RestoreGates
  BY <1>9 DEF RestoreGates, Report, Damage
<1> QED
  BY <1>1, <1>2, <1>3, <1>4, <1>5, <1>6, <1>7, <1>8, <1>9 DEF Next, Process,
     vars, OpenFiles, Out, Goto, Elsewhere, CheckIdle, AcquirePins, SaveGates,
     UnbindGroup, BindGroup, Damage, EnableGates, SavePwm, Allocate,
     AssertReset, Write, SetBase, ClockOn, ReleaseBus, ReleaseCore,
     AwaitMagic, HoldCore, Confirm, VerifyCore, Report, ReleasePins,
     FreeMemory, Close, Signal, Kill, Restart, World, Nothing, CoreDrives

(* The pins are returned by the release, or the run says so. *)
LEMMA PinsStep == IInv /\ BorrowInv /\ [Next]_vars => PinsInv'
<1> SUFFICES ASSUME IInv, BorrowInv, [Next]_vars PROVE PinsInv'
  OBVIOUS
<1> USE DEF IInv, TypeOK, BorrowInv, PinsInv, TouchedInv, ResetInv,
       LeaseInv, Idle, Early, Live, Late, Giving, Starting, Working, Exits,
       processVars, coreRegs, linuxVars, memoryVars, ghostVars
<1>1. CASE AcquirePins
  BY <1>1 DEF AcquirePins, Out, Goto
<1>2. CASE ReleasePins
  BY <1>2 DEF ReleasePins, Report, Damage
<1>3. CASE Serve \/ EndHolding
  <2>1. CASE Serve
    BY <2>1 DEF Serve, Served, Elsewhere
  <2>2. CASE EndHolding
    BY <2>2 DEF EndHolding, Served, Elsewhere
  <2> QED
    BY <1>3, <2>1, <2>2
<1>4. CASE RestoreBase
  BY <1>4 DEF RestoreBase, Goto, Damage
<1>5. CASE RestoreMux
  BY <1>5 DEF RestoreMux, Goto, Damage
<1>6. CASE RestoreClock
  BY <1>6 DEF RestoreClock, Goto, Damage
<1>7. CASE RestorePwm
  BY <1>7 DEF RestorePwm, Report, Goto
<1>8. CASE RestoreGates
  BY <1>8 DEF RestoreGates, Report, Damage
<1> QED
  BY <1>1, <1>2, <1>3, <1>4, <1>5, <1>6, <1>7, <1>8 DEF Next, Process, vars,
     OpenFiles, Out, Goto, Elsewhere, CheckUnused, CheckIdle, SaveGates,
     UnbindGroup, BindGroup, Damage, EnableGates, SavePwm, Allocate,
     LoadFirmware, AssertReset, Write, SetBase, ClockOn, ReleaseBus,
     SelectSource, ReleaseCore, AwaitMagic, HoldCore, Confirm, VerifyCore,
     Report, FreeMemory, Close, Signal, Kill, Restart, World, Nothing,
     CoreDrives

(* Every failed return is remembered in rc. *)
LEMMA ReportStep == IInv /\ BorrowInv /\ [Next]_vars => ReportInv'
<1> SUFFICES ASSUME IInv, BorrowInv, [Next]_vars PROVE ReportInv'
  OBVIOUS
<1> USE DEF IInv, TypeOK, BorrowInv, ReportInv, MuxInv, TouchedInv, ResetInv,
       LeaseInv, Idle, Early, Live, Late, Giving, Starting, Working, Exits,
       processVars, coreRegs, linuxVars, memoryVars, ghostVars
<1>1. CASE Serve \/ EndHolding
  <2>1. CASE Serve
    BY <2>1 DEF Serve, Served, Elsewhere
  <2>2. CASE EndHolding
    BY <2>2 DEF EndHolding, Served, Elsewhere
  <2> QED
    BY <1>1, <2>1, <2>2
<1>2. ASSUME NEW g \in Groups, BindGroup(g)
      PROVE ReportInv'
  BY <1>2 DEF BindGroup, Damage
<1>3. CASE ReleasePins
  BY <1>3 DEF ReleasePins, Report, Damage
<1>4. CASE FreeMemory
  BY <1>4 DEF FreeMemory, Report, Damage
<1>5. CASE RestoreBase
  BY <1>5 DEF RestoreBase, Goto, Damage
<1>6. CASE RestoreMux
  BY <1>6 DEF RestoreMux, Goto, Damage
<1>7. CASE RestoreClock
  BY <1>7 DEF RestoreClock, Goto, Damage
<1>8. CASE VerifyCore
  BY <1>8 DEF VerifyCore, Report, Elsewhere
<1>9. CASE RestorePwm
  BY <1>9 DEF RestorePwm, Report, Goto
<1>10. CASE RestoreGates
  BY <1>10 DEF RestoreGates, Report, Damage
<1> QED
  BY <1>1, <1>2, <1>3, <1>4, <1>5, <1>6, <1>7, <1>8, <1>9, <1>10 DEF Next,
     Process, vars, OpenFiles, Out, Goto, Elsewhere, CheckUnused, CheckIdle,
     AcquirePins, SaveGates, UnbindGroup, EnableGates, SavePwm, Allocate,
     LoadFirmware, AssertReset, Write, SetBase, ClockOn, ReleaseBus,
     SelectSource, ReleaseCore, AwaitMagic, HoldCore, Confirm, Report, Close,
     Signal, Kill, Restart, World, Nothing, CoreDrives

(* While the servo firmware may execute, also one that a killed run left,   *)
(* Linux has no group and nobody else's channel is on.                     *)
LEMMA CoreStep == IInv /\ BorrowInv /\ [Next]_vars => CoreInv'
<1> SUFFICES ASSUME IInv, BorrowInv, [Next]_vars PROVE CoreInv'
  OBVIOUS
<1> USE DEF IInv, TypeOK, BorrowInv, CoreInv, PwmInv, QuietInv, IdleInv,
       CoreRuns, AllLinux, NoneForeign, ResetMask, TouchedInv, ResetInv,
       LeaseInv, Idle, Early, Live, Late, Giving, Starting, Working, Exits,
       processVars, coreRegs, linuxVars, memoryVars, ghostVars
<1>0. ASSUME Out,
             UNCHANGED <<coreRegs, gates, pwm, bound, memoryVars, ghostVars>>
      PROVE CoreInv'
  <2>1. CASE touched
    BY LoaderAssumption, <1>0, <2>1 DEF Out, Goto
  <2>2. CASE ~touched
    BY LoaderAssumption, <1>0, <2>2 DEF Out, Goto
  <2> QED
    BY <2>1, <2>2
<1>1. ASSUME NEW g \in Groups, UnbindGroup(g)
      PROVE CoreInv'
  <2>1. CASE Out /\ bound' = bound
    BY <1>1, <2>1 DEF UnbindGroup, Out, Goto
  <2>2. CASE /\ bound' = bound \ {g} /\ leased' = leased \cup {g}
             /\ UNCHANGED <<lpc, servo, touched, saved_pwm, old>>
    BY <1>1, <2>2, LoaderAssumption DEF UnbindGroup
  <2> QED
    BY <1>1, <2>1, <2>2 DEF UnbindGroup
<1>2. ASSUME NEW g \in Groups, BindGroup(g)
      PROVE CoreInv'
  BY LoaderAssumption, <1>2 DEF BindGroup, Damage
<1>3. CASE LoadFirmware
  BY LoaderAssumption, <1>3 DEF LoadFirmware, Out, Goto
<1>4. CASE ReleaseCore
  BY LoaderAssumption, <1>4 DEF ReleaseCore, Write, Goto
<1>5. CASE ClockOn
  BY LoaderAssumption, <1>5 DEF ClockOn, Write, Goto
<1>6. CASE ReleaseBus
  BY LoaderAssumption, <1>6 DEF ReleaseBus, Write, Goto
<1>7. CASE SavePwm
  BY LoaderAssumption, <1>7 DEF SavePwm, Elsewhere
<1>8. CASE Allocate
  BY LoaderAssumption, <1>8 DEF Allocate, Out, Goto
<1>9. CASE Restart
  BY LoaderAssumption, <1>9 DEF Restart, World, Nothing
<1>10. ASSUME NEW c \in Channels, CoreDrives(c)
      PROVE CoreInv'
  BY LoaderAssumption, <1>10 DEF CoreDrives
<1>11. CASE OpenFiles
  BY LoaderAssumption, <1>11 DEF OpenFiles, Out, Goto, Elsewhere
<1>12. CASE CheckUnused
  BY LoaderAssumption, <1>12 DEF CheckUnused, Out, Elsewhere, Goto
<1>13. CASE CheckIdle
  <2>1. CASE Goto("pins")
    BY LoaderAssumption, <1>13, <2>1 DEF CheckIdle, Goto, Elsewhere
  <2> QED
    BY <1>0, <1>13, <2>1 DEF CheckIdle, Elsewhere
<1>14. CASE AcquirePins
  <2>1. CASE /\ pins' = "servo" /\ pinned' /\ lpc' \in {"gates", "pwmBack"}
             /\ UNCHANGED <<servo, touched, leased, saved_pwm, old>>
    BY LoaderAssumption, <1>14, <2>1 DEF AcquirePins
  <2> QED
    BY <1>0, <1>14, <2>1 DEF AcquirePins
<1>15. CASE SaveGates
  <2>1. CASE /\ lpc' = "unbind" /\ old'.pwm = old.pwm
             /\ UNCHANGED <<servo, touched, leased, saved_pwm>>
    BY LoaderAssumption, <1>15, <2>1 DEF SaveGates, Elsewhere
  <2>2. CASE Out
    BY <1>0, <1>15, <2>2 DEF SaveGates, Elsewhere
  <2> QED
    BY <1>15, <2>1, <2>2 DEF SaveGates
<1>16. CASE EnableGates
  BY LoaderAssumption, <1>16 DEF EnableGates, Goto
<1>17. CASE AssertReset
  BY LoaderAssumption, <1>17 DEF AssertReset, Write, Goto, Elsewhere
<1>18. CASE SetBase
  BY LoaderAssumption, <1>18 DEF SetBase, Write, Goto, Elsewhere
<1>19. CASE SelectSource
  BY LoaderAssumption, <1>19 DEF SelectSource, Write, Goto, Elsewhere
<1>20. CASE AwaitMagic
  <2>1. CASE Goto("serve")
    BY LoaderAssumption, <1>20, <2>1 DEF AwaitMagic, Goto, Elsewhere
  <2>2. CASE Goto("holding")
    BY LoaderAssumption, <1>20, <2>2 DEF AwaitMagic, Goto, Elsewhere
  <2> QED
    BY <1>0, <1>20, <2>1, <2>2 DEF AwaitMagic, Elsewhere
<1>21. CASE Serve \/ EndHolding
  <2>1. CASE Serve
    BY LoaderAssumption, <2>1 DEF Serve, Served, Elsewhere
  <2>2. CASE EndHolding
    BY LoaderAssumption, <2>2 DEF EndHolding, Served, Elsewhere
  <2> QED
    BY <1>21, <2>1, <2>2
<1>22. CASE HoldCore
  BY LoaderAssumption, <1>22 DEF HoldCore, Goto
<1>23. CASE Confirm
  BY LoaderAssumption, <1>23 DEF Confirm, Goto, Elsewhere
<1>24. CASE RestoreBase
  BY LoaderAssumption, <1>24 DEF RestoreBase, Goto, Damage
<1>25. CASE RestoreMux
  BY LoaderAssumption, <1>25 DEF RestoreMux, Goto, Damage
<1>26. CASE RestoreClock
  BY LoaderAssumption, <1>26 DEF RestoreClock, Goto, Damage
<1>27. CASE VerifyCore
  BY LoaderAssumption, <1>27 DEF VerifyCore, Elsewhere, Report
<1>28. CASE RestorePwm
  BY LoaderAssumption, <1>28 DEF RestorePwm, Report, Goto
<1>29. CASE RestoreGates
  BY LoaderAssumption, <1>29 DEF RestoreGates, Report, Damage
<1>30. CASE ReleasePins
  BY LoaderAssumption, <1>30 DEF ReleasePins, Report, Damage
<1>31. CASE FreeMemory
  BY LoaderAssumption, <1>31 DEF FreeMemory, Report, Damage
<1>32. CASE Close
  BY LoaderAssumption, <1>32 DEF Close, Elsewhere, Report
<1>33. CASE Signal
  BY LoaderAssumption, <1>33 DEF Signal, Elsewhere
<1>34. CASE Kill
  BY LoaderAssumption, <1>34 DEF Kill
<1>35. CASE UNCHANGED vars
  BY LoaderAssumption, <1>35 DEF vars
<1> QED
  BY <1>1, <1>2, <1>3, <1>4, <1>5, <1>6, <1>7, <1>8, <1>9, <1>10, <1>11,
     <1>12, <1>13, <1>14, <1>15, <1>16, <1>17, <1>18, <1>19, <1>20, <1>21,
     <1>22, <1>23, <1>24, <1>25, <1>26, <1>27, <1>28, <1>29, <1>30, <1>31,
     <1>32, <1>33, <1>34, <1>35 DEF Next, Process

(* The registers differ from what the run found only while the servo        *)
(* firmware has them.                                                      *)
LEMMA PwmStep == IInv /\ BorrowInv /\ [Next]_vars => PwmInv'
<1> SUFFICES ASSUME IInv, BorrowInv, [Next]_vars PROVE PwmInv'
  OBVIOUS
<1> USE DEF IInv, TypeOK, BorrowInv, PwmInv, CoreInv, BoundInv, QuietInv,
       IdleInv, CoreRuns, AllLinux, NoneForeign, ResetMask, TouchedInv,
       ResetInv, LeaseInv, Idle, Early, Live, Late, Giving, Starting,
       Working, Exits, processVars, coreRegs, linuxVars, memoryVars,
       ghostVars
<1>0. ASSUME Out,
             UNCHANGED <<coreRegs, gates, pwm, bound, memoryVars, ghostVars>>
      PROVE PwmInv'
  <2>1. CASE touched
    BY LoaderAssumption, <1>0, <2>1 DEF Out, Goto
  <2>2. CASE ~touched
    BY LoaderAssumption, <1>0, <2>2 DEF Out, Goto
  <2> QED
    BY <2>1, <2>2
<1>1. CASE LoadFirmware
  BY LoaderAssumption, <1>1 DEF LoadFirmware, Out, Goto
<1>2. CASE SavePwm
  BY LoaderAssumption, <1>2 DEF SavePwm, Elsewhere
<1>3. CASE Allocate
  BY LoaderAssumption, <1>3 DEF Allocate, Out, Goto
<1>4. CASE RestorePwm
  BY LoaderAssumption, <1>4 DEF RestorePwm, Report, Goto
<1>5. ASSUME NEW g \in Groups, BindGroup(g)
      PROVE PwmInv'
  BY LoaderAssumption, <1>5 DEF BindGroup, Damage
<1>6. CASE ReleaseCore
  BY LoaderAssumption, <1>6 DEF ReleaseCore, Write, Goto
<1>7. CASE Restart
  BY LoaderAssumption, <1>7 DEF Restart, World, Nothing
<1>8. ASSUME NEW c \in Channels, CoreDrives(c)
      PROVE PwmInv'
  BY LoaderAssumption, <1>8 DEF CoreDrives
<1>9. CASE OpenFiles
  BY LoaderAssumption, <1>9 DEF OpenFiles, Out, Goto, Elsewhere
<1>10. CASE CheckUnused
  BY LoaderAssumption, <1>10 DEF CheckUnused, Out, Elsewhere, Goto
<1>11. CASE CheckIdle
  <2>1. CASE Goto("pins")
    BY LoaderAssumption, <1>11, <2>1 DEF CheckIdle, Goto, Elsewhere
  <2> QED
    BY <1>0, <1>11, <2>1 DEF CheckIdle, Elsewhere
<1>12. CASE AcquirePins
  <2>1. CASE /\ pins' = "servo" /\ pinned' /\ lpc' \in {"gates", "pwmBack"}
             /\ UNCHANGED <<servo, touched, leased, saved_pwm, old>>
    BY LoaderAssumption, <1>12, <2>1 DEF AcquirePins
  <2> QED
    BY <1>0, <1>12, <2>1 DEF AcquirePins
<1>13. CASE SaveGates
  <2>1. CASE /\ lpc' = "unbind" /\ old'.pwm = old.pwm
             /\ UNCHANGED <<servo, touched, leased, saved_pwm>>
    BY LoaderAssumption, <1>13, <2>1 DEF SaveGates, Elsewhere
  <2>2. CASE Out
    BY <1>0, <1>13, <2>2 DEF SaveGates, Elsewhere
  <2> QED
    BY <1>13, <2>1, <2>2 DEF SaveGates
<1>14. CASE EnableGates
  BY LoaderAssumption, <1>14 DEF EnableGates, Goto
<1>15. CASE AssertReset
  BY LoaderAssumption, <1>15 DEF AssertReset, Write, Goto, Elsewhere
<1>16. CASE SetBase
  BY LoaderAssumption, <1>16 DEF SetBase, Write, Goto, Elsewhere
<1>17. CASE ClockOn
  BY LoaderAssumption, <1>17 DEF ClockOn, Write, Goto, Elsewhere
<1>18. CASE ReleaseBus
  BY LoaderAssumption, <1>18 DEF ReleaseBus, Write, Goto, Elsewhere
<1>19. CASE SelectSource
  BY LoaderAssumption, <1>19 DEF SelectSource, Write, Goto, Elsewhere
<1>20. CASE AwaitMagic
  <2>1. CASE Goto("serve")
    BY LoaderAssumption, <1>20, <2>1 DEF AwaitMagic, Goto, Elsewhere
  <2>2. CASE Goto("holding")
    BY LoaderAssumption, <1>20, <2>2 DEF AwaitMagic, Goto, Elsewhere
  <2> QED
    BY <1>0, <1>20, <2>1, <2>2 DEF AwaitMagic, Elsewhere
<1>21. CASE Serve \/ EndHolding
  <2>1. CASE Serve
    BY LoaderAssumption, <2>1 DEF Serve, Served, Elsewhere
  <2>2. CASE EndHolding
    BY LoaderAssumption, <2>2 DEF EndHolding, Served, Elsewhere
  <2> QED
    BY <1>21, <2>1, <2>2
<1>22. CASE HoldCore
  BY LoaderAssumption, <1>22 DEF HoldCore, Goto
<1>23. CASE Confirm
  BY LoaderAssumption, <1>23 DEF Confirm, Goto, Elsewhere
<1>24. CASE RestoreBase
  BY LoaderAssumption, <1>24 DEF RestoreBase, Goto, Damage
<1>25. CASE RestoreMux
  BY LoaderAssumption, <1>25 DEF RestoreMux, Goto, Damage
<1>26. CASE RestoreClock
  BY LoaderAssumption, <1>26 DEF RestoreClock, Goto, Damage
<1>27. CASE VerifyCore
  BY LoaderAssumption, <1>27 DEF VerifyCore, Elsewhere, Report
<1>28. CASE RestoreGates
  BY LoaderAssumption, <1>28 DEF RestoreGates, Report, Damage
<1>29. CASE ReleasePins
  BY LoaderAssumption, <1>29 DEF ReleasePins, Report, Damage
<1>30. CASE FreeMemory
  BY LoaderAssumption, <1>30 DEF FreeMemory, Report, Damage
<1>31. CASE Close
  BY LoaderAssumption, <1>31 DEF Close, Elsewhere, Report
<1>32. CASE Signal
  BY LoaderAssumption, <1>32 DEF Signal, Elsewhere
<1>33. CASE Kill
  BY LoaderAssumption, <1>33 DEF Kill
<1>34. ASSUME NEW g \in Groups, UnbindGroup(g)
      PROVE PwmInv'
  <2>1. CASE Out /\ bound' = bound
    BY <1>0, <1>34, <2>1 DEF UnbindGroup
  <2>2. CASE /\ bound' = bound \ {g} /\ leased' = leased \cup {g}
             /\ UNCHANGED <<lpc, servo, touched, saved_pwm, old>>
    BY LoaderAssumption, <1>34, <2>2 DEF UnbindGroup
  <2> QED
    BY <1>34, <2>1, <2>2 DEF UnbindGroup
<1>35. CASE UNCHANGED vars
  BY LoaderAssumption, <1>35 DEF vars
<1> QED
  BY <1>1, <1>2, <1>3, <1>4, <1>5, <1>6, <1>7, <1>8, <1>9, <1>10, <1>11,
     <1>12, <1>13, <1>14, <1>15, <1>16, <1>17, <1>18, <1>19, <1>20, <1>21,
     <1>22, <1>23, <1>24, <1>25, <1>26, <1>27, <1>28, <1>29, <1>30, <1>31,
     <1>32, <1>33, <1>34, <1>35 DEF Next, Process

(* What the firmware wrote is gone before its group returns to Linux.       *)
LEMMA QuietStep == IInv /\ BorrowInv /\ [Next]_vars => QuietInv'
<1> SUFFICES ASSUME IInv, BorrowInv, [Next]_vars PROVE QuietInv'
  OBVIOUS
<1> USE DEF IInv, TypeOK, BorrowInv, QuietInv, CoreInv, BoundInv, PwmInv,
       IdleInv, CoreRuns, AllLinux, LinuxGroupsQuiet, ResetMask, TouchedInv,
       ResetInv, LeaseInv, Idle, Early, Live, Late, Giving, Starting,
       Working, Exits, processVars, coreRegs, linuxVars, memoryVars,
       ghostVars
<1>1. CASE CheckIdle
  BY LoaderAssumption, <1>1 DEF CheckIdle, Out, Goto, Elsewhere
<1>2. ASSUME NEW g \in Groups, UnbindGroup(g)
      PROVE QuietInv'
  BY LoaderAssumption, <1>2 DEF UnbindGroup, Out, Goto
<1>3. ASSUME NEW g \in Groups, BindGroup(g)
      PROVE QuietInv'
  BY LoaderAssumption, <1>3 DEF BindGroup, Damage
<1>4. CASE LoadFirmware
  BY LoaderAssumption, <1>4 DEF LoadFirmware, Out, Goto
<1>5. CASE SavePwm
  BY LoaderAssumption, <1>5 DEF SavePwm, Elsewhere
<1>6. CASE RestorePwm
  BY LoaderAssumption, <1>6 DEF RestorePwm, Report, Goto
<1>7. CASE Restart
  BY LoaderAssumption, <1>7 DEF Restart, World, Nothing
<1>8. ASSUME NEW c \in Channels, CoreDrives(c)
      PROVE QuietInv'
  BY LoaderAssumption, <1>8 DEF CoreDrives
<1>9. CASE OpenFiles
  BY LoaderAssumption, <1>9 DEF OpenFiles, Out, Goto, Elsewhere
<1>10. CASE CheckUnused
  BY LoaderAssumption, <1>10 DEF CheckUnused, Out, Elsewhere, Goto
<1>11. CASE AcquirePins
  BY LoaderAssumption, <1>11 DEF AcquirePins, Out, Goto
<1>12. CASE SaveGates
  BY LoaderAssumption, <1>12 DEF SaveGates, Out, Elsewhere, Goto
<1>13. CASE EnableGates
  BY LoaderAssumption, <1>13 DEF EnableGates, Goto
<1>14. CASE Allocate
  BY LoaderAssumption, <1>14 DEF Allocate, Out, Goto
<1>15. CASE AssertReset
  BY LoaderAssumption, <1>15 DEF AssertReset, Write, Goto, Elsewhere
<1>16. CASE SetBase
  BY LoaderAssumption, <1>16 DEF SetBase, Write, Goto, Elsewhere
<1>17. CASE ClockOn
  BY LoaderAssumption, <1>17 DEF ClockOn, Write, Goto, Elsewhere
<1>18. CASE ReleaseBus
  BY LoaderAssumption, <1>18 DEF ReleaseBus, Write, Goto, Elsewhere
<1>19. CASE SelectSource
  BY LoaderAssumption, <1>19 DEF SelectSource, Write, Goto, Elsewhere
<1>20. CASE ReleaseCore
  BY LoaderAssumption, <1>20 DEF ReleaseCore, Write, Goto, Elsewhere
<1>21. CASE AwaitMagic
  BY LoaderAssumption, <1>21 DEF AwaitMagic, Out, Goto, Elsewhere
<1>22. CASE Serve \/ EndHolding
  <2>1. CASE Serve
    BY LoaderAssumption, <2>1 DEF Serve, Served, Elsewhere
  <2>2. CASE EndHolding
    BY LoaderAssumption, <2>2 DEF EndHolding, Served, Elsewhere
  <2> QED
    BY <1>22, <2>1, <2>2
<1>23. CASE HoldCore
  BY LoaderAssumption, <1>23 DEF HoldCore, Goto
<1>24. CASE Confirm
  BY LoaderAssumption, <1>24 DEF Confirm, Goto, Elsewhere
<1>25. CASE RestoreBase
  BY LoaderAssumption, <1>25 DEF RestoreBase, Goto, Damage
<1>26. CASE RestoreMux
  BY LoaderAssumption, <1>26 DEF RestoreMux, Goto, Damage
<1>27. CASE RestoreClock
  BY LoaderAssumption, <1>27 DEF RestoreClock, Goto, Damage
<1>28. CASE VerifyCore
  BY LoaderAssumption, <1>28 DEF VerifyCore, Elsewhere, Report
<1>29. CASE RestoreGates
  BY LoaderAssumption, <1>29 DEF RestoreGates, Report, Damage
<1>30. CASE ReleasePins
  BY LoaderAssumption, <1>30 DEF ReleasePins, Report, Damage
<1>31. CASE FreeMemory
  BY LoaderAssumption, <1>31 DEF FreeMemory, Report, Damage
<1>32. CASE Close
  BY LoaderAssumption, <1>32 DEF Close, Elsewhere, Report
<1>33. CASE Signal
  BY LoaderAssumption, <1>33 DEF Signal, Elsewhere
<1>34. CASE Kill
  BY LoaderAssumption, <1>34 DEF Kill
<1>35. CASE UNCHANGED vars
  BY LoaderAssumption, <1>35 DEF vars
<1> QED
  BY <1>1, <1>2, <1>3, <1>4, <1>5, <1>6, <1>7, <1>8, <1>9, <1>10, <1>11,
     <1>12, <1>13, <1>14, <1>15, <1>16, <1>17, <1>18, <1>19, <1>20, <1>21,
     <1>22, <1>23, <1>24, <1>25, <1>26, <1>27, <1>28, <1>29, <1>30, <1>31,
     <1>32, <1>33, <1>34, <1>35 DEF Next, Process

(* What is borrowed can be given back, in every reachable state. *)
THEOREM Borrowing == Spec => []BorrowInv
<1>1. IInv /\ BorrowInv /\ [Next]_vars => BorrowInv'
  BY BoundStep, GatesStep, MuxStep, PinsStep, ReportStep, CoreStep, PwmStep,
     QuietStep DEF BorrowInv
<1> QED
  BY <1>1, BorrowInit, Invariance, PTL DEF Spec

(* A group of the Linux driver never carries what the core wrote, whatever *)
(* was killed before and by whichever line the run left main, but for the  *)
(* channels that did not take their old values back.                       *)
THEOREM LinuxGroupsStayQuiet == Spec => []LinuxGroupsQuiet
<1>1. BorrowInv => LinuxGroupsQuiet
  BY DEF BorrowInv, QuietInv
<1> QED
  BY <1>1, Borrowing, PTL

(* main never stops or rewrites a channel that was on before the run.      *)
THEOREM ForeignOutputsAreKept == Spec => []ForeignOutputsUntouched
<1>1. IInv /\ BorrowInv => ForeignOutputsUntouched
  <2> SUFFICES ASSUME IInv, BorrowInv, NEW c \in Channels,
                      found.pwm[c].en, found.pwm[c].by = "linux"
               PROVE  pwm[c] = found.pwm[c]
    BY DEF ForeignOutputsUntouched
  <2>1. ~NoneForeign(found.pwm)
    BY DEF NoneForeign
  <2>2. CASE touched
    BY <2>1, <2>2 DEF IInv, TypeOK, BorrowInv, PwmInv
  <2>3. CASE ~touched
    BY <2>1, <2>3 DEF BorrowInv, PwmInv, CoreInv
  <2> QED
    BY <2>2, <2>3
<1> QED
  BY <1>1, Invariance, Borrowing, PTL

(* Whichever line a run leaves main from, the board is as it was found, or *)
(* the exit code says that it is not.                                      *)
THEOREM ExitGivesBack == Spec => []ExitRestores
<1>1. IInv /\ BorrowInv => ExitRestores
  <2> SUFFICES ASSUME IInv, BorrowInv, lpc = "exit", ~CoreRuns,
                      rc = 0 \/ ~damaged
               PROVE  /\ World = found
                      /\ touched => reset = ResetMask /\ ~clock /\ ~base
                      /\ allocated => memory = "none"
    BY DEF ExitRestores
  <2> USE DEF BorrowInv, Exits, Giving
  <2>1. ~damaged
    BY DEF ReportInv
  <2>2. bound = found.bound /\ leased = {}
    BY <2>1 DEF BoundInv
  <2>3. gates = found.gates /\ mux = found.mux /\ pins = found.pins
    BY <2>1 DEF GatesInv, MuxInv, PinsInv
  <2>4. pwm = found.pwm
    BY <2>1 DEF PwmInv
  <2>5. World = found
    BY <2>2, <2>3, <2>4 DEF World, IInv, TypeOK
  <2>6. touched => reset = ResetMask /\ ~clock /\ ~base
    BY <2>1 DEF MuxInv, IInv, ResetInv
  <2>7. allocated => memory = "none"
    BY <2>1 DEF ReportInv
  <2> QED
    BY <2>5, <2>6, <2>7
<1> QED
  BY <1>1, Invariance, Borrowing, PTL
=============================================================================
