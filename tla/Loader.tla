------------------------------- MODULE Loader -------------------------------
(***************************************************************************)
(* The life of the A53 loader, main of tools/e907_live_probe.c: it borrows *)
(* the servo pins and the two PWM groups from Linux, puts the firmware in  *)
(* CMM memory, lets the E907 go, serves it (module BenchLink, here only    *)
(* its outcome) and gives everything back, from whichever line it leaves.  *)
(*                                                                         *)
(* One action per write to the reset, clock and base registers and per     *)
(* resource taken or returned: every call may fail, a signal may arrive at *)
(* any moment, and the process may be killed between any two actions, be   *)
(* started again and find what the dead one left.                          *)
(***************************************************************************)
EXTENDS Integers, FiniteSets

CONSTANTS
  Groups,       \* numbers of the Linux PWM groups (0: PWM0/1, 1: PWM6/7)
  Channels,     \* servo channels
  GroupOf,      \* the group of a channel (servo_board.h)
  MaxRuns       \* bound: loader processes started one after the other

ASSUME LoaderAssumption ==
  /\ Groups \subseteq Nat /\ IsFiniteSet(Groups) /\ Groups # {}
  /\ GroupOf \in [Channels -> Groups]
  /\ MaxRuns \in Nat \ {0}

VARIABLES
  (* the process *)
  lpc, servo, rc, cancelled,
  initialized, allocated, touched, leased, saved_pwm, old,
  pinned,       \* servo_pin_lease holds something to give back
  (* the board and the kernel *)
  reset,        \* asserted bits of RESET_MASK: "core" (16), "bus" (17)
  base, clock, mux,   \* boot address set, clock gate, clock source
  gates,        \* clock gates of each PWM group
  pwm,          \* registers of each servo channel
  bound,        \* groups bound to the Linux PWM driver
  pins,         \* who has the servo pins and I2C0: "linux", "servo"
  memory,       \* "none" or "allocated"
  image,        \* what the memory at the boot address holds
  (* for the properties *)
  found, damaged, killed, runs,
  stuck         \* channels whose registers a run could not restore

processVars == <<lpc, servo, rc, cancelled, initialized, allocated, touched,
                 leased, saved_pwm, old, pinned>>
coreRegs == <<reset, base, clock, mux>>
linuxVars == <<gates, pwm, bound, pins>>
memoryVars == <<memory, image>>
ghostVars == <<found, damaged, killed, runs, stuck>>
vars == <<processVars, coreRegs, linuxVars, memoryVars, ghostVars>>

ResetMask == {"core", "bus"}
\* A channel's registers: its enable bit and whose values the others hold.
PwmRegs == [en : BOOLEAN, by : {"linux", "servo"}]
World == [mux |-> mux, gates |-> gates, pwm |-> pwm, bound |-> bound,
          pins |-> pins]
Nothing == [mux |-> FALSE, gates |-> [g \in Groups |-> FALSE],
            pwm |-> [c \in Channels |-> [en |-> FALSE, by |-> "linux"]]]

CoreRuns == reset = {} /\ clock

Init ==
  /\ lpc = "lock" /\ servo \in BOOLEAN /\ rc = 1 /\ cancelled = FALSE
  /\ initialized = FALSE /\ allocated = FALSE /\ touched = FALSE
  /\ leased = {} /\ saved_pwm = FALSE /\ old = Nothing
  /\ reset = ResetMask /\ base = FALSE /\ clock = FALSE
  /\ mux \in BOOLEAN /\ gates \in [Groups -> BOOLEAN]
  /\ pwm \in [Channels -> [en : BOOLEAN, by : {"linux"}]]
  /\ bound = Groups /\ pins = "linux" /\ pinned = FALSE
  /\ memory = "none" /\ image = "none"
  /\ found = World /\ damaged = FALSE /\ killed = FALSE /\ runs = 1
  /\ stuck = {}

-----------------------------------------------------------------------------
Goto(point) ==
  /\ lpc' = point
  /\ UNCHANGED <<servo, rc, cancelled, initialized, allocated, touched, leased,
                 saved_pwm, old, pinned>>
\* Faulty variant: goto out forgets the core.
OutNoHold == Goto("pwmBack")
\* goto out: what is not touched need not be held in reset again.
Out == Goto(IF touched THEN "hold" ELSE "pwmBack")
Elsewhere == UNCHANGED <<coreRegs, linuxVars, memoryVars, ghostVars>>

(* Lock file, firmware file, /dev/mem: nothing is taken from anybody yet.  *)
OpenFiles ==
  /\ lpc = "lock" /\ Elsewhere
  /\ Goto("check") \/ Out

(* The E907 must be in reset, without clock and without a boot address.    *)
CheckUnused ==
  /\ lpc = "check" /\ Elsewhere
  /\ IF reset = ResetMask /\ ~clock /\ ~base
       THEN /\ lpc' = (IF servo THEN "idle" ELSE "alloc")
            /\ old' = [old EXCEPT !.mux = mux]
            /\ UNCHANGED <<servo, rc, cancelled, initialized, allocated,
                           touched, leased, saved_pwm, pinned>>
       ELSE Out

(* Both groups are listed by the kernel and nobody uses them.              *)
CheckIdle ==
  /\ lpc = "idle" /\ Elsewhere
  /\ (bound = Groups /\ Goto("pins")) \/ Out

(* servo_pins_acquire may give up with part of the lease taken.            *)
AcquirePins ==
  /\ lpc = "pins"
  /\ \/ Out /\ UNCHANGED pins
     \/ /\ pins' = "servo" /\ pinned' = TRUE /\ lpc' \in {"gates", "pwmBack"}
        /\ UNCHANGED <<servo, rc, cancelled, initialized, allocated, touched,
                       leased, saved_pwm, old>>
  /\ UNCHANGED <<coreRegs, gates, pwm, bound, memoryVars, ghostVars>>

(* Faulty variant: the gates are read after they were switched on.         *)
SaveGatesLate ==
  /\ lpc = "gates" /\ Elsewhere
  /\ \/ /\ lpc' = "unbind"
        /\ old' = [old EXCEPT !.gates = [g \in Groups |-> TRUE]]
        /\ UNCHANGED <<servo, rc, cancelled, initialized, allocated, touched,
                       leased, saved_pwm, pinned>>
     \/ Out

(* Mapping the registers may fail; then the clock gates are remembered.    *)
SaveGates ==
  /\ lpc = "gates" /\ Elsewhere
  /\ \/ /\ lpc' = "unbind" /\ old' = [old EXCEPT !.gates = gates]
        /\ UNCHANGED <<servo, rc, cancelled, initialized, allocated, touched,
                       leased, saved_pwm, pinned>>
     \/ Out

(* The groups are taken from the Linux driver in order.                    *)
UnbindGroup(g) ==
  /\ lpc = "unbind" /\ g \in Groups \ leased
  /\ \A h \in Groups \ leased : g <= h
  /\ \/ /\ bound' = bound \ {g} /\ leased' = leased \cup {g}
        /\ UNCHANGED <<lpc, servo, rc, cancelled, initialized, allocated,
                       touched, saved_pwm, old, pinned>>
     \/ Out /\ UNCHANGED bound
  /\ UNCHANGED <<coreRegs, gates, pwm, pins, memoryVars, ghostVars>>

EnableGates ==
  /\ lpc = "unbind" /\ leased = Groups
  /\ gates' = [g \in Groups |-> TRUE] /\ Goto("save")
  /\ UNCHANGED <<coreRegs, pwm, bound, pins, memoryVars, ghostVars>>

(* Faulty variant: an enabled channel is no reason to refuse.              *)
SavePwmAnyway ==
  /\ lpc = "save" /\ Elsewhere
  /\ saved_pwm' = TRUE /\ old' = [old EXCEPT !.pwm = pwm]
  /\ lpc' = "alloc"
  /\ UNCHANGED <<servo, rc, cancelled, initialized, allocated, touched, leased,
                 pinned>>

(* The registers are remembered; a channel that is on is somebody else's.  *)
SavePwm ==
  /\ lpc = "save" /\ Elsewhere
  /\ saved_pwm' = TRUE /\ old' = [old EXCEPT !.pwm = pwm]
  /\ lpc' = IF \E c \in Channels : pwm[c].en THEN "pwmBack" ELSE "alloc"
  /\ UNCHANGED <<servo, rc, cancelled, initialized, allocated, touched, leased,
                 pinned>>

(* dlopen, AX_SYS_Init, AX_SYS_MemAlloc: each may fail.                    *)
Allocate ==
  /\ lpc = "alloc"
  /\ \/ Out /\ UNCHANGED <<memory, image>>
     \/ /\ initialized' = TRUE /\ lpc' = "pwmBack"
        /\ UNCHANGED <<allocated, memory, image>>
        /\ UNCHANGED <<servo, rc, cancelled, touched, leased, saved_pwm, old,
                       pinned>>
     \/ /\ initialized' = TRUE /\ allocated' = TRUE /\ lpc' = "load"
        /\ memory' = "allocated" /\ image' = "none"
        /\ UNCHANGED <<servo, rc, cancelled, touched, leased, saved_pwm, old,
                       pinned>>
  /\ UNCHANGED <<coreRegs, linuxVars, ghostVars>>

(* An address outside the verified range is refused; else the firmware is  *)
(* copied, and a signal that came before this point ends the run here.     *)
LoadFirmware ==
  /\ lpc = "load"
  /\ \/ Out /\ UNCHANGED image
     \/ /\ image' = IF servo THEN "servo" ELSE "probe"
        /\ IF cancelled THEN Out
           ELSE /\ touched' = TRUE /\ lpc' = "assert"
                /\ UNCHANGED <<servo, rc, cancelled, initialized, allocated,
                               leased, saved_pwm, old, pinned>>
  /\ UNCHANGED <<coreRegs, linuxVars, memory, ghostVars>>

(* The core is let go, one register write after the other.                 *)
Write(point, next) ==
  /\ lpc = point /\ Goto(next)
  /\ UNCHANGED <<linuxVars, memoryVars, ghostVars>>
AssertReset ==
  Write("assert", "base") /\ reset' = reset \cup {"core"}
  /\ UNCHANGED <<base, clock, mux>>
SetBase ==
  Write("base", "clock") /\ base' = TRUE /\ UNCHANGED <<reset, clock, mux>>
ClockOn ==
  Write("clock", "bus") /\ clock' = TRUE /\ UNCHANGED <<reset, base, mux>>
ReleaseBus ==
  Write("bus", "mux") /\ reset' = reset \ {"bus"}
  /\ UNCHANGED <<base, clock, mux>>
SelectSource ==
  Write("mux", "core") /\ mux' = TRUE /\ UNCHANGED <<reset, base, clock>>
ReleaseCore ==
  Write("core", "magic") /\ reset' = reset \ {"core"}
  /\ UNCHANGED <<base, clock, mux>>

(* The magic word appears in time or not; a signal ends the wait. The      *)
(* command line has said whether it serves a sequence or holds a position. *)
AwaitMagic ==
  /\ lpc = "magic" /\ Elsewhere
  /\ \/ ~cancelled /\ (Goto("serve") \/ (servo /\ Goto("holding")))
     \/ Out

\* The commands are over, with whatever outcome.
Served(outcomes) ==
  /\ rc' \in outcomes /\ lpc' = "hold" /\ Elsewhere
  /\ UNCHANGED <<servo, cancelled, initialized, allocated, touched, leased,
                 saved_pwm, old, pinned>>

(* A sequence has an end; a probe that was cancelled is no success.        *)
Serve ==
  /\ lpc = "serve"
  /\ Served(IF cancelled /\ ~servo THEN {1} ELSE {0, 1})

(* --hold-servo repeats its command until a signal ends the loop, which is *)
(* a success, or a command fails.                                          *)
EndHolding ==
  /\ lpc = "holding"
  /\ Served(IF cancelled THEN {0, 1} ELSE {1})

-----------------------------------------------------------------------------
(* The way out. The core is held in reset before anything is taken away    *)
(* from it; the write may have no effect.                                  *)
HoldCore ==
  /\ lpc = "hold" /\ Goto("confirm")
  /\ reset' \in {ResetMask, reset}
  /\ UNCHANGED <<base, clock, mux, linuxVars, memoryVars, ghostVars>>

(* Faulty variant: the reset bits are not read back.                       *)
ConfirmBlindly ==
  /\ lpc = "confirm" /\ Elsewhere
  /\ Goto("baseBack")

(* Faulty variant: waits for the bits without a limit and without a word.  *)
ConfirmWaits ==
  /\ lpc = "confirm" /\ Elsewhere
  /\ reset = ResetMask /\ Goto("baseBack")

(* A core that cannot be stopped keeps its memory, and the process with it *)
(* the locks and the pins, for ever.                                       *)
Confirm ==
  /\ lpc = "confirm" /\ Elsewhere
  /\ Goto(IF reset = ResetMask THEN "baseBack" ELSE "fatal")

\* rc becomes 1 when a step of the cleanup reports a failure.
Report(ok, point) ==
  /\ rc' = (IF ok THEN rc ELSE 1) /\ lpc' = point
  /\ UNCHANGED <<servo, cancelled, initialized, allocated, touched, leased,
                 saved_pwm, old, pinned>>
\* Damage: a resource that could not be given back.
Damage(ok) ==
  damaged' = (damaged \/ ~ok) /\ UNCHANGED <<found, killed, runs, stuck>>

(* Each of the core's registers is written once; the write may be lost,    *)
(* which the readback after the last one finds.                            *)
RestoreBase ==
  /\ lpc = "baseBack" /\ Goto("muxBack")
  /\ base' \in {FALSE, base} /\ Damage(~base')
  /\ UNCHANGED <<reset, clock, mux, linuxVars, memoryVars>>
RestoreMux ==
  /\ lpc = "muxBack" /\ Goto("clockBack")
  /\ mux' \in {old.mux, mux} /\ Damage(mux' = old.mux)
  /\ UNCHANGED <<reset, base, clock, linuxVars, memoryVars>>
RestoreClock ==
  /\ lpc = "clockBack" /\ Goto("verify")
  /\ clock' \in {FALSE, clock} /\ Damage(~clock')
  /\ UNCHANGED <<reset, base, mux, linuxVars, memoryVars>>

VerifyCore ==
  /\ lpc = "verify" /\ Elsewhere
  /\ Report(mux = old.mux /\ ~clock /\ reset = ResetMask /\ ~base, "pwmBack")

(* Faulty variant: the registers come back only after a success.           *)
RestorePwmOnSuccess ==
  /\ lpc = "pwmBack"
  /\ pwm' = (IF leased # {} /\ saved_pwm /\ rc = 0 THEN old.pwm ELSE pwm)
  /\ Goto("gatesBack")
  /\ UNCHANGED <<coreRegs, gates, bound, pins, memoryVars, ghostVars>>

(* The registers come back only when the core may have written them: each  *)
(* channel is first stopped, then gets its counts and its control word. A  *)
(* channel that does not read back is reported, and goes to Linux as it is.*)
RestorePwm ==
  /\ lpc = "pwmBack"
  /\ IF leased # {} /\ saved_pwm /\ touched
       THEN \E lost \in SUBSET Channels :
              /\ pwm' = [c \in Channels |->
                          IF c \in lost THEN pwm[c] ELSE old.pwm[c]]
              /\ Report(pwm' = old.pwm, "gatesBack")
              /\ damaged' = (damaged \/ pwm' # old.pwm)
              /\ stuck' = stuck \cup {c \in Channels : pwm'[c] # old.pwm[c]}
       ELSE Goto("gatesBack") /\ UNCHANGED <<pwm, damaged, stuck>>
  /\ UNCHANGED <<coreRegs, gates, bound, pins, memoryVars, found, killed,
                 runs>>

(* Only the gates of groups that were taken, also when just one was; they  *)
(* are read back too.                                                      *)
RestoreGates ==
  /\ lpc = "gatesBack"
  /\ \E lost \in SUBSET leased :
       gates' = [g \in Groups |->
                  IF g \in leased \ lost THEN old.gates[g] ELSE gates[g]]
  /\ LET ok == \A g \in leased : gates'[g] = old.gates[g]
     IN  Report(ok, "bind") /\ Damage(ok)
  /\ UNCHANGED <<coreRegs, pwm, bound, pins, memoryVars>>

(* They go back to the Linux driver in reverse order, as far as they go.   *)
BindGroup(g) ==
  /\ lpc = "bind" /\ g \in leased
  /\ \A h \in leased : g >= h
  /\ \E ok \in BOOLEAN :
       /\ bound' = (IF ok THEN bound \cup {g} ELSE bound)
       /\ leased' = leased \ {g}
       /\ rc' = (IF ok THEN rc ELSE 1) /\ Damage(ok)
  /\ UNCHANGED <<lpc, servo, cancelled, initialized, allocated, touched,
                 saved_pwm, old, pinned>>
  /\ UNCHANGED <<coreRegs, gates, pwm, pins, memoryVars>>

ReleasePins ==
  /\ lpc = "bind" /\ leased = {}
  /\ \E ok \in {TRUE, ~pinned} :
       /\ pins' = (IF pinned /\ ok THEN found.pins ELSE pins)
       /\ Report(ok, "free") /\ Damage(ok)
  /\ UNCHANGED <<coreRegs, gates, pwm, bound, memoryVars>>

FreeMemory ==
  /\ lpc = "free"
  /\ \E ok \in BOOLEAN :
       /\ memory' = (IF allocated /\ ok THEN "none" ELSE memory)
       /\ Report(allocated => ok, "close") /\ Damage(allocated => ok)
  /\ UNCHANGED <<coreRegs, linuxVars, image>>

(* AX_SYS_Deinit may fail; then maps, files and the lock are closed.       *)
Close ==
  /\ lpc = "close" /\ Elsewhere
  /\ \E ok \in BOOLEAN : Report(initialized => ok, "exit")

-----------------------------------------------------------------------------
Signal ==
  /\ lpc \notin {"exit", "dead"} /\ ~cancelled /\ cancelled' = TRUE
  /\ UNCHANGED <<lpc, servo, rc, initialized, allocated, touched, leased,
                 saved_pwm, old, pinned>>
  /\ Elsewhere

(* The servo firmware of ServoService, reduced to what it may leave in the *)
(* registers.                                                              *)
CoreDrives(c) ==
  /\ CoreRuns /\ image = "servo"
  /\ pwm' = [pwm EXCEPT ![c] = [en |-> ~pwm[c].en, by |-> "servo"]]
  /\ UNCHANGED <<processVars, coreRegs, gates, bound, pins, memoryVars,
                 ghostVars>>

(* SIGKILL: the kernel closes the files, which frees the CMM memory, the   *)
(* locks and the GPIO lines; pads, registers and bindings stay.            *)
Kill ==
  /\ lpc \notin {"exit", "dead"}
  /\ lpc' = "dead" /\ killed' = TRUE /\ memory' = "none"
  /\ UNCHANGED <<servo, rc, cancelled, initialized, allocated, touched,
                 leased, saved_pwm, old, pinned, coreRegs, linuxVars, image,
                 found, damaged, runs, stuck>>

(* A new process, with the world as the last one left it.                  *)
Restart ==
  /\ lpc \in {"exit", "dead"} /\ runs < MaxRuns
  /\ runs' = runs + 1 /\ found' = World /\ damaged' = FALSE
  /\ lpc' = "lock" /\ servo' \in BOOLEAN /\ rc' = 1 /\ cancelled' = FALSE
  /\ initialized' = FALSE /\ allocated' = FALSE /\ touched' = FALSE
  /\ leased' = {} /\ saved_pwm' = FALSE /\ old' = Nothing /\ pinned' = FALSE
  /\ UNCHANGED <<coreRegs, linuxVars, memoryVars, killed, stuck>>

Process ==
  \/ OpenFiles \/ CheckUnused \/ CheckIdle \/ AcquirePins \/ SaveGates
  \/ \E g \in Groups : UnbindGroup(g) \/ BindGroup(g)
  \/ EnableGates \/ SavePwm \/ Allocate \/ LoadFirmware
  \/ AssertReset \/ SetBase \/ ClockOn \/ ReleaseBus \/ SelectSource
  \/ ReleaseCore \/ AwaitMagic \/ Serve \/ EndHolding
  \/ HoldCore \/ Confirm \/ RestoreBase \/ RestoreMux \/ RestoreClock
  \/ VerifyCore \/ RestorePwm \/ RestoreGates \/ ReleasePins \/ FreeMemory
  \/ Close

Next ==
  \/ Process \/ Signal \/ Kill \/ Restart
  \/ \E c \in Channels : CoreDrives(c)

Spec == Init /\ [][Next]_vars

(* The process is scheduled and its calls return; nobody promises signals, *)
(* kills, restarts, what the core does, or that a command of a hold fails. *)
FairSpec == Spec /\ WF_vars(Process /\ (lpc = "holding" => cancelled))

-----------------------------------------------------------------------------
TypeOK ==
  /\ lpc \in {"lock", "check", "idle", "pins", "gates", "unbind", "save",
              "alloc", "load", "assert", "base", "clock", "bus", "mux", "core",
              "magic", "serve", "holding", "hold", "confirm", "baseBack",
              "muxBack", "clockBack", "verify", "pwmBack", "gatesBack",
              "bind", "free", "close", "exit", "dead", "fatal"}
  /\ servo \in BOOLEAN /\ rc \in {0, 1} /\ cancelled \in BOOLEAN
  /\ initialized \in BOOLEAN /\ allocated \in BOOLEAN /\ touched \in BOOLEAN
  /\ leased \in SUBSET Groups /\ saved_pwm \in BOOLEAN /\ pinned \in BOOLEAN
  /\ old \in [mux : BOOLEAN, gates : [Groups -> BOOLEAN],
              pwm : [Channels -> PwmRegs]]
  /\ reset \in SUBSET ResetMask
  /\ base \in BOOLEAN /\ clock \in BOOLEAN /\ mux \in BOOLEAN
  /\ gates \in [Groups -> BOOLEAN] /\ pwm \in [Channels -> PwmRegs]
  /\ bound \in SUBSET Groups /\ pins \in {"linux", "servo"}
  /\ memory \in {"none", "allocated"} /\ image \in {"none", "probe", "servo"}
  /\ found \in [mux : BOOLEAN, gates : [Groups -> BOOLEAN],
                pwm : [Channels -> PwmRegs], bound : SUBSET Groups,
                pins : {"linux", "servo"}]
  /\ damaged \in BOOLEAN /\ killed \in BOOLEAN /\ runs \in 1 .. MaxRuns
  /\ stuck \subseteq Channels

(* What the core needs outlives it: while it may execute, or cannot be     *)
(* stopped, its memory stays allocated, and the PWM groups and the pins    *)
(* stay away from Linux (main: reset is confirmed before anything goes     *)
(* back). Only SIGKILL breaks this, as BENCH.md warns.                     *)
ResourcesOutliveCore ==
  (CoreRuns \/ lpc = "fatal") /\ ~killed =>
    /\ memory = "allocated" /\ image # "none"
    /\ servo => bound = {} /\ pins = "servo"

(* However a run ends, on whichever line it failed, the board is what it   *)
(* was before, unless giving something back failed; and rc = 0 is only     *)
(* returned when nothing of that kind failed and the memory is free again. *)
ExitRestores ==
  lpc = "exit" /\ ~CoreRuns /\ (rc = 0 \/ ~damaged) =>
    /\ World = found
    /\ touched => reset = ResetMask /\ ~clock /\ ~base
    /\ allocated => memory = "none"

(* A group that belongs to the Linux driver never carries what the core    *)
(* wrote, not even after a kill and a second run; except for a channel that*)
(* did not take its old values back, of which the run said so by its code. *)
LinuxGroupsQuiet ==
  \A c \in Channels \ stuck : GroupOf[c] \in bound => pwm[c].by = "linux"

(* A channel somebody else had switched on before the run is neither       *)
(* stopped nor rewritten (the refusal after the registers are mapped).     *)
ForeignOutputsUntouched ==
  \A c \in Channels :
    found.pwm[c].en /\ found.pwm[c].by = "linux" => pwm[c] = found.pwm[c]

(* A run takes over only a core that is in reset, without clock and        *)
(* without boot address at that very moment, whatever a killed run left.   *)
TakesOnlyIdleCore ==
  [][~touched /\ touched' => reset = ResetMask /\ ~clock /\ ~base]_vars

(* The loader itself writes PWM registers only while both reset bits are   *)
(* confirmed, so the two never write the same channel at the same time;    *)
(* a core that is merely without clock is not good enough.                 *)
WritesPwmAlone == [][pwm' # pwm /\ lpc' # lpc => reset = ResetMask]_vars

(* Every run ends, or says that the core cannot be stopped, but for a hold *)
(* that nobody stops; and a signal ends that one too.                      *)
RunEnds ==
  []<>(lpc \in {"exit", "fatal", "dead"} \/ (lpc = "holding" /\ ~cancelled))
=============================================================================
