------------------------------ MODULE PinLease ------------------------------
(***************************************************************************)
(* The lease of the V1.1 servo pins (tools/servo_v11_pins.h) between the   *)
(* programs that take it: the E907 loader (tools/e907_live_probe.c, its    *)
(* own life is module Loader) and the MaixCDK bench (cpp/src/bench.cpp).   *)
(*                                                                         *)
(* Every step of a program is an action: another program, the core a dead  *)
(* loader left behind, or SIGKILL may come between any two. The kernel     *)
(* frees the lock file and the GPIO lines of a dead program and nothing    *)
(* else: pads, the I2C0 driver, exported PWM channels and bindings stay.   *)
(***************************************************************************)
EXTENDS Integers

CONSTANTS
  Procs,      \* processes
  Nobody,     \* no process
  NPads       \* servo pads, one PWM channel each (4 on the board)

ASSUME PinLeaseAssumption ==
  /\ Nobody \notin Procs /\ NPads \in Nat \ {0}

Pads == 1 .. NPads
PadValues == {"board", "pwm"}

VARIABLES
  (* each process *)
  pc, kind,
  saved, old,   \* the saved pads
  detached,     \* it has unbound I2C0
  left,         \* pads still to put back
  dev,          \* the bench's PWM devices: none, open, muxed, on, quiet
  (* the kernel *)
  owner, lineOf,    \* holders of the lock file and of the GPIO lines
  driver,           \* I2C0 is bound
  groups, used,     \* the PWM groups are bound; channels requested
  (* the board *)
  pad, pulse,       \* who drives a channel: off, bench, core
  core,             \* off, fresh, ready (outputs initialised)
  (* for the properties *)
  found, abandoned, excused

procVars == <<pc, kind, saved, old, detached, left, dev>>
kernelVars == <<owner, lineOf, driver, groups, used>>
boardVars == <<pad, pulse, core>>
ghostVars == <<found, abandoned, excused>>
vars == <<procVars, kernelVars, boardVars, ghostVars>>

Leased == [pad |-> pad, driver |-> driver]
NoDevices == [i \in Pads |-> "none"]

Init ==
  /\ pc = [p \in Procs |-> "off"] /\ kind = [p \in Procs |-> "bench"]
  /\ saved = [p \in Procs |-> FALSE]
  /\ old = [p \in Procs |-> [i \in Pads |-> "board"]]
  /\ detached = [p \in Procs |-> FALSE] /\ left = [p \in Procs |-> {}]
  /\ dev = [p \in Procs |-> NoDevices]
  /\ owner = Nobody /\ lineOf = Nobody /\ driver \in BOOLEAN
  /\ groups = TRUE /\ used = {}
  /\ pad = [i \in Pads |-> "board"] /\ pulse = [i \in Pads |-> "off"]
  /\ core = "off"
  /\ found = Leased /\ abandoned = FALSE /\ excused = FALSE

-----------------------------------------------------------------------------
At(p, point) == pc[p] = point
Goto(p, point) == pc' = [pc EXCEPT ![p] = point]
Drop(f, p) == IF f = p THEN Nobody ELSE f
\* The locals of a program that has ended or not yet begun.
Gone(p) ==
  /\ Goto(p, "off") /\ kind' = [kind EXCEPT ![p] = "bench"]
  /\ saved' = [saved EXCEPT ![p] = FALSE]
  /\ old' = [old EXCEPT ![p] = [i \in Pads |-> "board"]]
  /\ detached' = [detached EXCEPT ![p] = FALSE]
  /\ left' = [left EXCEPT ![p] = {}] /\ dev' = [dev EXCEPT ![p] = NoDevices]
Excuse(ok) == excused' = (excused \/ ~ok) /\ UNCHANGED <<found, abandoned>>

(* A program comes to its lease with an empty one. There is one loader at  *)
(* a time and it refuses a core that is not idle (module Loader).          *)
Start(p, k) ==
  /\ At(p, "off")
  /\ k = "loader" => core = "off" /\ \A q \in Procs : kind[q] = "bench"
  /\ kind' = [kind EXCEPT ![p] = k] /\ Goto(p, "groups")
  /\ UNCHANGED <<saved, old, detached, left, dev, kernelVars, boardVars, found,
                 abandoned, excused>>

(* servo_pwm_groups_idle, before anything is locked.                       *)
GroupsIdle == groups /\ used = {}
CheckGroups(p) ==
  /\ At(p, "groups")
  /\ \/ Gone(p)
     \/ GroupsIdle /\ Goto(p, "lock")
        /\ UNCHANGED <<kind, saved, old, detached, left, dev>>
  /\ UNCHANGED <<kernelVars, boardVars, ghostVars>>

(* Faulty variant: flock without LOCK_NB.                                  *)
TakeLockWaits(p) ==
  /\ At(p, "lock") /\ owner = Nobody /\ owner' = p /\ Goto(p, "clients")
  /\ found' = Leased /\ abandoned' = FALSE /\ UNCHANGED excused
  /\ UNCHANGED <<kind, saved, old, detached, left, dev, lineOf, driver, groups,
                 used, boardVars>>

(* servo_pins_acquire: the lock file, without waiting for it.              *)
TakeLock(p) ==
  /\ At(p, "lock")
  /\ \/ Gone(p) /\ UNCHANGED <<owner, ghostVars>>
     \/ /\ owner = Nobody /\ owner' = p /\ Goto(p, "clients")
        /\ found' = Leased /\ abandoned' = FALSE
        /\ UNCHANGED <<kind, saved, old, detached, left, dev, excused>>
  /\ UNCHANGED <<lineOf, driver, groups, used, boardVars>>

(* A console, an I2C client or a user of the bus or of UART1 ends it.      *)
CheckClients(p) ==
  /\ At(p, "clients") /\ (Goto(p, "save") \/ Goto(p, "lines back"))
  /\ UNCHANGED <<kind, saved, old, detached, left, dev, kernelVars, boardVars,
                 ghostVars>>

(* The pads are mapped and remembered.                                     *)
SavePads(p) ==
  /\ At(p, "save")
  /\ \/ Goto(p, "lines back") /\ UNCHANGED <<saved, old>>
     \/ /\ saved' = [saved EXCEPT ![p] = TRUE]
        /\ old' = [old EXCEPT ![p] = pad] /\ Goto(p, "unbind")
  /\ UNCHANGED <<kind, detached, left, dev, kernelVars, boardVars, ghostVars>>

(* Faulty variant: that I2C0 was unbound is noted only with the lines.     *)
UnbindI2cUnnoted(p) ==
  /\ At(p, "unbind")
  /\ \/ driver /\ Goto(p, "lines back") /\ UNCHANGED driver
     \/ Goto(p, "lines") /\ driver' = FALSE
  /\ UNCHANGED <<kind, saved, old, detached, left, dev, owner, lineOf, groups,
                 used, boardVars, ghostVars>>

(* I2C0 leaves the pads, when it is there.                                 *)
UnbindI2c(p) ==
  /\ At(p, "unbind")
  /\ \/ driver /\ Goto(p, "lines back") /\ UNCHANGED <<driver, detached>>
     \/ /\ Goto(p, "lines") /\ driver' = FALSE
        /\ detached' = [detached EXCEPT ![p] = driver]
  /\ UNCHANGED <<kind, saved, old, left, dev, owner, lineOf, groups, used,
                 boardVars, ghostVars>>

(* All GPIO lines in one request, refused when one is used or an output.   *)
RequestLines(p) ==
  /\ At(p, "lines")
  /\ \/ Goto(p, "lines back") /\ UNCHANGED lineOf
     \/ lineOf = Nobody /\ lineOf' = p /\ Goto(p, "use")
  /\ UNCHANGED <<kind, saved, old, detached, left, dev, owner, driver, groups,
                 used, boardVars, ghostVars>>

-----------------------------------------------------------------------------
(* The MaixCDK bench. Hardware::init of one channel after the other: the   *)
(* device is created stopped, the pad moved, the first width set, then it  *)
(* is enabled. An exception or a signal may end it at any point.           *)
Using(p, k) == At(p, "use") /\ kind[p] = k
SetDev(p, i, s) == dev' = [dev EXCEPT ![p][i] = s]

RequestChannel(p, i) ==
  /\ Using(p, "bench") /\ \A j \in Pads : dev[p][j] \in {"none", "on"}
  /\ dev[p][i] = "none" /\ groups /\ i \notin used
  /\ used' = used \cup {i} /\ SetDev(p, i, "open")
  /\ UNCHANGED <<pc, kind, saved, old, detached, left, owner, lineOf, driver,
                 groups, boardVars, ghostVars>>

(* servo_pins_mux; a pad that does not read back is an exception.          *)
MuxPad(p, i) ==
  /\ Using(p, "bench") /\ dev[p][i] = "open" /\ saved[p]
  /\ \/ /\ pad' = [pad EXCEPT ![i] = "pwm"]
        /\ SetDev(p, i, "muxed") /\ UNCHANGED pc
     \/ /\ pad' \in {pad, [pad EXCEPT ![i] = "pwm"]}
        /\ Goto(p, "quiet") /\ UNCHANGED dev
  /\ UNCHANGED <<kind, saved, old, detached, left, kernelVars, pulse, core,
                 ghostVars>>

EnableChannel(p, i) ==
  /\ Using(p, "bench") /\ dev[p][i] = "muxed"
  /\ pulse' = [pulse EXCEPT ![i] = "bench"] /\ SetDev(p, i, "on")
  /\ UNCHANGED <<pc, kind, saved, old, detached, left, kernelVars, pad, core,
                 ghostVars>>

(* Faulty variant: the destructor gives the pins back first.               *)
EndBenchHot(p) ==
  /\ Using(p, "bench") /\ Goto(p, "lines back")
  /\ UNCHANGED <<kind, saved, old, detached, left, dev, kernelVars, boardVars,
                 ghostVars>>

EndBench(p) ==
  /\ Using(p, "bench") /\ Goto(p, "quiet")
  /\ UNCHANGED <<kind, saved, old, detached, left, dev, kernelVars, boardVars,
                 ghostVars>>

(* ~Hardware disables every device, tells of a failure and goes on ...     *)
DisableChannel(p, i) ==
  /\ At(p, "quiet") /\ dev[p][i] \in {"open", "muxed", "on"}
  /\ \E ok \in BOOLEAN :
       /\ pulse' = [pulse EXCEPT ![i] = IF ok THEN "off" ELSE @]
       /\ Excuse(ok)
  /\ SetDev(p, i, "quiet")
  /\ UNCHANGED <<pc, kind, saved, old, detached, left, kernelVars, pad, core>>

(* ... destroys them, which gives the channels back, and releases the pins.*)
ClearDevices(p) ==
  /\ At(p, "quiet") /\ \A i \in Pads : dev[p][i] \in {"none", "quiet"}
  /\ used' = {i \in used : dev[p][i] = "none"}
  /\ dev' = [dev EXCEPT ![p] = NoDevices] /\ Goto(p, "lines back")
  /\ UNCHANGED <<kind, saved, old, detached, left, owner, lineOf, driver,
                 groups, boardVars, ghostVars>>

-----------------------------------------------------------------------------
(* The loader takes both PWM groups from Linux ...                         *)
UnbindGroups(p) ==
  /\ Using(p, "loader")
  /\ \/ Goto(p, "lines back") /\ UNCHANGED groups
     \/ Goto(p, "registers") /\ groups' = FALSE
  /\ UNCHANGED <<kind, saved, old, detached, left, dev, owner, lineOf, driver,
                 used, boardVars, ghostVars>>

(* ... and lets the core go, unless a channel is enabled in hardware or    *)
(* anything before that fails.                                             *)
ReleaseCore(p) ==
  /\ At(p, "registers")
  /\ \/ Goto(p, "groups back") /\ UNCHANGED core
     \/ /\ \A i \in Pads : pulse[i] = "off"
        /\ (Goto(p, "serve") \/ Goto(p, "holding")) /\ core' = "fresh"
  /\ UNCHANGED <<kind, saved, old, detached, left, dev, kernelVars, pad, pulse,
                 ghostVars>>

(* It is held in reset again, or cannot be, and the loader stays for ever. *)
(* A test of the servos comes to its end; --hold-servo goes on until a     *)
(* signal arrives or the core stops answering.                             *)
HoldCore(p) ==
  /\ At(p, "serve") \/ At(p, "holding")
  /\ \/ Goto(p, "fatal") /\ UNCHANGED core
     \/ Goto(p, "registers back") /\ core' = "off"
  /\ UNCHANGED <<kind, saved, old, detached, left, dev, kernelVars, pad, pulse,
                 ghostVars>>

(* The channels get the values they had, stopped, and are read back; those *)
(* in still have not taken them.                                           *)
RestoreRegisters(p) ==
  /\ At(p, "registers back") /\ Goto(p, "groups back")
  /\ \E still \in SUBSET Pads :
       /\ pulse' = [i \in Pads |-> IF i \in still THEN pulse[i] ELSE "off"]
       /\ Excuse(still = {})
  /\ UNCHANGED <<kind, saved, old, detached, left, dev, kernelVars, pad, core>>

BindGroups(p) ==
  /\ At(p, "groups back") /\ Goto(p, "lines back") /\ groups' \in BOOLEAN
  /\ UNCHANGED <<kind, saved, old, detached, left, dev, owner, lineOf, driver,
                 used, boardVars, ghostVars>>

(* The firmware of ServoService: its first SET moves all pads, after which *)
(* it drives what it is told to. It does not know whether its loader lives.*)
Stray == ~ \E p \in Procs : pc[p] \in {"serve", "holding", "fatal"}
CoreInit ==
  /\ core = "fresh" /\ core' = "ready" /\ pad' = [i \in Pads |-> "pwm"]
  /\ Excuse(~Stray) /\ UNCHANGED <<procVars, kernelVars, pulse>>
CorePulse(i) ==
  /\ core = "ready"
  /\ pulse' = [pulse EXCEPT ![i] = IF @ = "off" THEN "core" ELSE "off"]
  /\ UNCHANGED <<procVars, kernelVars, pad, core, ghostVars>>

-----------------------------------------------------------------------------
(* Faulty variant: the loop over the pads ends one too early.              *)
CloseLinesAllButOne(p) ==
  /\ At(p, "lines back") /\ Goto(p, "pads back") /\ lineOf' = Drop(lineOf, p)
  /\ left' = [left EXCEPT ![p] = IF saved[p] THEN Pads \ {NPads} ELSE {}]
  /\ UNCHANGED <<kind, saved, old, detached, dev, owner, driver, groups, used,
                 boardVars, ghostVars>>

(* servo_pins_release, of whatever was taken: the lines, ...               *)
CloseLines(p) ==
  /\ At(p, "lines back") /\ Goto(p, "pads back") /\ lineOf' = Drop(lineOf, p)
  /\ left' = [left EXCEPT ![p] = IF saved[p] THEN Pads ELSE {}]
  /\ UNCHANGED <<kind, saved, old, detached, dev, owner, driver, groups, used,
                 boardVars, ghostVars>>

(* ... the pads, one after the other, each read back, ...                  *)
RestorePad(p, i) ==
  /\ At(p, "pads back") /\ i \in left[p] /\ \A j \in left[p] : i <= j
  /\ left' = [left EXCEPT ![p] = @ \ {i}]
  /\ \E v \in {old[p][i], pad[i]} :
       pad' = [pad EXCEPT ![i] = v] /\ Excuse(v = old[p][i])
  /\ UNCHANGED <<pc, kind, saved, old, detached, dev, kernelVars, pulse, core>>

(* ... the I2C0 driver, also when a pad could not be restored, ...         *)
BindI2c(p) ==
  /\ At(p, "pads back") /\ left[p] = {} /\ Goto(p, "unlock")
  /\ saved' = [saved EXCEPT ![p] = FALSE]
  /\ \E ok \in BOOLEAN :
       /\ driver' = (driver \/ (detached[p] /\ ok))
       /\ detached' = [detached EXCEPT ![p] = @ /\ ~ok]
       /\ Excuse(detached[p] => ok)
  /\ UNCHANGED <<kind, old, left, dev, owner, lineOf, groups, used, boardVars>>

(* ... and the lock.                                                       *)
Unlock(p) ==
  /\ At(p, "unlock") /\ Gone(p) /\ owner' = Drop(owner, p)
  /\ UNCHANGED <<lineOf, driver, groups, used, boardVars, ghostVars>>

(* SIGKILL. The core of a loader runs on.                                  *)
Kill(p) ==
  /\ ~At(p, "off") /\ Gone(p)
  /\ owner' = Drop(owner, p) /\ lineOf' = Drop(lineOf, p)
  /\ abandoned' = (abandoned \/ owner = p)
  /\ UNCHANGED <<driver, groups, used, boardVars, found, excused>>

Step(p) ==
  \/ CheckGroups(p) \/ TakeLock(p) \/ CheckClients(p) \/ SavePads(p)
  \/ UnbindI2c(p) \/ RequestLines(p)
  \/ \E i \in Pads : \/ RequestChannel(p, i) \/ MuxPad(p, i)
                     \/ EnableChannel(p, i) \/ DisableChannel(p, i)
                     \/ RestorePad(p, i)
  \/ EndBench(p) \/ ClearDevices(p)
  \/ UnbindGroups(p) \/ ReleaseCore(p) \/ HoldCore(p) \/ RestoreRegisters(p)
  \/ BindGroups(p) \/ CloseLines(p) \/ BindI2c(p) \/ Unlock(p)

Next ==
  \/ \E p \in Procs : \/ Step(p) \/ Kill(p)
                     \/ \E k \in {"loader", "bench"} : Start(p, k)
  \/ CoreInit \/ \E i \in Pads : CorePulse(i)

Spec == Init /\ [][Next]_vars

(* Every program is scheduled and its calls return; nobody has to start or *)
(* kill one, nobody sends the signal that ends a hold, and the core owes   *)
(* nothing.                                                                *)
FairSpec ==
  Spec /\ \A p \in Procs : WF_vars(Step(p) /\ ~At(p, "holding"))

-----------------------------------------------------------------------------
(* Pads and driver are leased as BoardLease promises: by one program at a  *)
(* time, whichever of the two it is, and given back as found, from         *)
(* whichever step the acquisition or the use failed at (V1_1_WIRING.md:30).*)
Holders == {p \in Procs : pc[p] \notin {"off", "groups", "lock"}}
Lease == INSTANCE BoardLease WITH holders <- Holders, board <- Leased,
                                  kept <- found
ImplementsLease == Lease!LeaseSpec

(* The I2C0 driver never has a pad that is switched to a PWM, not even     *)
(* after a program was killed between its unbinding, its pads and its      *)
(* binding, and another one has taken what it left for the original state. *)
I2cOwnsPads == driver /\ ~excused => \A i \in Pads : pad[i] = "board"

(* The two never drive the servos at the same time. The groups are looked  *)
(* at before the lock is taken, so this needs the loader's second look, at *)
(* the registers, when a bench was started and killed in between.          *)
CoreAlone == core # "off" => \A i \in Pads : pulse[i] # "bench"

(* No pad and no servo has two masters.                                    *)
OneMaster == I2cOwnsPads /\ CoreAlone

(* A pad leaves its PWM only after the channel has been switched off.      *)
PadsMoveWhenQuiet ==
  [][\A i \in Pads : pad[i] = "pwm" /\ pad'[i] = "board" /\ ~excused
       => pulse[i] = "off"]_vars

(* Every program that came for a lease is through with it, also when the   *)
(* lock is never given back. Two loaders keep theirs: the one whose core   *)
(* cannot be stopped, and --hold-servo, for as long as the signal that     *)
(* stops it does not come (e907_live_probe.c:163).                         *)
LeaseEnds ==
  \A p \in Procs : ~At(p, "off") ~> pc[p] \in {"off", "fatal", "holding"}
=============================================================================
