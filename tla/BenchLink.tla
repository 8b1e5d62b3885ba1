------------------------------ MODULE BenchLink -----------------------------
(***************************************************************************)
(* The A53 side of the bench (tools/e907_live_probe.c with the sequence of *)
(* tools/e907_bench_sequence.h) talking to the E907 core of ServoService:  *)
(* from the first look at the magic word to the return of servo_bench or   *)
(* servo_hold. What main does before and after is module Loader.           *)
(*                                                                         *)
(* A host access is an action of its own where the core or a signal can    *)
(* come between: the two words of a submission, each look at the reply,    *)
(* the verification of the registers. The mask and the targets are written *)
(* in one action: this host writes them only when no request is pending    *)
(* (property TargetsStable), so the core cannot see half of them.          *)
(***************************************************************************)
EXTENDS ServoService, Sequences

CONSTANTS
  BenchModes,   \* the runs to consider: sequential, together, hold, test
  Selected,     \* channels chosen on the command line (bench_mask)
  Pulses,       \* the widths of the bench sequence, in order
  HoldPulse,    \* the width of the hold mode (1600)
  Cycles,       \* rounds of the sequence
  MaxRepeats,   \* bound: keep-alive repetitions of one step
  Patience      \* ticks command() polls for an answer (200 x 1 ms)

ASSUME LinkAssumption ==
  /\ BenchModes \subseteq {"sequential", "together", "hold", "test"}
  /\ Selected \subseteq Channels /\ Selected # {}
  /\ Pulses \in Seq(Targets) /\ Pulses # <<>> /\ HoldPulse \in Targets
  /\ \A n \in 1 .. Len(Pulses) : InRange(Pulses[n])
  /\ InRange(HoldPulse)
  /\ Cycles \in Nat \ {0} /\ MaxRepeats \in Nat /\ Patience \in Nat \ {0}

VARIABLES
  hpc,        \* control point of the host
  oper,       \* what the current command is for
  benchMode,  \* the mode asked for
  cycle, chan, step, repeats,  \* loop counters of the sequence
  cancelled,  \* a signal arrived
  waited,     \* ticks since the submission
  rc          \* what servo_bench or servo_hold returned

benchVars == <<hpc, oper, benchMode, cycle, chan, step, repeats, cancelled,
               waited, rc>>
linkVars == <<vars, benchVars>>

CommandOf(purpose) ==
  CASE purpose = "set" -> "set"
    [] purpose \in {"park", "status"} -> purpose
    [] OTHER -> "stop"

LastChan == IF benchMode = "sequential" THEN NumChannels - 1 ELSE 0
Group == IF benchMode = "sequential" THEN Selected \cap {chan} ELSE Selected
Pulse == IF benchMode = "hold" THEN HoldPulse ELSE Pulses[step]

LinkInit ==
  /\ Init
  /\ hpc = "boot" /\ oper = "before" /\ benchMode \in BenchModes
  /\ cycle = 1 /\ chan = 0 /\ step = 1 /\ repeats = 0
  /\ cancelled = FALSE /\ waited = 0 /\ rc = "none"

\* What a host action never touches: everything that belongs to the core.
CoreSide == <<pageVars, pwm, pc, coreVars, timeVars>>
\* ... and what a host action that writes no word of the page leaves alone.
NoWrite == <<CoreSide, hostVars>>

Return(result_) ==
  /\ hpc' = "returned" /\ rc' = result_
  /\ UNCHANGED <<oper, benchMode, cycle, chan, step, repeats, cancelled, waited>>

Begin(purpose) ==
  /\ hpc' = "command" /\ oper' = purpose
  /\ UNCHANGED <<benchMode, cycle, chan, step, repeats, cancelled, waited, rc>>

Go(point) ==
  /\ hpc' = point
  /\ UNCHANGED <<oper, benchMode, cycle, chan, step, repeats, cancelled, waited,
                 rc>>

(* A failed set is followed by one stop in the sequence, by nothing in the *)
(* hold mode; any other failure ends the run at once.                      *)
Fail(purpose) ==
  IF purpose = "set" /\ benchMode # "hold" THEN Begin("failed")
  ELSE Return("failed")

-----------------------------------------------------------------------------
(* main waits for the magic at most a second, servo_bench checks the ABI   *)
(* and grants the lease.                                                   *)
SeeMagic ==
  /\ hpc = "boot" /\ ~cancelled /\ magic = "servo"
  /\ Go("lease") /\ UNCHANGED NoWrite

MissMagic ==
  /\ hpc = "boot" /\ (cancelled \/ magic # "servo")
  /\ Return("failed") /\ UNCHANGED NoWrite

GrantLease ==
  /\ hpc = "lease" /\ HostLease
  /\ Go("group") /\ UNCHANGED CoreSide

(* The loops over cycles and channels; the hold mode has neither.          *)
NextGroup ==
  /\ hpc = "group"
  /\ \/ chan <= LastChan /\ Group # {} /\ Begin("before")
     \/ /\ chan <= LastChan /\ Group = {}
        /\ chan' = chan + 1
        /\ UNCHANGED <<hpc, oper, benchMode, cycle, step, repeats, cancelled,
                       waited, rc>>
     \/ /\ chan > LastChan /\ cycle < Cycles
        /\ cycle' = cycle + 1 /\ chan' = 0
        /\ UNCHANGED <<hpc, oper, benchMode, step, repeats, cancelled, waited, rc>>
     \/ chan > LastChan /\ cycle = Cycles /\ Begin("park")
  /\ UNCHANGED NoWrite

(* Faulty variant: the mask accumulates the channels of earlier groups.    *)
PrepareSetKeepsMask ==
  /\ hpc = "set" /\ ~cancelled /\ trips = 0
  /\ mask' = mask \cup Group
  /\ target' = [c \in Channels |-> IF c \in Group THEN Pulse ELSE target[c]]
  /\ Begin("set") /\ UNCHANGED <<CoreSide, op, seq, lease>>

(* bench_set_impl up to the submission.                                    *)
PrepareSet ==
  /\ hpc = "set" /\ ~cancelled /\ trips = 0
  /\ mask' = Group
  /\ target' = [c \in Channels |-> IF c \in Group THEN Pulse ELSE target[c]]
  /\ Begin("set") /\ UNCHANGED <<CoreSide, op, seq, lease>>

RefuseSet ==
  /\ hpc = "set" /\ (cancelled \/ trips # 0)
  /\ Fail("set") /\ UNCHANGED NoWrite

(* The loop of a hold ends when the signal came before the next set; one   *)
(* that comes later makes the set fail.                                    *)
EndHold ==
  /\ hpc = "set" /\ benchMode = "hold" /\ cancelled
  /\ Return("passed") /\ UNCHANGED NoWrite

(* command(): the signal is looked at first, then the operation and the    *)
(* new sequence number are written, one barrier apart.                     *)
WriteCommand ==
  /\ hpc = "command" /\ ~cancelled
  /\ HostOp(CommandOf(oper))
  /\ Go("submit") /\ UNCHANGED CoreSide

SkipCommand ==
  /\ hpc = "command" /\ cancelled
  /\ Fail(oper) /\ UNCHANGED NoWrite

(* Faulty variant: a set is sent without waiting for its answer.           *)
SubmitWithoutWaiting ==
  /\ hpc = "submit" /\ HostSubmit
  /\ hpc' = (IF oper = "set" THEN "keep" ELSE "poll") /\ waited' = 0
  /\ UNCHANGED <<oper, benchMode, cycle, chan, step, repeats, cancelled, rc>>
  /\ UNCHANGED CoreSide

Submit ==
  /\ hpc = "submit" /\ HostSubmit
  /\ hpc' = "poll" /\ waited' = 0
  /\ UNCHANGED <<oper, benchMode, cycle, chan, step, repeats, cancelled, rc>>
  /\ UNCHANGED CoreSide

(* Faulty variant: no limit on the polls.                                  *)
EndPollNever ==
  /\ hpc = "poll" /\ (ack = seq \/ cancelled)
  /\ Go("judge") /\ UNCHANGED NoWrite

(* Faulty variant: one poll instead of two hundred.                        *)
EndPollAtOnce ==
  /\ hpc = "poll" /\ (ack = seq \/ cancelled \/ waited = 1)
  /\ Go("judge") /\ UNCHANGED NoWrite

(* The poll ends with the answer, a signal, or when patience runs out.     *)
EndPoll ==
  /\ hpc = "poll" /\ (ack = seq \/ cancelled \/ waited = Patience)
  /\ Go("judge") /\ UNCHANGED NoWrite

Answered == ~cancelled /\ magic = "servo" /\ ack = seq /\ result = "ok"

Accept ==
  /\ hpc = "judge" /\ Answered
  /\ IF oper = "park" THEN Return("passed") ELSE Go("verify")
  /\ UNCHANGED NoWrite

Reject ==
  /\ hpc = "judge" /\ ~Answered
  /\ Fail(oper) /\ UNCHANGED NoWrite

(* The registers as the core reported them and as the A53 reads them: all  *)
(* off after a stop; after a set the selected ones running with exactly    *)
(* this width, the others off, and no trip so far.                         *)
ChannelVerified(c) ==
  IF c \in Group THEN shown[c] = pwm[c] /\ Running(shown[c], Pulse)
  ELSE ~shown[c].en /\ ~pwm[c].en

Verified ==
  IF oper = "set"
    THEN /\ trips = 0 /\ shownActive = Group
         /\ \A c \in Channels : ChannelVerified(c)
    ELSE /\ \A c \in Channels : ~shown[c].en /\ ~pwm[c].en
         /\ shownActive = {}

(* Where the run goes after a verified command.                            *)
Verify ==
  /\ hpc = "verify" /\ Verified
  /\ CASE oper = "before" ->
            /\ hpc' = "set" /\ step' = 1 /\ repeats' = 0
            /\ UNCHANGED <<oper, benchMode, cycle, chan, cancelled, waited, rc>>
       [] oper = "set" -> Go("keep")
       [] oper = "after" ->
            /\ hpc' = "group" /\ chan' = chan + 1
            /\ UNCHANGED <<oper, benchMode, cycle, step, repeats, cancelled,
                           waited, rc>>
       [] OTHER -> Return("failed")
  /\ UNCHANGED NoWrite

Mismatch ==
  /\ hpc = "verify" /\ ~Verified
  /\ Fail(oper) /\ UNCHANGED NoWrite

(* The step lasts: after an interruptible pause the same target is sent    *)
(* again. The clock decides how often; MaxRepeats bounds it.               *)
Repeat ==
  /\ hpc = "keep" /\ ~cancelled /\ repeats < MaxRepeats
  /\ hpc' = "set" /\ repeats' = repeats + 1
  /\ UNCHANGED <<oper, benchMode, cycle, chan, step, cancelled, waited, rc>>
  /\ UNCHANGED NoWrite
PauseCancelled ==
  /\ hpc = "keep" /\ cancelled
  /\ IF benchMode = "hold" THEN Return("passed") ELSE Begin("failed")
  /\ UNCHANGED NoWrite

(* Faulty variant: the next width is counted but not sent.                 *)
NextStepNoSet ==
  /\ hpc = "keep" /\ benchMode # "hold"
  /\ IF step < Len(Pulses)
       THEN /\ hpc' = "keep" /\ step' = step + 1 /\ repeats' = 0
            /\ UNCHANGED <<oper, benchMode, cycle, chan, cancelled, waited, rc>>
       ELSE Begin("after")
  /\ UNCHANGED NoWrite
(* The step is over: the next width, or the stop after the last one.       *)
NextStep ==
  /\ hpc = "keep" /\ benchMode # "hold"
  /\ IF step < Len(Pulses)
       THEN /\ hpc' = "set" /\ step' = step + 1 /\ repeats' = 0
            /\ UNCHANGED <<oper, benchMode, cycle, chan, cancelled, waited, rc>>
       ELSE Begin("after")
  /\ UNCHANGED NoWrite

(* SIGINT, SIGTERM, SIGHUP, or a clock that cannot be read.                *)
Cancel ==
  /\ hpc # "returned" /\ ~cancelled /\ cancelled' = TRUE
  /\ UNCHANGED <<hpc, oper, benchMode, cycle, chan, step, repeats, waited, rc>>
  /\ UNCHANGED NoWrite

Host ==
  \/ SeeMagic \/ MissMagic \/ GrantLease \/ NextGroup \/ PrepareSet \/ RefuseSet
  \/ EndHold \/ WriteCommand \/ SkipCommand \/ Submit \/ EndPoll \/ Accept
  \/ Reject \/ Verify \/ Mismatch \/ Repeat \/ PauseCancelled \/ NextStep

CoreStep == (Core \/ Trap) /\ UNCHANGED benchVars

LinkTick ==
  /\ Tick
  /\ waited' = IF hpc = "poll" THEN Min(waited + 1, Patience) ELSE waited
  /\ UNCHANGED <<hpc, oper, benchMode, cycle, chan, step, repeats, cancelled, rc>>

LinkNext == Host \/ Cancel \/ CoreStep \/ LinkTick

LinkSpec == LinkInit /\ [][LinkNext]_linkVars

(* The process and the core are scheduled, time passes; signals and traps  *)
(* are not promised.                                                       *)
LinkFairSpec ==
  /\ LinkSpec
  /\ WF_linkVars(Host) /\ WF_linkVars(Core /\ UNCHANGED benchVars)
  /\ WF_linkVars(LinkTick)

-----------------------------------------------------------------------------
(* Only the channel or group under test is ever driven, also while a       *)
(* command is lost, a signal arrives or the watchdog trips: in sequential  *)
(* mode at most one servo moves (BENCH.md, run_mode stops before and       *)
(* after every channel and gives up when a stop is not confirmed).         *)
OnlyGroupDriven == Enabled \subseteq Group

(* After a set was checked the whole group runs with exactly the width of  *)
(* the current step, or the watchdog (alone) has switched all of it off.   *)
CheckedIsDriven ==
  hpc = "keep" =>
    /\ Enabled \in {Group, {}}
    /\ \A c \in Enabled : Running(pwm[c], Pulse)
    /\ Enabled = {} => trips > 0 \/ pc \in Tripping \cup {"trapped"}

(* With a polling time longer than two loop passes, the only core that     *)
(* lets a command time out is one that trapped (200 polls of 1 ms in       *)
(* command() against the loop of live_main).                               *)
TimeoutMeansTrap ==
  hpc = "judge" /\ ~cancelled /\ ack # seq => pc = "trapped"

(* The core never uses a target that it has not validated, as far as this  *)
(* host goes: the parameters do not change under a running request.        *)
TargetsStable ==
  [][ack # seq /\ pc \in Processing => UNCHANGED <<mask, target>>]_linkVars

(* Each command is a call of a mailbox: one request at a time, carried out *)
(* as it was written and once, and the host comes back with an answer, a   *)
(* signal, or a dead core (command(), servo_service_step).                 *)
Mail == INSTANCE Mailbox
  WITH Requests <- [op : Ops, mask : SUBSET MaskBits,
                    target : [Channels -> Targets \cup {0}]],
       box <- IF ack = seq THEN {}
              ELSE {[op |-> op, mask |-> mask, target |-> target]},
       working <- IF pc \in Processing \ {"decode"}
                    THEN {[op |-> req.cmd, mask |-> req.mask, target |-> target]}
                    ELSE {},
       waiting <- hpc \in {"poll", "judge"}, closed <- cancelled,
       alive <- pc # "trapped"
ImplementsMailbox == Mail!MailSpec

(* Every bench run comes to an end, whatever the core does; a hold ends    *)
(* after a signal.                                                         *)
BenchReturns == benchMode # "hold" \/ cancelled ~> hpc = "returned"

(* firmware/e907_live/README.md: one sender, one unfinished command at a   *)
(* time.                                                                   *)
OneOutstanding == seq <= ack + 1
=============================================================================
