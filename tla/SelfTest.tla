------------------------------ MODULE SelfTest ------------------------------
(***************************************************************************)
(* The self-test of the loader (servo_test in tools/e907_live_probe.c) as  *)
(* a third kind of run of BenchLink: a fixed script of commands and of the *)
(* answers they must get, then silence until the watchdog has fired.       *)
(* The loader's step counter is the line of the script.                    *)
(***************************************************************************)
EXTENDS BenchLink

CONSTANTS
  Steps,          \* the widths all channels go through together
  Mixed,          \* one width per channel
  Lone,           \* the channel that is started alone
  WatchPatience   \* ticks the silence lasts at most (2000 x 1 ms)

ASSUME SelfTestAssumption ==
  /\ Steps \in Seq(Targets) /\ Steps # <<>> /\ Mixed \in [Channels -> Targets]
  /\ {MinPulse - 1, 1500, MaxPulse + 1} \subseteq Targets
  /\ Lone \in Channels /\ WatchPatience \in Nat \ {0}

All(us) == [c \in Channels |-> us]
Line(purpose, m, t, want, check) ==
  [oper |-> purpose, mask |-> m, target |-> t, want |-> want, check |-> check]
SetAll(t) == Line("set", Channels, t, "ok", "widths")

(* Three requests to be rejected, the steps, four different widths, a      *)
(* stop, one channel alone; after the watchdog a status and the PARK.      *)
Script ==
  << Line("set", {NumChannels}, All(0), "lease", "none"),
     Line("set", Channels, [All(1500) EXCEPT ![0] = MinPulse - 1], "range", "none"),
     Line("set", Channels, [All(1500) EXCEPT ![0] = MaxPulse + 1], "range", "none") >>
  \o [n \in 1 .. Len(Steps) |-> SetAll(All(Steps[n]))]
  \o << SetAll(Mixed),
        Line("after", Channels, Mixed, "ok", "shown"),
        Line("set", {Lone}, Mixed, "ok", "watch"),
        Line("status", {Lone}, Mixed, "ok", "off"),
        Line("park", {Lone}, Mixed, "ok", "none") >>
Now == Script[step]

Advance ==
  /\ hpc' = "group" /\ step' = step + 1
  /\ UNCHANGED <<oper, benchMode, cycle, chan, repeats, cancelled, waited, rc>>

(* The words of a line. Nothing has been submitted that is not answered.   *)
TestPrepare ==
  /\ hpc = "group" /\ mask' = Now.mask /\ target' = Now.target
  /\ Begin(Now.oper) /\ UNCHANGED <<CoreSide, op, seq, lease>>

TestAnswered == ~cancelled /\ magic = "servo" /\ ack = seq /\ result = Now.want

TestAccept ==
  /\ hpc = "judge" /\ TestAnswered
  /\ IF Now.oper = "park" THEN Return("passed")
     ELSE IF Now.check = "none" THEN Advance ELSE Go("verify")
  /\ UNCHANGED NoWrite

(* What is read back after an answer. Only a width and the final silence   *)
(* of the channels are read from the hardware too; the trip counter is not.*)
ReadBack ==
  CASE Now.check = "widths" ->
         \A c \in Channels : shown[c] = pwm[c] /\ Running(shown[c], Now.target[c])
    [] Now.check = "shown" -> \A c \in Channels : ~shown[c].en
    [] Now.check = "watch" -> \A c \in Channels : shown[c].en <=> c = Lone
    [] Now.check = "off" -> \A c \in Channels : ~shown[c].en /\ ~pwm[c].en

TestVerify ==
  /\ hpc = "verify" /\ ReadBack
  /\ IF Now.check = "watch"
       THEN /\ hpc' = "watch" /\ waited' = 0
            /\ UNCHANGED <<oper, benchMode, cycle, chan, step, repeats,
                           cancelled, rc>>
       ELSE Advance
  /\ UNCHANGED NoWrite

(* Faulty variant: the silence is as short as the patience of a command.   *)
EndWatchEarly ==
  /\ hpc = "watch" /\ (mode = "tripped" \/ cancelled \/ waited >= Patience)
  /\ Go("verdict") /\ UNCHANGED NoWrite

(* The host is silent until m[18] shows the trip, or for so long.          *)
EndWatch ==
  /\ hpc = "watch" /\ (mode = "tripped" \/ cancelled \/ waited = WatchPatience)
  /\ Go("verdict") /\ UNCHANGED NoWrite

(* Faulty variant: the number of trips is not looked at.                   *)
WatchdogFiredAtAll == mode = "tripped" /\ shownActive = {}

(* m[18], m[32] and m[17], one after the other. The first two only grow in *)
(* this silence and the third is written before them, so one look will do. *)
WatchdogFired == mode = "tripped" /\ trips = 1 /\ shownActive = {}

TestWatchdog ==
  /\ hpc = "verdict" /\ WatchdogFired /\ Advance /\ UNCHANGED NoWrite

TestReject ==
  /\ \/ hpc = "judge" /\ ~TestAnswered
     \/ hpc = "verify" /\ ~ReadBack
     \/ hpc = "verdict" /\ ~WatchdogFired
     \/ hpc = "command" /\ cancelled
  /\ Return("failed") /\ UNCHANGED NoWrite

TestHost ==
  \/ SeeMagic \/ MissMagic \/ GrantLease \/ TestPrepare \/ WriteCommand \/ Submit
  \/ EndPoll \/ TestAccept \/ TestVerify \/ EndWatch \/ TestWatchdog \/ TestReject

LoaderHost == IF benchMode = "test" THEN TestHost ELSE Host

TestTick ==
  /\ Tick
  /\ waited' = CASE hpc = "poll" -> Min(waited + 1, Patience)
                 [] hpc = "watch" -> Min(waited + 1, WatchPatience)
                 [] OTHER -> waited
  /\ UNCHANGED <<hpc, oper, benchMode, cycle, chan, step, repeats, cancelled, rc>>

TestNext == LoaderHost \/ Cancel \/ CoreStep \/ TestTick

(* As in BenchLink: process, core and time go on; no signal, no trap.      *)
TestSpec ==
  /\ LinkInit /\ [][TestNext]_linkVars
  /\ WF_linkVars(LoaderHost) /\ WF_linkVars(Core /\ UNCHANGED benchVars)
  /\ WF_linkVars(TestTick)

-----------------------------------------------------------------------------
(* Whenever the watchdog is judged to have failed, without a signal, there *)
(* is a reason: the core trapped, an earlier pause of the host had already *)
(* tripped it, or the host looked between m[18] and m[32]                  *)
(* (servo_service.h, the trip). In particular 2000 polls are long enough.  *)
WatchdogVerdict ==
  hpc = "verdict" /\ ~cancelled /\ ~WatchdogFired =>
    pc = "trapped" \/ trips > 1 \/ pc = "tripCount"

(* A bench passes only when the core has been told to park, did, and left  *)
(* nothing on. The self-test passes only when also the watchdog fired, at  *)
(* most once more than is counted, because of the same window.             *)
PassIsEarned ==
  rc = "passed" /\ benchMode # "hold" =>
    /\ Enabled = {} /\ pc \in {"parked", "trapped"}
    /\ benchMode = "test" => trips \in 1 .. 2
=============================================================================
