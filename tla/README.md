# Verification of the MaixCAM2 dart servo controller

TLA+ models of the programs in this repository, TLC runs over small instances
of them, and TLAPS proofs for all instances. Everything is translated from the
source files named in `PROJECT.json` (`map`: definition, file, lines).

Reading order: `OutputLease` (what the firmware promises) and `ServoService`
(the firmware), `Mailbox` (what a command is), `BenchLink` and `SelfTest` (the host
program against the firmware), `Loader` (the life of the host process),
`BoardLease` and `PinLease` (the pins that two host programs share), then the
programs that stand alone:
`RtServoBench`, `Collector`, `ImuCapture` and `InstallSdk`.

## 1. The system

A MaixCAM2 board has two sides: an A53 that runs Linux and an E907
microcontroller core. Four servos hang on four PWM channels (servo 1..4 = PWM
7, 6, 1, 0, two channels in each of the PWM groups 1 and 0). There are three
ways to drive them, and they exclude each other:

1. a bare-metal firmware on the E907, loaded and commanded by a Linux program
   through a page of shared memory (`firmware/e907_live`, `tools/*.c, *.h`);
2. an RT-Thread shell application on the E907 (`firmware/servo_bench.c` on the
   SDK's PWM driver);
3. a Linux program on MaixCDK's PWM (`cpp/src/bench.cpp`).

Beside them stand a collector that turns their logs into CSV and a capture
tool for two inertial sensors on the same carrier board.

### Components

| Component | State it keeps | Operations | Status |
|---|---|---|---|
| E907 servo service (`servo.c`, `servo_service.h`, `start.S`, `pwm_us_extension.c.inc`) | last renewal, active mask, initialised flag; the words of the page it owns; the PWM registers | boot, watchdog, PING, SET, STOP, STATUS, PARK, publication, trap | `ServoService`, proved |
| A53 bench, hold and self-test host (`e907_live_probe.c:27-170`, `e907_bench_sequence.h`) | sequence number, position in the sequence, signal flag | command with polling, set, stop, verification by readback, wait, script of the self-test, PASS or failure | `BenchLink`, `SelfTest`, safety proved |
| E907 loader (`e907_live_probe.c:171-290`) | flags of what was acquired, saved register values | acquisition chain, takeover, service, reset handshake, restoration | `Loader`, safety proved |
| V1.1 pin lease (`servo_v11_pins.h`) | lock, saved pads, detached I2C driver, GPIO handle | idle checks, acquire, mux, release | `PinLease`, proved; taken as a whole in `Loader` |
| RT-Thread bench (`servo_bench.c`, `drv_pwm.c`, `pwm_tool.c`) | `running`, `stop_requested`, `selected_mask`, `seq`, `saved[]`; the worker's owned and muxed masks; driver status and clocks | start, stop, pwm_tool, the worker's plan and cleanup | `RtServoBench`, safety proved |
| Telemetry collector (`collect.cpp`) | carrier revision, previous sequence number, counters, `complete` | line handlers, end records, verdict | `Collector`, proved |
| MaixCDK bench (`bench.cpp`) | pin lease, PWM devices | init, set, enable, destructor | `PinLease` (class `Hardware`); the plan of steps and its CSV are left |
| SDK integration (`install_sdk.cpp`) | five files | check, back up, write, roll back | `InstallSdk`, proved |
| Dual IMU capture (`cpp/imu/main.cpp`) | phases left, verdict, signal flag | identify, capture phases, profile, static validation, cleanup, verdict | `ImuCapture`, safety proved; options and statistics are left |
| IMU carrier lease and SPI (`cpp/imu/linux_bus.cpp`) | lock, saved pads, detached drivers, chip select, SPI settings | acquire, transfer, close, restore | `ImuCapture` |
| IMU sensors (`cpp/imu/sensors.cpp`) | sampling, register bank, power saving, wait between transfers | initialize, stop, read | `ImuCapture` |
| Stationary window and bias (`bias.hpp`, `sample.hpp`) | moments, 5 s blocks | add, quality, estimate, correct | not modelled (floating point, section 7) |
| video measurement, Python tools and archive, build scripts, vendored code | – | – | not modelled (see section 7) |

### How they interact

- Host and firmware share a page. The host writes command, mask, targets, lease
  word and last a new sequence number; the firmware answers with result, active
  mask, register snapshot and last the acknowledged number. There is no lock:
  the order of accesses and the fences are the protocol.
- The firmware's watchdog (1 s on a free-running 32-bit timer) is the only
  thing that stops outputs when the host dies.
- The loader borrows pins, PWM groups and their clocks from Linux, and CMM
  memory for the firmware. It may return them only while the E907 is in reset.
- Loader and MaixCDK bench take the same pins, under one lock file. The lock and
  the GPIO lines die with a process; pads, the I2C0 driver, PWM channels and a
  running E907 do not.
- The RT-Thread worker and its shell share statics; both share the SDK's PWM
  driver with `pwm_tool`.
- The collector sees only lines of text, possibly with losses.

### What is hard here

`PROJECT.json` (`hazards`) lists each at its line. In short: memory shared
without locks and read twice; a reload of four registers that may stop anywhere;
timer wrap; a command that times out but is still executed; signals between any
two instructions; SIGKILL, after which Linux frees memory the other core still
executes from; an acquisition chain of ten fallible steps with one exit; a
shell that acts between any two steps of a worker; logs that end several times.

### What makes each component correct

- servo service: no enabled channel without one whole waveform of 1400..1600 us;
  no output beyond its lease; bookkeeping equals hardware; replies are true when
  acknowledged; every request is answered; outputs expire without a host.
- bench host: only the group under test moves; what was verified is what runs;
  PASS means off and parked; every run ends, a hold once it is told to.
- self-test: it calls the watchdog broken only for a reason, and a PASS means
  that the watchdog has fired and the core is parked with nothing on.
- loader: nothing is returned while the core may run; the board is as found or
  the exit code says that it is not; other people's outputs are not touched.
- pin lease: one holder; no pad and no servo has two masters, and no pad moves
  under a pulse, also after a killed holder; the pads come back as found.
- SDK integration: the reviewed driver survives in place or as the copy, the exit
  code is true, other people's files are kept.
- RT-Thread bench: pulses and pads end with the run; only what was taken is
  given back; after a stop at most the pulse already decided on follows.
- collector: `complete` excludes the defects it is built on; rows use the carrier that is reported.
- IMU tool: whatever fails, the board is as found or the report says that it is
  not; exit code 0 is earned; sensors in use are refused; the bus is not taken
  from under a running sensor.

## 2. Modules

| Module | Models | Extends |
|---|---|---|
| `ServoService` | the core, against the most general host | – |
| `ServoServiceProofs` | theorems about it | `ServoService`, TLAPS |
| `OutputLease` | what the service promises: outputs live on renewals (abstract) | – |
| `BenchLink` | the same core against the repository's host | `ServoService` |
| `Mailbox` | what a command is to host and core: a call (abstract) | – |
| `MCBenchLink` | the two widths the runs use | `BenchLink` |
| `SelfTest` | the self-test as a third kind of run of that host | `BenchLink` |
| `MCSelfTest` | the script's widths | `SelfTest` |
| `BenchLinkProofs` | theorems about core and host together, self-test included | `SelfTest`, `ServoServiceProofs` |
| `Loader` | the loader process and what it borrows | – |
| `LoaderProofs` | theorems about it | `Loader`, TLAPS |
| `MCLoader` | the board the runs use | `Loader` |
| `BoardLease` | what a lease of the board promises (abstract) | – |
| `PinLease` | the pin lease between competing loaders and MaixCDK benches | – |
| `PinLeaseProofs` | theorems about it | `PinLease`, TLAPS |
| `RtServoBench` | RT-Thread worker, shell, PWM driver | – |
| `MCRtServoBench` | the groups the runs use | `RtServoBench` |
| `RtServoBenchProofs` | theorems about it | `RtServoBench`, TLAPS |
| `Collector` | the collector | – |
| `CollectorProofs` | theorems about it | `Collector`, TLAPS |
| `ImuCapture` | the IMU tool: carrier, SPI, sensors, capture | – |
| `ImuCaptureProofs` | theorems about it | `ImuCapture`, TLAPS |
| `InstallSdk` | the SDK integration tool | – |
| `InstallSdkProofs` | theorems about it | `InstallSdk`, TLAPS |

Operators marked "Faulty variant" are not part of any specification. Each is a
plausible mistake in one definition; `PROJECT.json` (`mutants`) says which
property finds it when it replaces that definition.

### ServoService

One action per access that the other side can observe: the read of the sequence
number (`Fetch`), of command and mask (`Decode`), the validation (`Check`), the
second read of each target when it is used (`DriveChannel`), the writes of a
reload in their order (`LoadLow`, `LoadHigh`, `StartChannel`; the stop belongs
to `DriveChannel`), the trip in its three visible parts, and the publication in
two (`Publish`, `Acknowledge`). `Trap` may happen anywhere. `Tick` advances the
timer modulo `TimerMod`, at most `MaxLoop` ticks per pass. The host of this
module (`AnyHost`) writes any of its words at any time.

A mask is a set of bit numbers; bit `NumChannels` stands for all bits outside
15. Widths are microseconds and counts are timer ticks, as in the code. `trips`,
`seq` and `ack` are 32-bit words in the code and bounded numbers here: a wrap of
the request counter would take years at the rate of the host.

`ImplementsOutputLease` maps the service to `OutputLease`: the enabled channels
are `on`, the reload of a SET is a `setting`, and `age` counts from the sample
the lease is computed from. Each register write is a `Switch` or a stutter, the
trip is `AllOff`, a trap is `CoreDies`. The abstract module says nothing of
masks, replies or timer words.

### BenchLink

The host's control points are those of the C code: `group` (the stop before a
channel), `set`, `command`/`submit`/`poll`/`judge` (the inside of `command()`),
`verify`, `keep` (the dwell with its repeated sets) and `returned`. `oper` says
for which caller a command runs. The core is `ServoService`'s, unchanged.
`ImplementsMailbox` maps the two to `Mailbox`: the words of the page are in the
`box` while the sequence numbers differ, and the core is `working` from the read
of command and mask to the acknowledgement. Submitting is `Post`, `Decode` is `Take`,
`Acknowledge` is `Answer`, the end of `command()` is `Return`, a trap is `Die`; every
other write of the host has to be a stutter, or a `Rewrite` before a dead core.
`Patience` is the length of the poll loop in ticks (200 ms in the code), long
against `MaxLoop`; `MaxRepeats` bounds how often a set is repeated in one dwell.
A hold ends in two ways: the loop sees the signal before its next set (`EndHold`,
a success), or the signal comes later and the set fails.

### SelfTest

`servo_test` is a straight script, so it is one: `Script` has a line per command
with its mask, its widths, the answer it must get and what is read back. `step`
is the line. Submitting and polling are `BenchLink`'s. After the single start the
host is silent (`EndWatch`) until m[18] shows the trip or `WatchPatience` ticks
have passed, and judges m[18], m[32] and m[17] in one look; the core writes them
in separate steps.

### Loader

`lpc` names the step of `main`; each register write of the takeover and of the
restoration is its own action, because a kill or a signal may fall between any
two. Every library or kernel call may fail. `World` is what Linux sees: clock
source, gates, registers, bindings, pins. `found` remembers it as the run found
it, `damaged` that giving something back failed. What happens while the core is
served is one action, `Serve` for the sequences, `EndHolding` for
`--hold-servo`, which ends by a signal or a failed command; the core meanwhile
changes the PWM registers at will (`CoreDrives`). Every register write of the
restoration may be lost. The readback finds it, sets `rc`, and the code goes on:
also a PWM group that did not take its old values is bound to Linux again
(`e907_live_probe.c:267, 276`), which `stuck` remembers by channel. `Kill` does what the kernel does for a dead process, and
`Restart` begins another run in the world that is left. The pin lease is
two steps here, taken and returned; its inside is `PinLease`.

### PinLease and BoardLease

Each of `Procs` is a loader or a MaixCDK bench, chosen when it starts; `pc` names
the line of `servo_pins_acquire`, of `servo_pins_release`, of `Hardware` or of
the loader's `main` between the two. `dev` is the state of each of the bench's
PWM devices. The kernel keeps `owner` (flock), `lineOf` (GPIO request), the
binding of I2C0 and of the PWM groups, and the requested channels; `Kill` frees
the first two only. A dead loader leaves the core running: `CoreInit` and
`CorePulse` go on and move pads that nobody holds. `excused` remembers that a
pad, a channel or the driver could not be given back, or that such a stray core
wrote the pads. A loader serves a test ("serve") or holds a position ("holding").

`BoardLease` is a lease of an opaque `board`: taken by one program when nobody
holds it, used, and returned as it was taken unless `excused`; a holder may die.
`PinLease` implements it with the pads and the I2C0 binding as the board and the
programs past the lock as holders.

### RtServoBench

A shell command is one action: the shell's priority is 8 and the worker's 20, so
a typed command runs through before the worker continues. The worker has one
action per step of its loops. Reading `stop_requested` and the pulse that
follows are two (`HeedStop` and `FirstPulse`, `Step` and `StepPulse`), so a stop
may fall between them; one pulse is then still given. The driver is reduced to which channels are
initialised (their clocks are on exactly then), which groups are busy, and what
a channel generates. `pwm_tool` acts on any channel; `meddled` notes that it has
switched off one that the operator did not start. `saved[]` is static in the
code and shared between workers here too.

### Collector

A line is a record of its kind and of the fields that matter: carrier, sequence
number, result code, channels. `ReadLine` handles one line as `process` does,
`FailRow` is a line whose rows cannot be written, `Break` an exception outside
of `process`, `Decide` the correction at the end. A line is `Refused` before it
has changed anything, or it is noted (`Note`), and may then still be counted as
rejected, because the flush of `commands.csv` comes last (`collect.cpp:54`).
`SERVO_END` has the `failed` field that `servo_bench.c:76` prints; the model reads
it no more than the code does. Counts of rejected lines are
reduced to whether there was one.

### ImuCapture

`pc` names the line of `main`, `CarrierV11::acquire`, `initialize` or the cleanup
that comes next. `own` is what the process holds, in the terms of the classes'
members; `world` is the board: pads, bound drivers, the chip select, SPI settings
and the two sensors. Every call may fail; a failed transfer may have reached the
sensor or not, and may leave the chip select low. The ICM is at rest, partly
configured ("mixed") or sampling, in bank 0 or 4; the BMI is suspended, asleep
(initialised, power saving on), awake or sampling. `plan` holds the phases that
the command line asks for and that are left; it is chosen where it first matters.
`masked` marks the two places where a failed restoration is not reported. The
pads are switched and restored one by one, so that failures and kills fall
between any two of them.

### InstallSdk

One action per file access: the check of all five files, the two headers, the
copy, the driver, the application, the rollback and the checksum. `WriteFile` is
`write_file` with its four outcomes, the silent one among them: the destructor
of an `ofstream` writes the rest of its buffer and throws nothing. `Kill` stops
the tool anywhere and `Restart` runs it again on what is left. What the model
makes visible: after a failed or killed integration the copy stays, so the next
run refuses ("Backup already exists") until a person has removed it.

## 3. Runs

All runs finish in two and a half minutes or less on two workers.

| Run | Question | Bounds |
|---|---|---|
| `service_commands` | every command, legal or not, from the most general host, with targets that change between check and use | 2 channels, SET, STOP, PARK and an unknown command, masks {0, 1} and {bad}, widths below the range, inside it and at its end, time still, 2 requests |
| `service_watchdog` | leases across a timer wrap; outputs expire, requests are answered | 1 channel, timer of 4 ticks, limit 2, loop 2: the tightest instance of Timeout + MaxLoop <= TimerMod |
| `bench_safety` | one group at a time, repeated sets, refinement of `Mailbox` with timeouts, signals and traps; both orders and hold | 2 channels, 2 widths, 1 cycle, 1 repeat |
| `self_test` | verdict of the watchdog test, what PASS means, and that every bench, hold or self-test ends | 2 channels, 1 width step, 1 cycle, silence of 4 ticks against a patience of 3 |
| `bench_overlap` | one unfinished command at a time (violated) | 2 channels |
| `loader` | two runs with kills, failures, lost register writes and signals anywhere: what is restored, and that a run ends | 2 groups with 1 channel each, 2 runs |
| `pin_lease` | two programs that take the pins in turn or at once, fail anywhere or are killed: one master, refinement of `BoardLease`, every program ends | 2 programs, 2 pads, any number of runs |
| `rtt_bench` | pulses, pads, stops and a PWM group shared with the operator, with pwm_tool on any channel; a run ends | 2 servos in 1 group, 2 repetitions of 3 steps, 2 starts |
| `collector` | what `complete` means, carrier and gaps, the end after a signal | 3 lines of all 8 kinds, sequence numbers 1..2 |
| `collector_failed_servo` | a non-zero result makes complete false (violated) | 2 lines |
| `imu_capture` | failures, signals and kills anywhere in a run, and a run after a killed one | 2 pads, 2 controllers, every plan, 2 runs, none after a run that reported errors |
| `imu_late_signal` | an interrupted run has not passed (violated) | 1 pad, 1 controller, 1 run |

Why the bounds suffice: the interesting pairs all occur. Two channels give every
order of "the one being reloaded" and "another"; two requests give an unfinished
one with another on top; two loader runs give "a killed one and its successor";
two servos in one group give "the last one" and "not the last one" of a shared
clock; two programs give a holder, a competitor and the successor of a dead one;
three lines give a row, a contradiction and an end record in every order; two
pads and two controllers give "some of them" besides none and all. PING changes
no state and STATUS is in `service_watchdog`. For
`ServoService`, `PinLease`, `Collector` (safety) and the part of `Loader` that is
proved, the bounds do not matter: the theorems hold for every value of the
constants. `InstallSdk` has no constants; its theorems need no run beside them.

`CHECK_DEADLOCK FALSE` stands where the program really stops: the loader process
after its last run, the bench after the last bounded start, the self-test's host
when it has returned, a lease nobody asks for again, the collector and the IMU
tool when they are done.

### Properties worth knowing

- `SafeWaveform`: also if the host changes a target between its validation and
  its use, because `servo_pwm_set_us` checks again and stops the channel first.
- `ImplementsOutputLease`: the limit is Timeout - 1 + 2 * MaxLoop, not Timeout,
  because one pass may lie between a sample and the SET that it renews and
  another between the expiry and the sample that sees it.
- `WatchdogVerdict`: the self-test can call a working watchdog broken. The core
  writes m[18] before it increments m[32] (`servo_service.h:15`), and the host
  that sees the first at once expects the second (`e907_live_probe.c:80`). The
  property names this window, a trap, and a trip before the silence as the only
  reasons.
- `PassIsEarned`: covers bench and self-test; because of the same window the
  trips it has counted may be one fewer than there were.
- `OneMaster`: `servo_pwm_groups_idle` looks before the lock is taken, so a bench
  may start and be killed in between, leaving a channel on. The loader's second
  look, at the registers, is what keeps its core from joining it.
- `MetadataFitsRows`: one carrier maps all rows, and the gaps reported are the
  breaks in the sequence numbers of the rows.
- `AnswerIsTruth`: holds while the last request is the acknowledged one.
- `ImplementsMailbox`: `command()` abandons a request without withdrawing it, and
  the stop that follows overwrites it. That is harmless only because a core that
  does not answer for 200 ms has trapped (`TimeoutMeansTrap`), and because an
  interrupted host sends nothing more. Otherwise the core could read the command
  word of one request under the number of another, and execute it twice.
- `ExitRestores`: for each of the exits, and `rc = 0` only if nothing failed.
- `WritesPwmAlone`: the loader writes PWM registers only with both reset bits
  confirmed; a stopped clock would not be enough.
- `LinuxGroupsQuiet` excepts the `stuck` channels: a group goes back to Linux even
  if a readback failed, and the exit code is what reports it (`ExitRestores`).
- `PulsesEndWithRun`: also when the operator takes a channel away during a run.
- `StopIsPrompt`: the bound of one pulse is reached, by a stop between the test of
  the flag and `set_pulse`.
- `CompleteIsEarned`: the last end record counts, and defects count wherever
  they stand. What it does not say is part of it: a `SERVO_END` makes a capture
  complete also with `failed,1`, and so do SERVO records with a non-zero `rc`
  (finding `collector_failed_servo`). `complete` is no word on a SERVO run.
- `ReportedOrRestored`: with two exceptions, which the model found and names: the
  constructor of `Spi` swallows a failed restoration, and a stop of the ICM in
  bank 4 may confirm values that went into the wrong bank.
- `DriversOwnPads`: holds also for the pads of a run that was killed, because
  both drivers go before the first pad moves and come back after the last.
- `GapFitsSensor`: needs `stop()` to lengthen the wait before the reset, not
  after it, since a failed attempt is repeated by the destructor.

### Fairness

- `ServoService`: weak fairness of the core (it executes unless trapped: a trap
  disables its actions) and of time. The host promises nothing.
- `SelfTest` (and so the benches in its run): weak fairness of the process, the
  core and time. Linux schedules the process; the poll loops sleep 1 ms and
  count. Signals and traps are free. `BenchLink` alone is checked for safety.
- `Loader`: weak fairness of the process; every call returns. SIGKILL, signals,
  restarts and the core's behaviour are free. `--hold-servo` has no end of its
  own (`e907_live_probe.c:163`), so its loop is under fairness only once a signal
  has come: `RunEnds` leaves out the hold that nobody stops, and includes the one
  that is stopped.
- `PinLease`: weak fairness of the steps of every program, except the end of a
  hold; the lock is asked for without waiting. Starts, kills, signals and the core
  are free. `LeaseEnds` names the two loaders that keep their lease: the one whose
  core cannot be stopped, and the one that holds.
- `RtServoBench`: weak fairness of every thread. The shell has the higher
  priority but blocks on its console; nobody has to type anything.
- `Collector`: weak fairness of leaving the loop and of what follows, not of
  input. The port is opened non-blocking, so the loop condition is always seen.

- `ImuCapture`: weak fairness of the process; every call returns, and the time of
  a phase passes. Signals, kills and the samples are free.

### Findings

- `bench_overlap`: `firmware/e907_live/README.md` promises one unfinished command
  at a time; after a timeout the host's stop overwrites the unfinished SET.
- `collector_failed_servo`: `TELEMETRY.md` says a non-zero command result makes
  `complete` false; the `rc` of SERVO records is ignored, and so is the `failed`
  field of the `SERVO_END` that follows it.
- `imu_late_signal`: the README of `cpp/imu` says an interrupted run keeps
  `passed=false`; a signal that comes after the flag was read for the last time
  is ignored, and the run passes with exit code 0.

## 4. Proofs

Checked by TLAPS for every number of channels, every set of widths, every timer
width, every board, any number of programs and runs, and inputs of any length.

`ServoServiceProofs` proves all safety properties of `ServoService`:
`TypeCorrect`, `WaveformsAreSafe`, `BookkeepingIsHardware`, `OutputsAreLeased`,
`AnswersAreTrue`, `ParkedDrivesNothing` and `RepeatsAreSmooth`, and that it
implements its abstract specification (`ServiceImplementsLease`); `LeaseKept`
derives from that, without looking at the service again, that no output is on
beyond its lease. The only
assumption is `ServiceAssumption`; its essential part is Timeout + MaxLoop <=
TimerMod (1 s plus a pass is less than a wrap of 179 s).

None of the properties is inductive. The invariant is a conjunction:
`WaveformInv` says what is loaded at each point of a reload; `OutputInv` which
channels are on at each point of a pass, so that a SET half done is neither
"active" nor lost; `CommandInv` and `SequenceInv` that the latched request is the
one being processed; `PublishInv` when the page agrees with the state; `TimeInv`
that the wrapped differences are real times. Each part has a lemma of its own
with one step per action, and uses the parts before it.

`BenchLinkProofs` proves what the repository's host and the core do together, for
any channels, plan, script of widths, number of cycles, timer and patience. The
host is one of the hosts of `ServoService`, so that module's invariant `IInv` holds
again (`HostKeepsIInv`, `LinkKeepsIInv`) and with it the state promises of the
service (`ServedSafely`). On top of it:

- `TalkInv`: at which control points a request can be outstanding (never more than
  one until something has failed), that what the core has latched is the
  command the host waits for, and that nothing is sent after PARK;
- `GroupInv`: the core is only ever given the group under test, and the group
  changes only after an `after` stop was verified and all is off. This is
  `NothingElseMoves` (`OnlyGroupDriven`). The stop sent after a timeout is why it
  is not obvious: it overwrites a SET that the core may still be about to read;
- `KeepInv`: between two sets the verified group runs or has been tripped
  (`CheckedStaysDriven`, for `CheckedIsDriven`);
- from `TalkInv` alone, mask and targets wait for the answer (`TargetsAreStable`,
  `TestTargetsAreStable`, for `TargetsStable`);
- `PatienceInv`: of the ticks waited, the rest of the running pass and one
  whole pass are the most that a live core can have needed (`TimeoutsAreTraps`,
  `TestTimeoutsAreTraps`, for `TimeoutMeansTrap`);
- with `MailInv` (a live core is never two requests behind) each step is one of the
  mailbox or a stutter (`BenchImplementsMailbox`, `TestImplementsMailbox`); what every
  user of a mailbox gains is `OnlyRequestsAreCarriedOut`;
- `ScriptInv`: through the silence of the self-test the outputs are on, or the
  watchdog has fired, or the core is dead, and the lines after it follow a trip
  and drive nothing; `SilenceInv`: while the self-test is
  silent the age of the lease is at least what the host has waited, so the bound
  on the lease bounds the wait (`WatchdogIsJudgedRightly`, for `WatchdogVerdict`);
- `PassInv`: what is known when the last answer comes and when the run returns
  (`PassesAreEarned`, for `PassIsEarned`).

The theorems about `LinkSpec` assume that `BenchModes` has no self-test, whose lines
`BenchLink` does not know; those about `TestSpec` cover all four kinds of run. Two
hypotheses are about time. `2 * MaxLoop < Patience`: 200 polls, each with a pause of
1 ms, against two passes of a loop of some microseconds. `Timeout - 1 + 2 * MaxLoop <
WatchPatience`: 2000 such polls against the watchdog's 1 s and two passes. Without
the first the property is false: a patience of a pass loses answers that are
merely late.

`LoaderProofs` proves every safety property of `Loader` for any number of groups,
channels and runs, from `LoaderAssumption` alone. `ResourcesAreKept`
(`ResourcesOutliveCore`), `OnlyIdleCoresAreTaken` (`TakesOnlyIdleCore`) and
`LoaderWritesAlone` (`WritesPwmAlone`) go by control point: `TouchedInv` and
`IdleInv` say what is known before the first write to the core, `ResetInv` what
the handshake establishes and keeps, `LeaseInv` how memory, groups and pins are
gathered. `LinuxGroupsStayQuiet` (`LinuxGroupsQuiet`), `ForeignOutputsAreKept`
(`ForeignOutputsUntouched`) and `ExitGivesBack` (`ExitRestores`) rest on a second
invariant, `BorrowInv` (theorem `Borrowing`): for each thing that is borrowed
(bindings, gates, clock source, pins, the core's registers, the PWM registers) it
relates what was saved, what the board shows and what `found` remembers at each
point, so that every prefix of the acquisition chain can be given back. It holds
only because the values are saved before they are changed: the mutant that saves
the gates late breaks `ExitRestores`. Each write of the restoration may be lost,
so what is known of gates, registers and PWM on the way out is known unless
`damaged`, and `ReportInv` takes that to the exit code: what the readback will see
before it, `rc` after it.

`PinLeaseProofs` proves `TypeCorrect`, `NothingHasTwoMasters` (`OneMaster`),
`PadsMoveQuietly` (`PadsMoveWhenQuiet`) and the refinement
`ImplementsBoardLease` (`ImplementsLease`), for any number of programs and pads,
from `PinLeaseAssumption`. The invariant has a part per owner of state:
`HolderInv` (who is past the lock holds it, so there is one), `LocalInv` (what a
program has saved, unbound and requested at each of its points), `CoreInv` (when
the core may run, and that no bench device is open then), `BoardInv` (which pads
may differ from what was found, and who will put them back) and `PulseInv` (a
pulsing channel has its pad on PWM and somebody who will stop it). Frame lemmas
say what a step of one program leaves of the others.

`CollectorProofs` proves `TypeCorrect`, `CompleteIsDeserved` (`CompleteIsEarned`)
and `MetadataIsFaithful` (`MetadataFitsRows`). The first rests on three facts:
every defect in the log that the collector looks at is remembered, `complete`
follows the last end record (a `SERVO_END` whatever it reports), and after the
verdict it excludes those defects. The second needs that nothing is
mapped before there are rows, so that a late carrier record is harmless, and a
lemma (`BreaksGrow`) on what one more number adds to a cardinality.

`InstallSdkProofs` proves `ReviewedDriverSurvives`, `ExitCodeIsTrue` and
`ForeignFilesKept`, without any assumption, over any number of failed, killed and
repeated runs. The exceptions are part of the statements: a rollback that itself
fails, and a file cut by the closing stream. `OriginalSurvives` has neither.

`RtServoBenchProofs` proves `NoPulseWithoutRun` (`PulsesEndWithRun`),
`ChannelsComeBack` (`ChannelsGivenBack`), `ToolChannelsAreKept`
(`ToolKeepsChannel`), `StopsPromptly` (`StopIsPrompt`) and `PadsMoveQuietly`
(`PadsMoveWhenQuiet`) for any plan, any assignment of servos to groups and any
number of workers, from `BenchAssumption`. A new worker can be created while the
old one is between its last writes, so the first fact is `OneWorker`: exactly
while `running` is set there is one thread that is not at its end. With it
the state of the board is a function of that worker's locals: `Held`, `Driven`
and `Connected` give the channels it uses, drives and has on their pads at each
point, in terms of the loop counters and of the masks that the code keeps.
`PulseInv`, `PadInv` and `UseInv` equate the board with them, whatever `pwm_tool`
does in between; `ClockInv` ties the driver's status to clocks and groups, and
`CountInv` bounds the sequence number by the plan. `StopInv` says of a stop that
only a worker already between its test of the flag and its pulse (`Decided`) may
still give one.

`ImuCaptureProofs` proves `BoardIsGivenBack` (`ReportedOrRestored`),
`PassingIsEarned` (`PassedIsEarned`), `DriversKeepPads` (`DriversOwnPads`),
`SensorsInUseAreLeft` (`ForeignSensorsUntouched`), `WaitIsLongEnough`
(`GapFitsSensor`) and `PadsMoveAtRest` (`PadsMoveWhenSensorsRest`) for any number
of pads, controllers and runs, from `CaptureAssumption`. The invariant goes
resource by resource (`PadInv`, `DriverInv`, `SelectInv`, `BusInv`, `SensorInv`):
where the board differs from what the run found, either the process holds the
old value and has not come to the step of the cleanup that writes it back, or a
failure is on record. `StageInv` says that nothing is on record before the
cleanup, so that what is read while the board is taken is the original.
`VerdictInv` carries the success through the cleanup; it needs that the ICM is in
bank 0 whenever the initialisation has come past its offsets, since a stop in
bank 4 may be confirmed and wrong. Each action has a lemma that says what it does to
each resource (`...Does`); each part of the invariant has one that goes through
the actions.

In these two modules, and in `LoaderProofs`, type correctness (`TypeCorrect`) is a
theorem as well; in `BenchLinkProofs` it is `HostTypeCorrect`.

All inductive invariants were checked with TLC before they were proved.

Model-checked only:

- every liveness property: the prover has neither fairness nor ENABLED;
- data computed by recursion: the prover cannot instantiate the induction
  theorems, which take an operator, and gives up its SMT backend where RECURSIVE
  occurs. No module here uses RECURSIVE.

## 5. Plan

What is left, in this order:

1. `BoardLease` for the other two programs that take pins: `Loader` and `ImuCapture`
   have proofs of what they give back, not yet of the abstract lease.
2. The step plan of the MaixCDK bench on top of `PinLease`.

## 6. Abstractions to keep in mind

- A register write is atomic and immediate; those of a restoration may be lost
  (`Loader`, `PinLease`), because the code reads them back. Bus errors and the physical waveform
  between two register writes are outside of the models.
- The fences of the code are taken to work: both sides see accesses in program
  order. That is what `dmb sy` and `fence` are there for.
- `ServoService` treats a snapshot of all channels as one step of publication;
  the host does not read it before the acknowledgement.
- In `Loader`, the Linux driver does not change registers or gates of a group
  while the loader runs, and one loader runs at a time (its lock file).
- In `PinLease`, the checks of consoles, I2C clients and bus users pass or fail
  freely; nobody but the two programs binds I2C0 or requests these lines and
  channels; a channel that a bench was killed with stays requested, as an
  exported PWM does.
- In `InstallSdk`, a file has one of a few contents and line endings are ignored;
  a failed copy leaves nothing or a short file; nobody else changes the files
  while a run is under way.
- In `ImuCapture`, a failed write to a pad leaves it as it was, a failed bind
  leaves the driver unbound, and nobody else uses pads, drivers or sensors while
  a run holds the lease. A restoration is judged by the states above, not by
  register values.
- In `RtServoBench`, the console is not on UART1 in the runs (`ConsolePins`); a
  build that has it there refuses servos 1 and 2.

## 7. Not modelled

- `cpp/src/video_measure.cpp`: a person clicks points; the rest is geometry.
- `tools/*.py`: offline statistics and plots, read-only preflight.
- `archive_python`: superseded by the C++ programs.
- `cpp/vendor`, `research` (except the PWM driver and its tool): other people's
  code, reports, measured data and build scripts.
- The numerical parts of the IMU calibration (`bias.hpp`, `sample.hpp`): moments,
  quantiles and thresholds in floating point. `ImuCapture` takes their verdict as
  a free choice between good and bad.
- The step plan, CSV and dry run of `bench.cpp`, the serial port's settings, and
  the parsing of options and numbers.
- The probe firmware `probe.S`: a subset of the servo service's protocol without
  outputs.
