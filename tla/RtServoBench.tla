---------------------------- MODULE RtServoBench ----------------------------
(***************************************************************************)
(* The RT-Thread bench of firmware/servo_bench.c on the SDK's PWM driver   *)
(* (research/riscv__drivers__pwm__drv_pwm.c): a shell starts and stops a   *)
(* worker thread that takes PWM channels, moves the pads to them, steps    *)
(* through its plan and gives channels and pads back.                      *)
(*                                                                         *)
(* A shell command is one action: the shell's priority (8) is above the    *)
(* worker's (20), so a command runs through once it is typed, between any  *)
(* two steps of the worker.  A call of servo_pwm_set_us is one action too, *)
(* its inner order is the subject of module ServoService.                  *)
(***************************************************************************)
EXTENDS Integers, FiniteSets

CONSTANTS
  N,            \* number of servos; servo i drives one PWM channel
  GroupOf,      \* PWM group of a servo's channel (servo_board.h)
  Reps, Steps,  \* the plan: 3 repetitions of 9 steps in the code
  Threads,      \* threads the kernel can create
  ConsolePins,  \* servos whose pins the build's console uses: {1, 2} or {}
  MaxStarts     \* bound: threads created

Servos == 1 .. N

ASSUME BenchAssumption ==
  /\ N \in Nat \ {0} /\ DOMAIN GroupOf = Servos
  /\ Reps \in Nat \ {0} /\ Steps \in Nat \ {0}
  /\ IsFiniteSet(Threads) /\ MaxStarts \in Nat
  /\ ConsolePins \subseteq Servos

VARIABLES
  running, stop_requested, selected_mask, seq,   \* statics of servo_bench.c
  saved,        \* pad values to restore, also static
  worker,       \* the locals of each thread
  status, busy, \* the driver: channels and groups in use, with their clocks
  ctl,          \* what a channel generates: "off", "servo", "tool"
  pad,          \* what a pad is connected to: "other", "pwm"
  toolOn,       \* channels the operator switched on with pwm_tool
  meddled,      \* pwm_tool has switched off a channel that was not its own
  stoppedAt,    \* seq when the stop was requested
  starts

statics == <<running, stop_requested, selected_mask, seq>>
driver == <<status, busy, ctl>>
ghosts == <<toolOn, meddled, stoppedAt, starts>>
vars == <<statics, saved, worker, driver, pad, ghosts>>

Points == {"none", "init", "mux", "first", "neutral", "settle", "step",
           "pulse", "pause", "stop", "deinit", "restore", "end"}
Idle == [pc |-> "none", i |-> 1, rep |-> 1, s |-> 1,
         owned |-> {}, muxed |-> {}, failed |-> FALSE]

Init ==
  /\ running = FALSE /\ stop_requested = FALSE /\ selected_mask = Servos
  /\ seq = 0 /\ saved = [i \in Servos |-> "none"]
  /\ worker = [t \in Threads |-> Idle]
  /\ status = {} /\ busy = {} /\ ctl = [i \in Servos |-> "off"]
  /\ pad = [i \in Servos |-> "other"]
  /\ toolOn = {} /\ meddled = FALSE /\ stoppedAt = 0 /\ starts = 0

-----------------------------------------------------------------------------
(* The driver.                                                             *)
\* pwm_init refuses a channel in use, opens its clocks, leaves it stopped.
CanInit(i) == i \notin status
Opened(i) == /\ status' = status \cup {i}
             /\ busy' = busy \cup {GroupOf[i]}
\* Faulty variant: the group's clock is closed with the channel's.
DeinitWholeGroup(i) == /\ status' = status \ {i}
                       /\ busy' = busy \ {GroupOf[i]}
\* pwm_deinit closes the group's clock with its last channel.
Deinit(i) ==
  /\ status' = status \ {i}
  /\ busy' = IF \E j \in status \ {i} : GroupOf[j] = GroupOf[i]
               THEN busy ELSE busy \ {GroupOf[i]}

-----------------------------------------------------------------------------
(* The shell.                                                              *)
\* Faulty variant: a failed thread leaves running behind.
LaunchStuck(t, started) ==
  /\ running' = TRUE
  /\ worker' = IF started THEN [worker EXCEPT ![t] = [Idle EXCEPT !.pc = "init"]]
                          ELSE worker
\* rt_thread_create and rt_thread_startup, either of which may fail.
Launch(t, started) ==
  /\ running' = started
  /\ worker' = IF started THEN [worker EXCEPT ![t] = [Idle EXCEPT !.pc = "init"]]
                          ELSE worker

\* Faulty variant: a second worker beside the first.
StartAlways(t, mask, started) ==
  /\ worker[t].pc = "none" /\ starts < MaxStarts /\ starts' = starts + 1
  /\ mask \cap ConsolePins = {}
  /\ selected_mask' = mask /\ stop_requested' = FALSE /\ seq' = 0
  /\ Launch(t, started)
  /\ UNCHANGED <<saved, driver, pad, toolOn, meddled, stoppedAt>>
(* servo_bench start: refused while a worker runs, and for the pins of a   *)
(* console on UART1.                                                       *)
Start(t, mask, started) ==
  /\ ~running
  /\ worker[t].pc = "none" /\ starts < MaxStarts /\ starts' = starts + 1
  /\ mask \cap ConsolePins = {}
  /\ selected_mask' = mask /\ stop_requested' = FALSE /\ seq' = 0
  /\ Launch(t, started)
  /\ UNCHANGED <<saved, driver, pad, toolOn, meddled, stoppedAt>>

(* servo_bench stop, with or without a worker.                             *)
Stop ==
  /\ ~stop_requested /\ stop_requested' = TRUE /\ stoppedAt' = seq
  /\ UNCHANGED <<running, selected_mask, seq, saved, worker, driver, pad,
                 toolOn, meddled, starts>>

(* pwm_tool ... 1: pwm_init, which may refuse, and pwm_start.              *)
ToolOn(i) ==
  /\ CanInit(i) /\ Opened(i)
  /\ ctl' = [ctl EXCEPT ![i] = "tool"] /\ toolOn' = toolOn \cup {i}
  /\ UNCHANGED <<statics, saved, worker, pad, meddled, stoppedAt, starts>>

(* pwm_tool ... 0: pwm_stop and pwm_deinit, which ask nobody.               *)
ToolOff(i) ==
  /\ i \in toolOn \cup status
  /\ toolOn' = toolOn \ {i} /\ meddled' = (meddled \/ i \notin toolOn)
  /\ ctl' = [ctl EXCEPT ![i] = "off"] /\ Deinit(i)
  /\ UNCHANGED <<statics, saved, worker, pad, stoppedAt, starts>>

-----------------------------------------------------------------------------
(* The worker.                                                             *)
At(t, point) == worker[t].pc = point
Moves(t, fields) == worker' = [worker EXCEPT ![t] = fields]
Cleanup(w) == [w EXCEPT !.pc = "stop", !.i = 1]
Failed(w) == Cleanup([w EXCEPT !.failed = TRUE])
\* The next servo of a loop over all of them, or what follows the loop.
NextServo(w, after) ==
  IF w.i < N THEN [w EXCEPT !.i = @ + 1] ELSE [w EXCEPT !.pc = after, !.i = 1]

\* Faulty variant: the channel counts as ours before pwm_init agrees.
InitServoEager(t) ==
  LET w == worker[t]  IN
  /\ At(t, "init")
  /\ IF stop_requested \/ w.i \notin selected_mask
       THEN /\ Moves(t, IF stop_requested THEN Cleanup(w)
                                          ELSE NextServo(w, "settle"))
            /\ UNCHANGED driver
       ELSE LET taken == [w EXCEPT !.owned = @ \cup {w.i}]  IN
            IF CanInit(w.i)
              THEN /\ Opened(w.i) /\ ctl' = [ctl EXCEPT ![w.i] = "off"]
                   /\ Moves(t, [taken EXCEPT !.pc = "mux"])
              ELSE UNCHANGED driver /\ Moves(t, Failed(taken))
  /\ UNCHANGED <<statics, saved, pad, ghosts>>

(* Take the next selected channel; one in use ends the run.                *)
InitServo(t) ==
  LET w == worker[t]  IN
  /\ At(t, "init")
  /\ IF stop_requested \/ w.i \notin selected_mask
       THEN /\ Moves(t, IF stop_requested THEN Cleanup(w)
                                          ELSE NextServo(w, "settle"))
            /\ UNCHANGED driver
       ELSE IF CanInit(w.i)
         THEN /\ Opened(w.i) /\ ctl' = [ctl EXCEPT ![w.i] = "off"]
              /\ Moves(t, [w EXCEPT !.owned = @ \cup {w.i}, !.pc = "mux"])
         ELSE UNCHANGED driver /\ Moves(t, Failed(w))
  /\ UNCHANGED <<statics, saved, pad, ghosts>>

(* Remember the pad and connect it to the PWM.                             *)
MuxPad(t) ==
  LET w == worker[t]  IN
  /\ At(t, "mux")
  /\ saved' = [saved EXCEPT ![w.i] = pad[w.i]]
  /\ pad' = [pad EXCEPT ![w.i] = "pwm"]
  /\ Moves(t, [w EXCEPT !.muxed = @ \cup {w.i}, !.pc = "first"])
  /\ UNCHANGED <<statics, driver, ghosts>>

\* set_pulse: counted and logged whatever servo_pwm_set_us answers, which
\* refuses a channel that is not initialised.
SetPulse(i) ==
  /\ seq' = seq + 1
  /\ ctl' = IF i \in status THEN [ctl EXCEPT ![i] = "servo"] ELSE ctl
  /\ UNCHANGED <<running, stop_requested, selected_mask, saved, status, busy,
                 pad, ghosts>>

(* The stop flag is read once more before the neutral pulse.              *)
HeedStop(t) ==
  LET w == worker[t]  IN
  /\ At(t, "first")
  /\ Moves(t, IF stop_requested THEN Cleanup(w) ELSE [w EXCEPT !.pc = "neutral"])
  /\ UNCHANGED <<statics, saved, driver, pad, ghosts>>

(* The neutral pulse, also when a stop has come since.                     *)
FirstPulse(t) ==
  LET w == worker[t]  IN
  /\ At(t, "neutral") /\ SetPulse(w.i)
  /\ Moves(t, IF w.i \in status
                THEN NextServo([w EXCEPT !.pc = "init"], "settle")
                ELSE Failed(w))

(* The first dwell.                                                        *)
Settle(t) ==
  /\ At(t, "settle")
  /\ Moves(t, [worker[t] EXCEPT !.pc = "step", !.failed = FALSE])
  /\ UNCHANGED <<statics, saved, driver, pad, ghosts>>

\* The next servo of the plan, in the next repetition after the last one.
Advance(w) ==
  LET w1 == [w EXCEPT !.s = 1, !.pc = "step"]  IN
  CASE w.i < N -> [w1 EXCEPT !.i = @ + 1]
    [] w.i = N /\ w.rep < Reps -> [w1 EXCEPT !.i = 1, !.rep = @ + 1]
    [] OTHER -> Cleanup(w1)

\* Faulty variant: the steps of one servo are not interrupted.
StepNoStop(t) ==
  LET w == worker[t]  IN
  /\ At(t, "step")
  /\ Moves(t, CASE stop_requested /\ w.s = 1 -> Cleanup(w)
                [] w.i \notin selected_mask -> Advance(w)
                [] OTHER -> [w EXCEPT !.pc = "pulse"])
  /\ UNCHANGED <<statics, saved, driver, pad, ghosts>>

(* The loop conditions before a step of the plan.                          *)
Step(t) ==
  LET w == worker[t]  IN
  /\ At(t, "step")
  /\ Moves(t, IF stop_requested THEN Cleanup(w)
              ELSE IF w.i \notin selected_mask THEN Advance(w)
              ELSE [w EXCEPT !.pc = "pulse"])
  /\ UNCHANGED <<statics, saved, driver, pad, ghosts>>

(* The pulse of the step, also when a stop has come since.                 *)
StepPulse(t) ==
  LET w == worker[t]  IN
  /\ At(t, "pulse") /\ SetPulse(w.i)
  /\ Moves(t, IF w.i \in status THEN [w EXCEPT !.pc = "pause"] ELSE Failed(w))

(* The dwell after a step.                                                 *)
Pause(t) ==
  LET w == worker[t]  IN
  /\ At(t, "pause")
  /\ Moves(t, IF w.s < Steps THEN [w EXCEPT !.pc = "step", !.s = @ + 1]
                             ELSE Advance(w))
  /\ UNCHANGED <<statics, saved, driver, pad, ghosts>>

-----------------------------------------------------------------------------
(* The cleanup.                                                            *)
\* Faulty variant: only a run that failed stops its channels.
StopServoOnFailure(t) ==
  LET w == worker[t]  IN
  /\ At(t, "stop")
  /\ IF w.i \in w.owned
       THEN /\ ctl' = IF w.failed THEN [ctl EXCEPT ![w.i] = "off"] ELSE ctl
            /\ Moves(t, [w EXCEPT !.pc = "deinit"])
       ELSE UNCHANGED ctl /\ Moves(t, NextServo(w, "restore"))
  /\ UNCHANGED <<statics, saved, status, busy, pad, ghosts>>
(* pwm_stop of a channel that was taken.                                   *)
StopServo(t) ==
  LET w == worker[t]  IN
  /\ At(t, "stop")
  /\ IF w.i \in w.owned
       THEN /\ ctl' = [ctl EXCEPT ![w.i] = "off"]
            /\ Moves(t, [w EXCEPT !.pc = "deinit"])
       ELSE UNCHANGED ctl /\ Moves(t, NextServo(w, "restore"))
  /\ UNCHANGED <<statics, saved, status, busy, pad, ghosts>>

(* pwm_deinit of it.                                                       *)
DeinitServo(t) ==
  LET w == worker[t]  IN
  /\ At(t, "deinit") /\ Deinit(w.i)
  /\ Moves(t, NextServo([w EXCEPT !.pc = "stop"], "restore"))
  /\ UNCHANGED <<statics, saved, ctl, pad, ghosts>>

(* Every pad that was connected gets its value back.                       *)
RestorePad(t) ==
  LET w == worker[t]  IN
  /\ At(t, "restore")
  /\ pad' = IF w.i \in w.muxed THEN [pad EXCEPT ![w.i] = saved[w.i]] ELSE pad
  /\ Moves(t, NextServo(w, "end"))
  /\ UNCHANGED <<statics, saved, driver, ghosts>>

(* The end record, and the next start is allowed.                          *)
Finish(t) ==
  /\ At(t, "end")
  /\ running' = FALSE /\ Moves(t, Idle)
  /\ UNCHANGED <<stop_requested, selected_mask, seq, saved, driver, pad, ghosts>>

Worker(t) ==
  \/ InitServo(t) \/ MuxPad(t) \/ HeedStop(t) \/ FirstPulse(t) \/ Settle(t)
  \/ Step(t) \/ StepPulse(t) \/ Pause(t)
  \/ StopServo(t) \/ DeinitServo(t) \/ RestorePad(t) \/ Finish(t)

\* servo_bench start 1|2|3|4|all
Masks == {{i} : i \in Servos} \cup {Servos}

Next ==
  \/ \E t \in Threads, mask \in Masks, started \in BOOLEAN :
        Start(t, mask, started)
  \/ Stop
  \/ \E i \in Servos : ToolOn(i) \/ ToolOff(i)
  \/ \E t \in Threads : Worker(t)

Spec == Init /\ [][Next]_vars
\* The scheduler runs a thread that is ready; nobody has to type anything.
FairSpec == Spec /\ \A t \in Threads : WF_vars(Worker(t))

-----------------------------------------------------------------------------
(* Types of all variables.                                                 *)
TypeOK ==
  /\ running \in BOOLEAN /\ stop_requested \in BOOLEAN
  /\ selected_mask \in Masks
  /\ seq \in 0 .. N * (1 + Reps * Steps)
  /\ saved \in [Servos -> {"none", "other"}]
  /\ worker \in [Threads -> [pc : Points, i : Servos, rep : 1 .. Reps,
                             s : 1 .. Steps, owned : SUBSET Servos,
                             muxed : SUBSET Servos, failed : BOOLEAN]]
  /\ status \subseteq Servos /\ busy \subseteq {GroupOf[i] : i \in Servos}
  /\ ctl \in [Servos -> {"off", "servo", "tool"}]
  /\ pad \in [Servos -> {"other", "pwm"}]
  /\ toolOn \subseteq Servos /\ meddled \in BOOLEAN /\ stoppedAt \in Nat
  /\ starts \in 0 .. MaxStarts

(* When running is clear again, after a full plan, a stop at any moment, a *)
(* channel that could not be taken or one that pwm_tool took away, no      *)
(* channel carries a servo pulse and no pad is left on a PWM.              *)
PulsesEndWithRun ==
  ~running => \A i \in Servos : ctl[i] # "servo" /\ pad[i] = "other"

(* Then the channels in use are the operator's and no others: what the     *)
(* bench took is free for the next start, and it gave back nothing else,   *)
(* unless the operator has given back a channel of the bench.              *)
ChannelsGivenBack == ~running /\ ~meddled => status = toolOn

(* A pad changes hands only while its channel drives no servo pulse: a     *)
(* servo sees neither a pulse cut by the pad nor a floating pad mid-pulse. *)
PadsMoveWhenQuiet ==
  [][\A i \in Servos : pad'[i] # pad[i] => ctl[i] # "servo"]_vars

(* A channel the operator switched on with pwm_tool keeps its waveform, its*)
(* clock and its group's clock through every run of the bench, also one    *)
(* that shares its group and one that wanted the channel itself; not so    *)
(* when he took a channel away from a running bench before.                *)
ToolKeepsChannel ==
  ~meddled => \A i \in toolOn : ctl[i] = "tool" /\ i \in status /\ GroupOf[i] \in busy

(* After a stop at most one more pulse command is given, wherever in the   *)
(* plan it arrives: the one that the worker had already decided on, between*)
(* its reading of the flag and set_pulse (servo_bench.c:53, 61).           *)
StopIsPrompt == stop_requested /\ running => seq <= stoppedAt + 1

(* A run ends by itself, also when the thread could not be started.        *)
RunEnds == running ~> ~running
=============================================================================
