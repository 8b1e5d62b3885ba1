------------------------- MODULE RtServoBenchProofs -------------------------
(***************************************************************************)
(* Proofs about RtServoBench for any number of servos, repetitions, steps  *)
(* and threads.  At most one thread is at work (OneWorker), so everything  *)
(* the bench has of the driver and of the pads is in the locals of that    *)
(* thread: which channels it holds, which of them may carry its pulse and  *)
(* which pads it has connected is a function of its control point and of   *)
(* its loop counter (Held, Driven, Connected).                             *)
(***************************************************************************)
EXTENDS RtServoBench, TLAPS

Taking == {"init", "mux", "first", "neutral"}
Planning == {"settle", "step", "pulse", "pause"}
Releasing == {"stop", "deinit"}

\* Channels of a worker that it has not given back.
Held(w) ==
  CASE w.pc \in Taking \cup Planning -> w.owned
    [] w.pc \in Releasing -> {j \in w.owned : j >= w.i}
    [] OTHER -> {}
\* Channels that may carry its pulse.
Driven(w) ==
  CASE w.pc = "mux" -> w.owned \ {w.i}
    [] w.pc = "deinit" -> {j \in w.owned : j > w.i}
    [] OTHER -> Held(w)
\* Pads that it may have left on a PWM.
Connected(w) ==
  CASE w.pc \in Taking \cup Planning \cup Releasing -> w.muxed
    [] w.pc = "restore" -> {j \in w.muxed : j >= w.i}
    [] OTHER -> {}

Active(t) == worker[t].pc # "none"
Locals == [pc : Points, i : Servos, rep : 1 .. Reps, s : 1 .. Steps,
           owned : SUBSET Servos, muxed : SUBSET Servos, failed : BOOLEAN]
\* TypeOK without the length of the plan.
Types ==
  /\ running \in BOOLEAN /\ stop_requested \in BOOLEAN
  /\ selected_mask \in Masks /\ seq \in Nat
  /\ saved \in [Servos -> {"none", "other"}]
  /\ worker \in [Threads -> Locals]
  /\ status \subseteq Servos /\ busy \subseteq {GroupOf[i] : i \in Servos}
  /\ ctl \in [Servos -> {"off", "servo", "tool"}]
  /\ pad \in [Servos -> {"other", "pwm"}]
  /\ toolOn \subseteq Servos /\ meddled \in BOOLEAN
  /\ stoppedAt \in Nat /\ starts \in 0 .. MaxStarts

\* running is set exactly while one thread is at work.
OneWorker ==
  /\ \A t, u \in Threads : Active(t) /\ Active(u) => t = u
  /\ running <=> \E t \in Threads : Active(t)
  /\ \A t \in Threads : ~Active(t) => worker[t] = Idle

\* How far the loops of a worker have come.
LoopOK(w) ==
  /\ w.pc \in Taking => \A j \in selected_mask : j < w.i => j \in w.owned
  /\ w.pc \in {"mux", "first", "neutral", "pulse"} => w.i \in w.owned
  /\ w.pc \in Planning => selected_mask \subseteq w.owned
  /\ w.pc \in {"init", "mux"} => \A j \in w.muxed : j < w.i
  /\ w.pc \in {"first", "neutral"} => \A j \in w.muxed : j <= w.i
  /\ w.pc = "deinit" => w.i \in w.owned

\* Servo pulses are the worker's, and so are the pads on a PWM; what it has
\* saved of a pad is never the PWM.
PulseOK(w) == \A j \in Servos : ctl[j] = "servo" => j \in Driven(w)
PadOK(w) ==
  /\ \A j \in Servos : pad[j] = "pwm" => j \in Connected(w)
  /\ \A j \in Connected(w) : saved[j] = "other"

\* The channels in use are the operator's, which generate his waveform, and
\* the worker's.
UseOK(w) ==
  ~meddled =>
    /\ status = toolOn \cup Held(w) /\ toolOn \cap Held(w) = {}
    /\ \A j \in toolOn : ctl[j] = "tool"

\* The pulses of the plan before the point a worker has reached.
Before(w) == ((w.rep - 1) * N + (w.i - 1)) * Steps + (w.s - 1)
PlanLength == N * (1 + Reps * Steps)
CountOK(w) ==
  /\ seq <= PlanLength
  /\ w.pc \in Taking \cup {"settle"} => w.rep = 1 /\ w.s = 1
  /\ w.pc \in Taking => seq <= w.i - 1
  /\ w.pc = "settle" => w.i = 1 /\ seq <= N
  /\ w.pc \in {"step", "pulse"} => seq <= N + Before(w)
  /\ w.pc = "pause" => seq <= N + Before(w) + 1

\* Each holds of the thread at work, and of nobody when none is.
LoopInv == \A t \in Threads : Active(t) => LoopOK(worker[t])
PulseInv == /\ \A t \in Threads : Active(t) => PulseOK(worker[t])
            /\ ~running => PulseOK(Idle)
PadInv == /\ \A t \in Threads : Active(t) => PadOK(worker[t])
          /\ ~running => PadOK(Idle)
UseInv == /\ \A t \in Threads : Active(t) => UseOK(worker[t])
          /\ ~running => UseOK(Idle)
CountInv == /\ \A t \in Threads : Active(t) => CountOK(worker[t])
            /\ ~running => CountOK(Idle)

\* The clock of a group is on while a channel of it is in use.
ClockInv == \A j \in status : GroupOf[j] \in busy
\* After a stop one pulse is given at most, and only by a worker that is
\* already between its test of the flag and the pulse.
Decided == {"neutral", "pulse"}
StopInv ==
  stop_requested =>
    /\ seq <= stoppedAt + 1
    /\ \A t \in Threads : worker[t].pc \in Decided => seq <= stoppedAt

IInv == /\ Types /\ OneWorker /\ LoopInv /\ PulseInv /\ PadInv /\ ClockInv
        /\ UseInv /\ StopInv /\ CountInv

-----------------------------------------------------------------------------
(***************************************************************************)
(* What the actions of a worker do to its locals w, seen from the outside: *)
(* v are the locals after the step.                                        *)
(***************************************************************************)
WorkerType == worker \in [Threads -> Locals]
Turns(t) == /\ worker' = [worker EXCEPT ![t] = worker'[t]]
            /\ worker[t] \in Locals /\ worker'[t] \in Locals
Keeps(w, v) == v.owned = w.owned /\ v.muxed = w.muxed
Stays(w, v) == v.rep = w.rep /\ v.s = w.s
\* A loop over the servos goes on at control point here or is over.
Loops(w, v, here, after) ==
  \/ w.i < N /\ v.i = w.i + 1 /\ v.pc = here
  \/ w.i = N /\ v.i = 1 /\ v.pc = after
CleansUp(v) == v.pc = "stop" /\ v.i = 1

LEMMA NextServoLoops ==
  ASSUME NEW w \in Locals, NEW after \in Points
  PROVE  LET v == NextServo(w, after)  IN
         v \in Locals /\ Keeps(w, v) /\ Stays(w, v) /\ Loops(w, v, w.pc, after)
<1>1. CASE w.i < N
  <2>1. w.i + 1 \in Servos
    BY <1>1, BenchAssumption DEF Locals, Servos
  <2> QED
    BY <1>1, <2>1 DEF NextServo, Locals, Keeps, Stays, Loops
<1>2. CASE ~(w.i < N)
  <2>1. w.i = N /\ 1 \in Servos
    BY <1>2, BenchAssumption DEF Locals, Servos
  <2> QED
    BY <1>2, <2>1 DEF NextServo, Locals, Keeps, Stays, Loops
<1> QED
  BY <1>1, <1>2

LEMMA CleanupCleans ==
  ASSUME NEW w \in Locals
  PROVE  /\ Cleanup(w) \in Locals /\ CleansUp(Cleanup(w))
         /\ Keeps(w, Cleanup(w)) /\ Stays(w, Cleanup(w))
         /\ Failed(w) \in Locals /\ CleansUp(Failed(w))
         /\ Keeps(w, Failed(w)) /\ Stays(w, Failed(w))
<1>1. 1 \in Servos
  BY BenchAssumption DEF Servos
<1> QED
  BY <1>1 DEF Cleanup, Failed, Locals, Points, CleansUp, Keeps, Stays

\* The next position of the plan.
Advances(w, v) ==
  \/ v.pc = "step" /\ v.s = 1 /\ w.i < N /\ v.i = w.i + 1 /\ v.rep = w.rep
  \/ v.pc = "step" /\ v.s = 1 /\ w.i = N /\ v.i = 1 /\ v.rep = w.rep + 1
  \/ CleansUp(v)

LEMMA AdvanceAdvances ==
  ASSUME NEW w \in Locals
  PROVE  /\ Advance(w) \in Locals /\ Keeps(w, Advance(w))
         /\ Advances(w, Advance(w))
<1> DEFINE w1 == [w EXCEPT !.s = 1, !.pc = "step"]
<1>1. w1 \in Locals /\ Keeps(w, w1) /\ w1.i = w.i /\ w1.rep = w.rep
  <2>1. 1 \in 1 .. Steps
    BY BenchAssumption
  <2> QED
    BY <2>1 DEF Locals, Points, Keeps
<1>2. w1.pc = "step" /\ w1.s = 1
  BY DEF Locals
<1>3. CASE w.i < N
  <2>1. Advance(w) = [w1 EXCEPT !.i = w.i + 1]
    BY <1>1, <1>3, BenchAssumption DEF Advance, Locals, Servos
  <2>2. w.i + 1 \in Servos
    BY <1>3, BenchAssumption DEF Locals, Servos
  <2> QED
    BY <1>1, <1>2, <1>3, <2>1, <2>2 DEF Locals, Keeps, Advances
<1>4. CASE w.i = N /\ w.rep < Reps
  <2>1. Advance(w) = [w1 EXCEPT !.i = 1, !.rep = w.rep + 1]
    BY <1>1, <1>4, BenchAssumption DEF Advance, Locals, Servos
  <2>2. 1 \in Servos /\ w.rep + 1 \in 1 .. Reps
    BY <1>4, BenchAssumption DEF Locals, Servos
  <2> QED
    BY <1>1, <1>2, <1>4, <2>1, <2>2 DEF Locals, Keeps, Advances
<1>5. CASE ~(w.i < N) /\ ~(w.i = N /\ w.rep < Reps)
  <2>1. Advance(w) = Cleanup(w1)
    BY <1>5 DEF Advance
  <2> QED
    BY <1>1, <2>1, CleanupCleans DEF Keeps, Advances
<1> QED
  BY <1>3, <1>4, <1>5

LEMMA InitServoDoes ==
  ASSUME WorkerType, NEW t \in Threads, InitServo(t)
  PROVE  LET w == worker[t]  v == worker'[t]  IN
         /\ Turns(t) /\ w.pc = "init" /\ v.muxed = w.muxed /\ Stays(w, v)
         /\ UNCHANGED <<statics, saved, pad, ghosts>>
         /\ \/ /\ UNCHANGED driver /\ v.owned = w.owned
               /\ CleansUp(v) \/ (w.i \notin selected_mask
                                  /\ Loops(w, v, "init", "settle"))
            \/ /\ w.i \in selected_mask /\ w.i \notin status
               /\ v.pc = "mux" /\ v.i = w.i /\ v.owned = w.owned \cup {w.i}
               /\ Opened(w.i) /\ ctl' = [ctl EXCEPT ![w.i] = "off"]
<1> DEFINE w == worker[t]
           taken == [w EXCEPT !.owned = w.owned \cup {w.i}, !.pc = "mux"]
<1>1. w \in Locals /\ "settle" \in Points
  BY DEF WorkerType, Points
<1>2. taken \in Locals
  BY <1>1 DEF Locals, Points
<1>3. CASE stop_requested \/ w.i \notin selected_mask
  <2>1. CASE stop_requested
    <3>1. Moves(t, Cleanup(w)) /\ UNCHANGED driver
      BY <1>3, <2>1 DEF InitServo
    <3> QED
      BY <1>1, <3>1, CleanupCleans DEF Moves, Turns, WorkerType, InitServo,
         At, Keeps
  <2>2. CASE ~stop_requested
    <3>1. Moves(t, NextServo(w, "settle")) /\ UNCHANGED driver
      BY <1>3, <2>2 DEF InitServo
    <3> QED
      BY <1>1, <1>3, <2>2, <3>1, NextServoLoops
         DEF Moves, Turns, WorkerType, InitServo, At, Keeps
  <2> QED
    BY <2>1, <2>2
<1>4. CASE ~(stop_requested \/ w.i \notin selected_mask) /\ CanInit(w.i)
  <2>1. Moves(t, taken) /\ Opened(w.i) /\ ctl' = [ctl EXCEPT ![w.i] = "off"]
    BY <1>4 DEF InitServo
  <2> QED
    BY <1>1, <1>2, <1>4, <2>1
       DEF Moves, Turns, WorkerType, InitServo, At, Stays, CanInit, Locals
<1>5. CASE ~(stop_requested \/ w.i \notin selected_mask) /\ ~CanInit(w.i)
  <2>1. Moves(t, Failed(w)) /\ UNCHANGED driver
    BY <1>5 DEF InitServo
  <2> QED
    BY <1>1, <2>1, CleanupCleans DEF Moves, Turns, WorkerType, InitServo, At,
       Keeps
<1> QED
  BY <1>3, <1>4, <1>5

LEMMA MuxPadDoes ==
  ASSUME WorkerType, NEW t \in Threads, MuxPad(t)
  PROVE  LET w == worker[t]  v == worker'[t]  IN
         /\ Turns(t) /\ w.pc = "mux" /\ v.pc = "first" /\ v.i = w.i
         /\ v.owned = w.owned /\ v.muxed = w.muxed \cup {w.i} /\ Stays(w, v)
         /\ saved' = [saved EXCEPT ![w.i] = pad[w.i]]
         /\ pad' = [pad EXCEPT ![w.i] = "pwm"]
         /\ UNCHANGED <<statics, driver, ghosts>>
<1> DEFINE w == worker[t]
           v == [w EXCEPT !.muxed = w.muxed \cup {w.i}, !.pc = "first"]
<1>1. w \in Locals
  BY DEF WorkerType
<1>2. /\ v \in Locals /\ v.pc = "first" /\ v.i = w.i /\ v.owned = w.owned
      /\ v.muxed = w.muxed \cup {w.i} /\ Stays(w, v)
  BY <1>1 DEF Locals, Points, Stays
<1>3. worker' = [worker EXCEPT ![t] = v]
  BY DEF MuxPad, Moves
<1> QED
  BY <1>1, <1>2, <1>3 DEF MuxPad, WorkerType, At, Turns

Still == UNCHANGED <<statics, saved, driver, pad, ghosts>>

LEMMA HeedStopDoes ==
  ASSUME WorkerType, NEW t \in Threads, HeedStop(t)
  PROVE  LET w == worker[t]  v == worker'[t]  IN
         /\ Turns(t) /\ w.pc = "first" /\ Keeps(w, v) /\ Stays(w, v) /\ Still
         /\ CleansUp(v) \/ (~stop_requested /\ v.pc = "neutral" /\ v.i = w.i)
<1> DEFINE w == worker[t]
           v == [w EXCEPT !.pc = "neutral"]
<1>1. w \in Locals
  BY DEF WorkerType
<1>2. /\ v \in Locals /\ Keeps(w, v) /\ Stays(w, v) /\ v.i = w.i
      /\ v.pc = "neutral"
  BY <1>1 DEF Locals, Points, Keeps, Stays
<1>3. CASE stop_requested
  BY <1>1, <1>3, CleanupCleans DEF HeedStop, Moves, Turns, WorkerType, At,
     Still
<1>4. CASE ~stop_requested
  BY <1>1, <1>2, <1>4 DEF HeedStop, Moves, Turns, WorkerType, At, Still
<1> QED
  BY <1>3, <1>4

LEMMA FirstPulseDoes ==
  ASSUME WorkerType, NEW t \in Threads, FirstPulse(t)
  PROVE  LET w == worker[t]  v == worker'[t]  IN
         /\ Turns(t) /\ w.pc = "neutral" /\ Keeps(w, v) /\ Stays(w, v)
         /\ SetPulse(w.i) /\ (CleansUp(v) \/ Loops(w, v, "init", "settle"))
<1> DEFINE w == worker[t]
           w1 == [w EXCEPT !.pc = "init"]
<1>1. w \in Locals /\ "settle" \in Points
  BY DEF WorkerType, Points
<1>2. w1 \in Locals /\ Keeps(w, w1) /\ Stays(w, w1) /\ w1.i = w.i /\ w1.pc = "init"
  BY <1>1 DEF Locals, Points, Keeps, Stays
<1>3. CASE w.i \in status
  <2>1. Moves(t, NextServo(w1, "settle"))
    BY <1>3 DEF FirstPulse
  <2> DEFINE v == NextServo(w1, "settle")
  <2>2. v \in Locals /\ Keeps(w1, v) /\ Stays(w1, v) /\ Loops(w1, v, "init", "settle")
    BY <1>1, <1>2, NextServoLoops
  <2>3. Keeps(w, v) /\ Stays(w, v) /\ Loops(w, v, "init", "settle")
    BY <1>2, <2>2 DEF Keeps, Stays, Loops
  <2> QED
    BY <1>1, <2>1, <2>2, <2>3 DEF FirstPulse, Moves, Turns, WorkerType, At
<1>4. CASE w.i \notin status
  <2>1. Moves(t, Failed(w))
    BY <1>4 DEF FirstPulse
  <2> QED
    BY <1>1, <2>1, CleanupCleans DEF FirstPulse, Moves, Turns, WorkerType, At
<1> QED
  BY <1>3, <1>4

LEMMA SettleDoes ==
  ASSUME WorkerType, NEW t \in Threads, Settle(t)
  PROVE  LET w == worker[t]  v == worker'[t]  IN
         /\ Turns(t) /\ w.pc = "settle" /\ v.pc = "step" /\ v.i = w.i
         /\ Keeps(w, v) /\ Stays(w, v) /\ Still
BY DEF Settle, WorkerType, At, Moves, Turns, Locals, Points, Keeps, Stays,
   Still

LEMMA StepDoes ==
  ASSUME WorkerType, NEW t \in Threads, Step(t)
  PROVE  LET w == worker[t]  v == worker'[t]  IN
         /\ Turns(t) /\ w.pc = "step" /\ Keeps(w, v) /\ Still
         /\ \/ Advances(w, v)
            \/ /\ ~stop_requested /\ w.i \in selected_mask
               /\ v.pc = "pulse" /\ v.i = w.i /\ Stays(w, v)
<1> DEFINE w == worker[t]
           v == [w EXCEPT !.pc = "pulse"]
<1>1. w \in Locals
  BY DEF WorkerType
<1>2. CASE stop_requested
  BY <1>1, <1>2, CleanupCleans
     DEF Step, Moves, Turns, WorkerType, At, Still, Advances
<1>3. CASE ~stop_requested /\ w.i \notin selected_mask
  BY <1>1, <1>3, AdvanceAdvances DEF Step, Moves, Turns, WorkerType, At, Still
<1>4. CASE ~stop_requested /\ w.i \in selected_mask
  <2>1. /\ v \in Locals /\ Keeps(w, v) /\ Stays(w, v) /\ v.i = w.i
        /\ v.pc = "pulse"
    BY <1>1 DEF Locals, Points, Keeps, Stays
  <2> QED
    BY <1>1, <1>4, <2>1 DEF Step, Moves, Turns, WorkerType, At, Still
<1> QED
  BY <1>2, <1>3, <1>4

LEMMA StepPulseDoes ==
  ASSUME WorkerType, NEW t \in Threads, StepPulse(t)
  PROVE  LET w == worker[t]  v == worker'[t]  IN
         /\ Turns(t) /\ w.pc = "pulse" /\ Keeps(w, v) /\ Stays(w, v)
         /\ SetPulse(w.i) /\ (CleansUp(v) \/ (v.pc = "pause" /\ v.i = w.i))
<1> DEFINE w == worker[t]
           v == [w EXCEPT !.pc = "pause"]
<1>1. w \in Locals
  BY DEF WorkerType
<1>2. CASE w.i \in status
  <2>1. /\ v \in Locals /\ Keeps(w, v) /\ Stays(w, v) /\ v.i = w.i
        /\ v.pc = "pause"
    BY <1>1 DEF Locals, Points, Keeps, Stays
  <2> QED
    BY <1>1, <1>2, <2>1 DEF StepPulse, Moves, Turns, WorkerType, At
<1>3. CASE w.i \notin status
  BY <1>1, <1>3, CleanupCleans DEF StepPulse, Moves, Turns, WorkerType, At
<1> QED
  BY <1>2, <1>3

LEMMA PauseDoes ==
  ASSUME WorkerType, NEW t \in Threads, Pause(t)
  PROVE  LET w == worker[t]  v == worker'[t]  IN
         /\ Turns(t) /\ w.pc = "pause" /\ Keeps(w, v) /\ Still
         /\ \/ v.pc = "step" /\ v.i = w.i /\ v.rep = w.rep /\ v.s = w.s + 1
            \/ w.s = Steps /\ Advances(w, v)
<1> DEFINE w == worker[t]
<1>1. w \in Locals
  BY DEF WorkerType
<1>2. CASE w.s < Steps
  <2>1. Moves(t, [w EXCEPT !.pc = "step", !.s = w.s + 1])
    BY <1>2 DEF Pause
  <2>2. w.s + 1 \in 1 .. Steps
    BY <1>1, <1>2, BenchAssumption DEF Locals
  <2> DEFINE v == [w EXCEPT !.pc = "step", !.s = w.s + 1]
  <2>3. /\ v \in Locals /\ Keeps(w, v) /\ v.pc = "step" /\ v.i = w.i
        /\ v.rep = w.rep /\ v.s = w.s + 1
    BY <1>1, <2>2 DEF Locals, Points, Keeps
  <2> QED
    BY <1>1, <2>1, <2>3 DEF Pause, Moves, Turns, WorkerType, At, Still
<1>3. CASE ~(w.s < Steps)
  <2>1. w.s = Steps
    BY <1>1, <1>3, BenchAssumption DEF Locals
  <2> QED
    BY <1>1, <1>3, <2>1, AdvanceAdvances
       DEF Pause, Moves, Turns, WorkerType, At, Still
<1> QED
  BY <1>2, <1>3

LEMMA StopServoDoes ==
  ASSUME WorkerType, NEW t \in Threads, StopServo(t)
  PROVE  LET w == worker[t]  v == worker'[t]  IN
         /\ Turns(t) /\ w.pc = "stop" /\ Keeps(w, v) /\ Stays(w, v)
         /\ UNCHANGED <<statics, saved, status, busy, pad, ghosts>>
         /\ \/ /\ w.i \in w.owned /\ ctl' = [ctl EXCEPT ![w.i] = "off"]
               /\ v.pc = "deinit" /\ v.i = w.i
            \/ /\ w.i \notin w.owned /\ UNCHANGED ctl
               /\ Loops(w, v, "stop", "restore")
<1> DEFINE w == worker[t]
<1>1. w \in Locals /\ "restore" \in Points
  BY DEF WorkerType, Points
<1>2. CASE w.i \in w.owned
  BY <1>1, <1>2
     DEF StopServo, Moves, Turns, WorkerType, At, Keeps, Stays, Locals, Points
<1>3. CASE w.i \notin w.owned
  BY <1>1, <1>3, NextServoLoops DEF StopServo, Moves, Turns, WorkerType, At
<1> QED
  BY <1>2, <1>3

LEMMA DeinitServoDoes ==
  ASSUME WorkerType, NEW t \in Threads, DeinitServo(t)
  PROVE  LET w == worker[t]  v == worker'[t]  IN
         /\ Turns(t) /\ w.pc = "deinit" /\ Keeps(w, v) /\ Stays(w, v)
         /\ Deinit(w.i) /\ Loops(w, v, "stop", "restore")
         /\ UNCHANGED <<statics, saved, ctl, pad, ghosts>>
<1> DEFINE w == worker[t]
           w1 == [w EXCEPT !.pc = "stop"]
<1>1. w \in Locals /\ "restore" \in Points
  BY DEF WorkerType, Points
<1>2. w1 \in Locals /\ Keeps(w, w1) /\ Stays(w, w1) /\ w1.i = w.i /\ w1.pc = "stop"
  BY <1>1 DEF Locals, Points, Keeps, Stays
<1> DEFINE v == NextServo(w1, "restore")
<1>3. v \in Locals /\ Keeps(w1, v) /\ Stays(w1, v) /\ Loops(w1, v, "stop", "restore")
  BY <1>1, <1>2, NextServoLoops
<1>4. Keeps(w, v) /\ Stays(w, v) /\ Loops(w, v, "stop", "restore")
  BY <1>2, <1>3 DEF Keeps, Stays, Loops
<1> QED
  BY <1>1, <1>3, <1>4 DEF DeinitServo, Moves, Turns, WorkerType, At

LEMMA RestorePadDoes ==
  ASSUME WorkerType, NEW t \in Threads, RestorePad(t)
  PROVE  LET w == worker[t]  v == worker'[t]  IN
         /\ Turns(t) /\ w.pc = "restore" /\ Keeps(w, v) /\ Stays(w, v)
         /\ pad' = IF w.i \in w.muxed THEN [pad EXCEPT ![w.i] = saved[w.i]]
                                      ELSE pad
         /\ Loops(w, v, "restore", "end")
         /\ UNCHANGED <<statics, saved, driver, ghosts>>
<1>1. worker[t] \in Locals /\ "end" \in Points
  BY DEF WorkerType, Points
<1> QED
  BY <1>1, NextServoLoops DEF RestorePad, Moves, Turns, WorkerType, At

LEMMA FinishDoes ==
  ASSUME WorkerType, NEW t \in Threads, Finish(t)
  PROVE  LET w == worker[t]  IN
         /\ Turns(t) /\ w.pc = "end" /\ worker'[t] = Idle /\ running' = FALSE
         /\ UNCHANGED <<stop_requested, selected_mask, seq, saved, driver, pad,
                        ghosts>>
<1>1. Idle \in Locals
  BY BenchAssumption DEF Idle, Locals, Servos, Points
<1> QED
  BY <1>1 DEF Finish, Moves, Turns, WorkerType, At

Starts(t, mask) == \E started \in BOOLEAN : Start(t, mask, started)
LEMMA StartDoes ==
  ASSUME WorkerType, NEW t \in Threads, NEW mask \in Masks, Starts(t, mask)
  PROVE  LET v == worker'[t]  IN
         /\ ~running /\ worker[t].pc = "none"
         /\ selected_mask' = mask /\ ~stop_requested' /\ seq' = 0
         /\ starts' = starts + 1 /\ starts < MaxStarts
         /\ UNCHANGED <<saved, driver, pad, toolOn, meddled, stoppedAt>>
         /\ \/ ~running' /\ worker' = worker
            \/ /\ running' /\ Turns(t)
               /\ v.pc = "init" /\ v.i = 1 /\ v.rep = 1
               /\ v.s = 1 /\ v.owned = {} /\ v.muxed = {}
<1> DEFINE v == [Idle EXCEPT !.pc = "init"]
<1>1. /\ v \in Locals /\ v.pc = "init" /\ v.i = 1 /\ v.rep = 1 /\ v.s = 1
      /\ v.owned = {} /\ v.muxed = {}
  <2>1. 1 \in Servos /\ 1 \in 1 .. Reps /\ 1 \in 1 .. Steps
    BY BenchAssumption DEF Servos
  <2> QED
    BY <2>1 DEF Idle, Locals, Points
<1>2. \/ ~running' /\ worker' = worker
      \/ running' /\ worker' = [worker EXCEPT ![t] = v]
  BY DEF Starts, Start, Launch
<1>3. worker' = [worker EXCEPT ![t] = v] => Turns(t) /\ worker'[t] = v
  BY <1>1 DEF Turns, WorkerType
<1> QED
  BY <1>1, <1>2, <1>3 DEF Starts, Start

(* The sets of a worker at each control point.                             *)
LEMMA DrivenAt ==
  ASSUME NEW w \in Locals
  PROVE  /\ w.pc \in {"init", "first", "neutral"} \cup Planning => Driven(w) = w.owned
         /\ w.pc = "mux" => Driven(w) = w.owned \ {w.i}
         /\ w.pc = "stop" => Driven(w) = {j \in w.owned : j >= w.i}
         /\ CleansUp(w) => Driven(w) = w.owned
         /\ w.pc = "deinit" => Driven(w) = {j \in w.owned : j > w.i}
         /\ w.pc \in {"restore", "end", "none"} => Driven(w) = {}
<1>1. \A j \in w.owned : j >= 1
  BY DEF Locals, Servos
<1>2. CleansUp(w) => {j \in w.owned : j >= w.i} = w.owned
  BY <1>1 DEF CleansUp
<1> QED
  BY <1>2 DEF Driven, Held, Taking, Planning, Releasing, CleansUp

LEMMA HeldAt ==
  ASSUME NEW w \in Locals
  PROVE  /\ w.pc \in Taking \cup Planning => Held(w) = w.owned
         /\ w.pc \in Releasing => Held(w) = {j \in w.owned : j >= w.i}
         /\ CleansUp(w) => Held(w) = w.owned
         /\ w.pc \in {"restore", "end", "none"} => Held(w) = {}
<1>1. \A j \in w.owned : j >= 1
  BY DEF Locals, Servos
<1>2. CleansUp(w) => {j \in w.owned : j >= w.i} = w.owned
  BY <1>1 DEF CleansUp
<1> QED
  BY <1>2 DEF Held, Taking, Planning, Releasing, CleansUp

LEMMA ConnectedAt ==
  ASSUME NEW w \in Locals
  PROVE  /\ w.pc \in Taking \cup Planning \cup Releasing
              => Connected(w) = w.muxed
         /\ w.pc = "restore" => Connected(w) = {j \in w.muxed : j >= w.i}
         /\ w.pc = "restore" /\ w.i = 1 => Connected(w) = w.muxed
         /\ w.pc \in {"end", "none"} => Connected(w) = {}
<1>1. \A j \in w.muxed : j >= 1
  BY DEF Locals, Servos
<1>2. w.i = 1 => {j \in w.muxed : j >= w.i} = w.muxed
  BY <1>1
<1> QED
  BY <1>2 DEF Connected, Taking, Planning, Releasing

(* A pad is never found on its PWM by the worker that connects it, and gets *)
(* a value that is not the PWM back.                                       *)
LEMMA PadsFound ==
  ASSUME IInv, NEW t \in Threads
  PROVE  /\ MuxPad(t) => pad[worker[t].i] = "other"
         /\ RestorePad(t) /\ worker[t].i \in worker[t].muxed
              => saved[worker[t].i] = "other"
<1> DEFINE w == worker[t]
<1>1. w \in Locals /\ w.i \in Servos
  BY DEF IInv, Types, Locals
<1>2. ASSUME MuxPad(t), pad[w.i] # "other"
      PROVE FALSE
  <2>1. w.pc = "mux" /\ pad[w.i] = "pwm"
    BY <1>1, <1>2, MuxPadDoes DEF IInv, Types, WorkerType
  <2>2. PadOK(w)
    BY <2>1 DEF IInv, PadInv, Active
  <2>3. w.i \in w.muxed
    BY <1>1, <2>1, <2>2 DEF PadOK, Connected, Taking
  <2> QED
    BY <1>1, <2>1, <2>3 DEF IInv, LoopInv, LoopOK, Active, Locals, Servos
<1>3. ASSUME RestorePad(t), w.i \in w.muxed
      PROVE saved[w.i] = "other"
  <2>1. w.pc = "restore"
    BY <1>3, RestorePadDoes DEF IInv, Types, WorkerType
  <2>2. w.i \in Connected(w)
    BY <1>1, <1>3, <2>1 DEF Connected, Taking, Planning, Releasing, Servos
  <2> QED
    BY <2>1, <2>2 DEF IInv, PadInv, PadOK, Active
<1> QED
  BY <1>2, <1>3

(* Types; a pad never gets a value it did not have (PadsFound). *)
LEMMA TypesStep == IInv /\ [Next]_vars => Types'
<1> SUFFICES ASSUME IInv, [Next]_vars PROVE Types'
  OBVIOUS
<1> USE DEF IInv, Types, WorkerType, statics, driver, ghosts
<1>1. ASSUME NEW t \in Threads, NEW mask \in Masks, Starts(t, mask)
      PROVE Types'
  <2>1. starts' \in 0 .. MaxStarts
    BY <1>1, StartDoes, BenchAssumption
  <2>2. worker' \in [Threads -> Locals]
    BY <1>1, StartDoes DEF Turns
  <2>3. running' \in BOOLEAN /\ stop_requested' \in BOOLEAN
    BY <1>1 DEF Starts, Start, Launch
  <2> QED
    BY <1>1, <2>1, <2>2, <2>3, StartDoes
<1>2. CASE Stop
  BY <1>2 DEF Stop
<1>3. ASSUME NEW i \in Servos, ToolOn(i)
      PROVE Types'
  BY <1>3 DEF ToolOn, Opened, CanInit
<1>4. ASSUME NEW i \in Servos, ToolOff(i)
      PROVE Types'
  BY <1>4 DEF ToolOff, Deinit
<1>5. ASSUME NEW t \in Threads, InitServo(t)
      PROVE Types'
  <2>1. worker[t].i \in Servos /\ worker' \in [Threads -> Locals]
    BY <1>5, InitServoDoes DEF Turns, Locals
  <2>2. status' \subseteq Servos /\ busy' \subseteq {GroupOf[i] : i \in Servos}
    BY <1>5, <2>1, InitServoDoes DEF Opened
  <2>3. ctl' \in [Servos -> {"off", "servo", "tool"}]
    BY <1>5, <2>1, InitServoDoes
  <2> QED
    BY <1>5, <2>1, <2>2, <2>3, InitServoDoes
<1>6. ASSUME NEW t \in Threads, MuxPad(t)
      PROVE Types'
  <2>1. pad[worker[t].i] = "other" /\ worker[t].i \in Servos
    BY <1>6, PadsFound DEF Locals
  <2> QED
    BY <1>6, <2>1, MuxPadDoes DEF Turns
<1>7. ASSUME NEW t \in Threads, FirstPulse(t)
      PROVE Types'
  BY <1>7, FirstPulseDoes DEF Turns, Keeps, Stays, Loops, CleansUp,
     SetPulse
<1>8. ASSUME NEW t \in Threads, Settle(t)
      PROVE Types'
  BY <1>8, SettleDoes DEF Turns, Keeps, Stays, Still
<1>9. ASSUME NEW t \in Threads, Step(t)
      PROVE Types'
  BY <1>9, StepDoes DEF Turns, Keeps, Stays, Still, Advances, CleansUp
<1>10. ASSUME NEW t \in Threads, Pause(t)
      PROVE Types'
  BY <1>10, PauseDoes DEF Turns, Keeps, Still, Advances, CleansUp
<1>11. ASSUME NEW t \in Threads, StopServo(t)
      PROVE Types'
  BY <1>11, StopServoDoes DEF Turns, Keeps, Stays, Loops
<1>12. ASSUME NEW t \in Threads, DeinitServo(t)
      PROVE Types'
  BY <1>12, DeinitServoDoes DEF Turns, Keeps, Stays, Loops, Deinit
<1>13. ASSUME NEW t \in Threads, RestorePad(t)
      PROVE Types'
  <2>1. worker[t].i \in worker[t].muxed => saved[worker[t].i] = "other"
    BY <1>13, PadsFound
  <2> QED
    BY <1>13, <2>1, RestorePadDoes DEF Turns
<1>14. ASSUME NEW t \in Threads, Finish(t)
      PROVE Types'
  BY <1>14, FinishDoes DEF Turns, Idle
<1>15. CASE UNCHANGED vars
  BY <1>15 DEF vars
<1>16. ASSUME NEW t \in Threads, HeedStop(t)
      PROVE Types'
  BY <1>16, HeedStopDoes DEF Turns, Keeps, Stays, CleansUp, Still
<1>17. ASSUME NEW t \in Threads, StepPulse(t)
      PROVE Types'
  BY <1>17, StepPulseDoes DEF Turns, Keeps, Stays, CleansUp, SetPulse
<1> QED
  BY <1>1, <1>2, <1>3, <1>4, <1>5, <1>6, <1>7, <1>8, <1>9, <1>10, <1>11,
     <1>12, <1>13, <1>14, <1>15, <1>16, <1>17 DEF Next, Worker, Starts

(* start is refused while running is set, and only the end clears it. *)
LEMMA OneWorkerStep == IInv /\ [Next]_vars => OneWorker'
<1> SUFFICES ASSUME IInv, [Next]_vars PROVE OneWorker'
  OBVIOUS
<1> USE DEF IInv, Types, OneWorker, Active, WorkerType, statics, driver,
       ghosts
<1>1. ASSUME NEW t \in Threads, NEW mask \in Masks, Starts(t, mask)
      PROVE OneWorker'
  BY <1>1, StartDoes DEF Turns
<1>2. CASE Stop
  BY <1>2 DEF Stop
<1>3. ASSUME NEW i \in Servos, ToolOn(i)
      PROVE OneWorker'
  BY <1>3 DEF ToolOn, Opened, CanInit
<1>4. ASSUME NEW i \in Servos, ToolOff(i)
      PROVE OneWorker'
  BY <1>4 DEF ToolOff, Deinit
<1>5. ASSUME NEW t \in Threads, InitServo(t)
      PROVE OneWorker'
  BY <1>5, InitServoDoes DEF Turns, Keeps, Stays, Loops, CleansUp, Opened
<1>6. ASSUME NEW t \in Threads, MuxPad(t)
      PROVE OneWorker'
  BY <1>6, MuxPadDoes DEF Turns, Stays
<1>7. ASSUME NEW t \in Threads, FirstPulse(t)
      PROVE OneWorker'
  BY <1>7, FirstPulseDoes DEF Turns, Keeps, Stays, Loops, CleansUp,
     SetPulse
<1>8. ASSUME NEW t \in Threads, Settle(t)
      PROVE OneWorker'
  BY <1>8, SettleDoes DEF Turns, Keeps, Stays, Still
<1>9. ASSUME NEW t \in Threads, Step(t)
      PROVE OneWorker'
  BY <1>9, StepDoes DEF Turns, Keeps, Stays, Still, Advances, CleansUp
<1>10. ASSUME NEW t \in Threads, Pause(t)
      PROVE OneWorker'
  BY <1>10, PauseDoes DEF Turns, Keeps, Still, Advances, CleansUp
<1>11. ASSUME NEW t \in Threads, StopServo(t)
      PROVE OneWorker'
  BY <1>11, StopServoDoes DEF Turns, Keeps, Stays, Loops
<1>12. ASSUME NEW t \in Threads, DeinitServo(t)
      PROVE OneWorker'
  BY <1>12, DeinitServoDoes DEF Turns, Keeps, Stays, Loops, Deinit
<1>13. ASSUME NEW t \in Threads, RestorePad(t)
      PROVE OneWorker'
  BY <1>13, RestorePadDoes DEF Turns, Keeps, Stays, Loops
<1>14. ASSUME NEW t \in Threads, Finish(t)
      PROVE OneWorker'
  <2>3. Active(t) /\ worker' = [worker EXCEPT ![t] = Idle]
    BY <1>14, FinishDoes DEF Turns
  <2>1. \A u \in Threads : worker'[u] = Idle
    BY <1>14, <2>3
  <2>2. Idle.pc = "none"
    BY DEF Idle
  <2> QED
    BY <1>14, <2>1, <2>2, FinishDoes
<1>15. CASE UNCHANGED vars
  BY <1>15 DEF vars
<1>16. ASSUME NEW t \in Threads, HeedStop(t)
      PROVE OneWorker'
  BY <1>16, HeedStopDoes DEF Turns, Keeps, Stays, CleansUp, Still
<1>17. ASSUME NEW t \in Threads, StepPulse(t)
      PROVE OneWorker'
  BY <1>17, StepPulseDoes DEF Turns, Keeps, Stays, CleansUp, SetPulse
<1> QED
  BY <1>1, <1>2, <1>3, <1>4, <1>5, <1>6, <1>7, <1>8, <1>9, <1>10, <1>11,
     <1>12, <1>13, <1>14, <1>15, <1>16, <1>17 DEF Next, Worker, Starts

(* A pulse is decided on only while no stop is requested. *)
LEMMA StopInvStep == IInv /\ [Next]_vars => StopInv'
<1> SUFFICES ASSUME IInv, [Next]_vars PROVE StopInv'
  OBVIOUS
<1> USE DEF IInv, Types, StopInv, Decided, WorkerType, statics, driver, ghosts
<1>1. ASSUME NEW t \in Threads, NEW mask \in Masks, Starts(t, mask)
      PROVE StopInv'
  BY <1>1, StartDoes DEF Turns
<1>2. CASE Stop
  BY <1>2 DEF Stop
<1>3. ASSUME NEW i \in Servos, ToolOn(i)
      PROVE StopInv'
  BY <1>3 DEF ToolOn, Opened, CanInit
<1>4. ASSUME NEW i \in Servos, ToolOff(i)
      PROVE StopInv'
  BY <1>4 DEF ToolOff, Deinit
<1>5. ASSUME NEW t \in Threads, InitServo(t)
      PROVE StopInv'
  BY <1>5, InitServoDoes DEF Turns, Keeps, Stays, Loops, CleansUp, Opened
<1>6. ASSUME NEW t \in Threads, MuxPad(t)
      PROVE StopInv'
  <2>1. UNCHANGED <<stop_requested, seq, stoppedAt>> /\ worker'[t].pc \notin Decided
    BY <1>6, MuxPadDoes
  <2> QED
    BY <1>6, <2>1, MuxPadDoes DEF Turns
<1>7. ASSUME NEW t \in Threads, FirstPulse(t)
      PROVE StopInv'
  <2>1. worker[t].pc \in Decided /\ worker'[t].pc \notin Decided
    BY <1>7, FirstPulseDoes DEF Loops, CleansUp
  <2>2. ASSUME NEW u \in Threads PROVE worker'[u].pc \notin Decided
    BY <1>7, <2>1, FirstPulseDoes DEF OneWorker, Active, Turns
  <2>3. /\ seq' = seq + 1 /\ seq \in Nat /\ stoppedAt \in Nat
        /\ UNCHANGED <<stop_requested, stoppedAt>>
    BY <1>7, FirstPulseDoes DEF SetPulse
  <2> QED
    BY <2>1, <2>2, <2>3 DEF StopInv
<1>8. ASSUME NEW t \in Threads, Settle(t)
      PROVE StopInv'
  BY <1>8, SettleDoes DEF Turns, Keeps, Stays, Still
<1>9. ASSUME NEW t \in Threads, Step(t)
      PROVE StopInv'
  BY <1>9, StepDoes DEF Turns, Keeps, Stays, Still, Advances, CleansUp
<1>10. ASSUME NEW t \in Threads, Pause(t)
      PROVE StopInv'
  BY <1>10, PauseDoes DEF Turns, Keeps, Still, Advances, CleansUp
<1>11. ASSUME NEW t \in Threads, StopServo(t)
      PROVE StopInv'
  BY <1>11, StopServoDoes DEF Turns, Keeps, Stays, Loops
<1>12. ASSUME NEW t \in Threads, DeinitServo(t)
      PROVE StopInv'
  BY <1>12, DeinitServoDoes DEF Turns, Keeps, Stays, Loops, Deinit
<1>13. ASSUME NEW t \in Threads, RestorePad(t)
      PROVE StopInv'
  BY <1>13, RestorePadDoes DEF Turns, Keeps, Stays, Loops
<1>14. ASSUME NEW t \in Threads, Finish(t)
      PROVE StopInv'
  <2>1. Idle.pc \notin Decided
    BY DEF Idle
  <2> QED
    BY <1>14, <2>1, FinishDoes DEF Turns
<1>15. CASE UNCHANGED vars
  BY <1>15 DEF vars
<1>16. ASSUME NEW t \in Threads, HeedStop(t)
      PROVE StopInv'
  BY <1>16, HeedStopDoes DEF Turns, Keeps, Stays, CleansUp, Still
<1>17. ASSUME NEW t \in Threads, StepPulse(t)
      PROVE StopInv'
  <2>1. worker[t].pc \in Decided /\ worker'[t].pc \notin Decided
    BY <1>17, StepPulseDoes DEF CleansUp
  <2>2. ASSUME NEW u \in Threads PROVE worker'[u].pc \notin Decided
    BY <1>17, <2>1, StepPulseDoes DEF OneWorker, Active, Turns
  <2>3. /\ seq' = seq + 1 /\ seq \in Nat /\ stoppedAt \in Nat
        /\ UNCHANGED <<stop_requested, stoppedAt>>
    BY <1>17, StepPulseDoes DEF SetPulse
  <2> QED
    BY <2>1, <2>2, <2>3 DEF StopInv
<1> QED
  BY <1>1, <1>2, <1>3, <1>4, <1>5, <1>6, <1>7, <1>8, <1>9, <1>10, <1>11,
     <1>12, <1>13, <1>14, <1>15, <1>16, <1>17 DEF Next, Worker, Starts

(* pwm_deinit leaves the clock to the other channels of the group. *)
LEMMA ClockInvStep == IInv /\ [Next]_vars => ClockInv'
<1> SUFFICES ASSUME IInv, [Next]_vars PROVE ClockInv'
  OBVIOUS
<1> USE DEF IInv, Types, Locals, ClockInv, WorkerType, statics, driver,
       ghosts
<1>1. ASSUME NEW t \in Threads, NEW mask \in Masks, Starts(t, mask)
      PROVE ClockInv'
  BY <1>1 DEF Starts, Start
<1>2. CASE Stop
  BY <1>2 DEF Stop
<1>3. ASSUME NEW i \in Servos, ToolOn(i)
      PROVE ClockInv'
  BY <1>3 DEF ToolOn, Opened, CanInit
<1>4. ASSUME NEW i \in Servos, ToolOff(i)
      PROVE ClockInv'
  BY <1>4 DEF ToolOff, Deinit
<1>5. ASSUME NEW t \in Threads, InitServo(t)
      PROVE ClockInv'
  BY <1>5, InitServoDoes DEF Turns, Keeps, Stays, Loops, CleansUp, Opened
<1>6. ASSUME NEW t \in Threads, MuxPad(t)
      PROVE ClockInv'
  BY <1>6, MuxPadDoes DEF Turns, Stays
<1>7. ASSUME NEW t \in Threads, FirstPulse(t)
      PROVE ClockInv'
  BY <1>7, FirstPulseDoes DEF Turns, Keeps, Stays, Loops, CleansUp,
     SetPulse
<1>8. ASSUME NEW t \in Threads, Settle(t)
      PROVE ClockInv'
  BY <1>8, SettleDoes DEF Turns, Keeps, Stays, Still
<1>9. ASSUME NEW t \in Threads, Step(t)
      PROVE ClockInv'
  BY <1>9, StepDoes DEF Turns, Keeps, Stays, Still, Advances, CleansUp
<1>10. ASSUME NEW t \in Threads, Pause(t)
      PROVE ClockInv'
  BY <1>10, PauseDoes DEF Turns, Keeps, Still, Advances, CleansUp
<1>11. ASSUME NEW t \in Threads, StopServo(t)
      PROVE ClockInv'
  BY <1>11, StopServoDoes DEF Turns, Keeps, Stays, Loops
<1>12. ASSUME NEW t \in Threads, DeinitServo(t)
      PROVE ClockInv'
  BY <1>12, DeinitServoDoes DEF Turns, Keeps, Stays, Loops, Deinit
<1>13. ASSUME NEW t \in Threads, RestorePad(t)
      PROVE ClockInv'
  BY <1>13, RestorePadDoes DEF Turns, Keeps, Stays, Loops
<1>14. ASSUME NEW t \in Threads, Finish(t)
      PROVE ClockInv'
  BY <1>14, FinishDoes DEF Turns, Idle
<1>15. CASE UNCHANGED vars
  BY <1>15 DEF vars
<1>16. ASSUME NEW t \in Threads, HeedStop(t)
      PROVE ClockInv'
  BY <1>16, HeedStopDoes DEF Turns, Keeps, Stays, CleansUp, Still
<1>17. ASSUME NEW t \in Threads, StepPulse(t)
      PROVE ClockInv'
  BY <1>17, StepPulseDoes DEF Turns, Keeps, Stays, CleansUp, SetPulse
<1> QED
  BY <1>1, <1>2, <1>3, <1>4, <1>5, <1>6, <1>7, <1>8, <1>9, <1>10, <1>11,
     <1>12, <1>13, <1>14, <1>15, <1>16, <1>17 DEF Next, Worker, Starts

(* The loops take the selected channels in order, all before the plan. *)
LEMMA LoopInvStep == IInv /\ [Next]_vars => LoopInv'
<1> SUFFICES ASSUME IInv, [Next]_vars PROVE LoopInv'
  OBVIOUS
<1>0. WorkerType /\ OneWorker /\ LoopInv /\ LoopInv /\ OneWorker'
  BY OneWorkerStep DEF IInv, Types, WorkerType
<1>t. Types
  BY DEF IInv
<1> USE <1>0 DEF statics, driver, ghosts
<1>1. ASSUME NEW t \in Threads, NEW mask \in Masks, Starts(t, mask)
      PROVE LoopInv'
  <2>1. CASE worker' = worker
    <3>1. \A u \in Threads : ~Active(u)'
      BY <1>1, <2>1, StartDoes DEF OneWorker, Active
    <3> QED
      BY <3>1 DEF LoopInv
  <2>2. CASE running' /\ Turns(t) /\ worker'[t].pc = "init"
    <3>3. \A j \in mask : j \in Servos /\ ~(j < 1)
      BY BenchAssumption DEF Masks, Servos
    <3>1. LoopOK(worker[t])'
      BY <1>1, <2>2, <3>3, StartDoes DEF LoopOK, Taking, Planning, Turns
    <3>2. Active(t)'
      BY <2>2 DEF Active
    <3> QED
      BY <3>1, <3>2 DEF LoopInv, OneWorker
  <2> QED
    BY <1>1, <2>1, <2>2, StartDoes
<1>2. CASE Stop
  BY <1>2 DEF Stop, LoopInv, LoopOK, Active, Locals
<1>3. ASSUME NEW i \in Servos, ToolOn(i)
      PROVE LoopInv'
  BY <1>3 DEF ToolOn, Opened, CanInit, LoopInv, LoopOK, Active, Locals
<1>4. ASSUME NEW i \in Servos, ToolOff(i)
      PROVE LoopInv'
  BY <1>4 DEF ToolOff, Deinit, LoopInv, LoopOK, Active, Locals
<1>5. ASSUME NEW t \in Threads, InitServo(t)
      PROVE LoopInv'
  <2>1. worker[t] \in Locals /\ worker'[t] \in Locals
    BY <1>5, InitServoDoes DEF Turns
  <2>2. Active(t) /\ Active(t)'
    BY <1>5, InitServoDoes DEF Active, Loops, CleansUp
  <2>3. LoopOK(worker[t])
    BY <2>2 DEF LoopInv
  <2>4. LoopOK(worker[t])'
    <3>1. \A j \in selected_mask : j \in 1 .. N
      BY <1>t DEF Types, Masks, Servos
    <3>2. CASE CleansUp(worker'[t])
      BY <1>5, <3>2, InitServoDoes DEF CleansUp, LoopOK, Taking, Planning
    <3>3. CASE /\ worker[t].i \notin selected_mask
               /\ worker'[t].owned = worker[t].owned
               /\ Loops(worker[t], worker'[t], "init", "settle")
      <4>1. /\ worker[t].pc = "init" /\ selected_mask' = selected_mask
            /\ worker'[t].muxed = worker[t].muxed
        BY <1>5, InitServoDoes DEF statics
      <4>2. worker[t].i \in 1 .. N /\ worker[t].muxed \subseteq 1 .. N
        BY <2>1 DEF Locals, Servos
      <4>3. CASE worker'[t].pc = "init" /\ worker'[t].i = worker[t].i + 1
        BY <2>3, <3>1, <3>3, <4>1, <4>2, <4>3, BenchAssumption
           DEF LoopOK, Taking, Planning
      <4>4. CASE worker'[t].pc = "settle" /\ worker[t].i = N
        BY <2>3, <3>1, <3>3, <4>1, <4>2, <4>4, BenchAssumption
           DEF LoopOK, Taking, Planning
      <4> QED
        BY <3>3, <4>3, <4>4 DEF Loops
    <3>4. CASE worker'[t].pc = "mux"
      BY <1>5, <2>1, <2>3, <3>1, <3>4, InitServoDoes
         DEF CleansUp, Loops, LoopOK, Taking, Planning, Locals, Servos
    <3> QED
      BY <1>5, <3>2, <3>3, <3>4, InitServoDoes
  <2> QED
    BY <2>2, <2>4 DEF LoopInv, OneWorker
<1>6. ASSUME NEW t \in Threads, MuxPad(t)
      PROVE LoopInv'
  <2>1. worker[t] \in Locals /\ worker'[t] \in Locals
    BY <1>6, MuxPadDoes DEF Turns
  <2>2. Active(t) /\ Active(t)'
    BY <1>6, MuxPadDoes DEF Active
  <2>3. LoopOK(worker[t])
    BY <2>2 DEF LoopInv
  <2>4. LoopOK(worker[t])'
    BY <1>6, <2>1, <2>2, <2>3, MuxPadDoes DEF Turns, Stays, LoopOK, Taking,
       Planning, Locals, Servos
  <2> QED
    BY <2>2, <2>4 DEF LoopInv, OneWorker
<1>7. ASSUME NEW t \in Threads, FirstPulse(t)
      PROVE LoopInv'
  <2>1. worker[t] \in Locals /\ worker'[t] \in Locals
    BY <1>7, FirstPulseDoes DEF Turns
  <2>2. Active(t) /\ Active(t)'
    BY <1>7, FirstPulseDoes DEF Active, Loops, CleansUp
  <2>3. LoopOK(worker[t])
    BY <2>2 DEF LoopInv
  <2>4. LoopOK(worker[t])'
    <3>1. \A j \in selected_mask : j \in 1 .. N
      BY <1>t DEF Types, Masks, Servos
    <3>2. CASE CleansUp(worker'[t])
      BY <1>7, <3>2, FirstPulseDoes DEF CleansUp, LoopOK, Taking, Planning
    <3>3. CASE /\ Loops(worker[t], worker'[t], "init", "settle")
               /\ ~CleansUp(worker'[t])
      <4>1. /\ worker[t].pc = "neutral" /\ selected_mask' = selected_mask
            /\ worker'[t].muxed = worker[t].muxed
            /\ worker'[t].owned = worker[t].owned
        BY <1>7, <3>3, FirstPulseDoes DEF Keeps, SetPulse
      <4>2. worker[t].i \in 1 .. N /\ worker[t].muxed \subseteq 1 .. N
        BY <2>1 DEF Locals, Servos
      <4>3. CASE worker'[t].pc = "init" /\ worker'[t].i = worker[t].i + 1
        BY <2>3, <3>1, <4>1, <4>2, <4>3, BenchAssumption
           DEF LoopOK, Taking, Planning
      <4>4. CASE worker'[t].pc = "settle" /\ worker[t].i = N
        BY <2>3, <3>1, <4>1, <4>2, <4>4, BenchAssumption
           DEF LoopOK, Taking, Planning
      <4> QED
        BY <3>3, <4>3, <4>4 DEF Loops
    <3> QED
      BY <1>7, <3>2, <3>3, FirstPulseDoes
  <2> QED
    BY <2>2, <2>4 DEF LoopInv, OneWorker
<1>8. ASSUME NEW t \in Threads, Settle(t)
      PROVE LoopInv'
  <2>1. worker[t] \in Locals /\ worker'[t] \in Locals
    BY <1>8, SettleDoes DEF Turns
  <2>2. Active(t) /\ Active(t)'
    BY <1>8, SettleDoes DEF Active
  <2>3. LoopOK(worker[t])
    BY <2>2 DEF LoopInv
  <2>4. LoopOK(worker[t])'
    BY <1>8, <2>1, <2>2, <2>3, SettleDoes DEF Turns, Keeps, Stays, Still,
       LoopOK, Taking, Planning, Locals, Servos
  <2> QED
    BY <2>2, <2>4 DEF LoopInv, OneWorker
<1>9. ASSUME NEW t \in Threads, Step(t)
      PROVE LoopInv'
  <2>1. worker[t] \in Locals /\ worker'[t] \in Locals
    BY <1>9, StepDoes DEF Turns
  <2>2. Active(t) /\ Active(t)'
    BY <1>9, StepDoes DEF Active, Advances, CleansUp
  <2>3. LoopOK(worker[t])
    BY <2>2 DEF LoopInv
  <2>4. LoopOK(worker[t])'
    BY <1>9, <2>1, <2>2, <2>3, StepDoes DEF Turns, Keeps, Stays, Still,
       Advances, CleansUp, SetPulse, LoopOK, Taking, Planning,
       Locals, Servos
  <2> QED
    BY <2>2, <2>4 DEF LoopInv, OneWorker
<1>10. ASSUME NEW t \in Threads, Pause(t)
      PROVE LoopInv'
  <2>1. worker[t] \in Locals /\ worker'[t] \in Locals
    BY <1>10, PauseDoes DEF Turns
  <2>2. Active(t) /\ Active(t)'
    BY <1>10, PauseDoes DEF Active, Advances, CleansUp
  <2>3. LoopOK(worker[t])
    BY <2>2 DEF LoopInv
  <2>4. LoopOK(worker[t])'
    BY <1>10, <2>1, <2>2, <2>3, PauseDoes DEF Turns, Keeps, Still, Advances,
       CleansUp, LoopOK, Taking, Planning, Locals, Servos
  <2> QED
    BY <2>2, <2>4 DEF LoopInv, OneWorker
<1>11. ASSUME NEW t \in Threads, StopServo(t)
      PROVE LoopInv'
  <2>1. worker[t] \in Locals /\ worker'[t] \in Locals
    BY <1>11, StopServoDoes DEF Turns
  <2>2. Active(t) /\ Active(t)'
    BY <1>11, StopServoDoes DEF Active, Loops
  <2>3. LoopOK(worker[t])
    BY <2>2 DEF LoopInv
  <2>4. LoopOK(worker[t])'
    BY <1>11, <2>1, <2>2, <2>3, StopServoDoes DEF Turns, Keeps, Stays, Loops,
       LoopOK, Taking, Planning, Locals, Servos
  <2> QED
    BY <2>2, <2>4 DEF LoopInv, OneWorker
<1>12. ASSUME NEW t \in Threads, DeinitServo(t)
      PROVE LoopInv'
  <2>1. worker[t] \in Locals /\ worker'[t] \in Locals
    BY <1>12, DeinitServoDoes DEF Turns
  <2>2. Active(t) /\ Active(t)'
    BY <1>12, DeinitServoDoes DEF Active, Loops
  <2>3. LoopOK(worker[t])
    BY <2>2 DEF LoopInv
  <2>4. LoopOK(worker[t])'
    BY <1>12, <2>1, <2>2, <2>3, DeinitServoDoes DEF Turns, Keeps, Stays, Loops,
       Deinit, LoopOK, Taking, Planning, Locals, Servos
  <2> QED
    BY <2>2, <2>4 DEF LoopInv, OneWorker
<1>13. ASSUME NEW t \in Threads, RestorePad(t)
      PROVE LoopInv'
  <2>1. worker[t] \in Locals /\ worker'[t] \in Locals
    BY <1>13, RestorePadDoes DEF Turns
  <2>2. Active(t) /\ Active(t)'
    BY <1>13, RestorePadDoes DEF Active, Loops
  <2>3. LoopOK(worker[t])
    BY <2>2 DEF LoopInv
  <2>4. LoopOK(worker[t])'
    BY <1>13, <2>1, <2>2, <2>3, RestorePadDoes DEF Turns, Keeps, Stays, Loops,
       LoopOK, Taking, Planning, Locals, Servos
  <2> QED
    BY <2>2, <2>4 DEF LoopInv, OneWorker
<1>14. ASSUME NEW t \in Threads, Finish(t)
      PROVE LoopInv'
  <2>1. \A u \in Threads : ~Active(u)'
    BY <1>14, FinishDoes DEF OneWorker
  <2> QED
    BY <2>1 DEF LoopInv
<1>15. CASE UNCHANGED vars
  BY <1>15 DEF vars, LoopInv, LoopOK, Active
<1>16. ASSUME NEW t \in Threads, HeedStop(t)
      PROVE LoopInv'
  <2>1. worker[t] \in Locals /\ worker'[t] \in Locals
    BY <1>16, HeedStopDoes DEF Turns
  <2>2. Active(t) /\ Active(t)'
    BY <1>16, HeedStopDoes DEF Active, CleansUp
  <2>3. LoopOK(worker[t])
    BY <2>2 DEF LoopInv
  <2>4. LoopOK(worker[t])'
    BY <1>16, <2>3, HeedStopDoes
       DEF Keeps, Still, CleansUp, LoopOK, Taking, Planning
  <2> QED
    BY <2>2, <2>4 DEF LoopInv, OneWorker
<1>17. ASSUME NEW t \in Threads, StepPulse(t)
      PROVE LoopInv'
  <2>1. worker[t] \in Locals /\ worker'[t] \in Locals
    BY <1>17, StepPulseDoes DEF Turns
  <2>2. Active(t) /\ Active(t)'
    BY <1>17, StepPulseDoes DEF Active, CleansUp
  <2>3. LoopOK(worker[t])
    BY <2>2 DEF LoopInv
  <2>4. LoopOK(worker[t])'
    BY <1>17, <2>3, StepPulseDoes
       DEF Keeps, SetPulse, CleansUp, LoopOK, Taking, Planning
  <2> QED
    BY <2>2, <2>4 DEF LoopInv, OneWorker
<1> QED
  BY <1>1, <1>2, <1>3, <1>4, <1>5, <1>6, <1>7, <1>8, <1>9, <1>10, <1>11,
     <1>12, <1>13, <1>14, <1>15, <1>16, <1>17 DEF Next, Worker, Starts

(* No channel keeps a servo pulse that its worker will not stop. *)
LEMMA PulseInvStep == IInv /\ [Next]_vars => PulseInv'
<1> SUFFICES ASSUME IInv, [Next]_vars PROVE PulseInv'
  OBVIOUS
<1>0. WorkerType /\ OneWorker /\ LoopInv /\ PulseInv /\ OneWorker'
  BY OneWorkerStep DEF IInv, Types, WorkerType
<1>t. Types
  BY DEF IInv
<1> USE <1>0 DEF statics, driver, ghosts
<1>1. ASSUME NEW t \in Threads, NEW mask \in Masks, Starts(t, mask)
      PROVE PulseInv'
  <2>1. PulseOK(Idle)
    BY <1>1, StartDoes DEF PulseInv
  <2>2. CASE ~running'
    <3>1. PulseOK(Idle)'
      BY <1>1, <2>1, StartDoes DEF PulseOK, Driven, Held, Taking, Planning,
         Releasing, Locals, Servos, WorkerType, Idle
    <3> QED
      BY <2>2, <3>1 DEF PulseInv, OneWorker
  <2>3. CASE running' /\ Turns(t) /\ worker'[t].pc = "init"
    <3>1. PulseOK(worker[t])'
      BY <1>1, <2>1, <2>3, StartDoes DEF PulseOK, Driven, Held, Taking,
         Planning, Releasing, Locals, Servos, WorkerType, Idle, Turns
    <3>2. Active(t)'
      BY <2>3 DEF Active
    <3> QED
      BY <3>1, <3>2 DEF PulseInv, OneWorker
  <2> QED
    BY <1>1, <2>2, <2>3, StartDoes
<1>2. CASE Stop
  BY <1>2 DEF Stop, PulseInv, PulseOK, Active, Locals
<1>3. ASSUME NEW i \in Servos, ToolOn(i)
      PROVE PulseInv'
  BY <1>3 DEF ToolOn, Opened, CanInit, PulseInv, PulseOK, Active, Locals
<1>4. ASSUME NEW i \in Servos, ToolOff(i)
      PROVE PulseInv'
  BY <1>4 DEF ToolOff, Deinit, PulseInv, PulseOK, Active, Locals
<1>5. ASSUME NEW t \in Threads, InitServo(t)
      PROVE PulseInv'
  <2>1. worker[t] \in Locals /\ worker'[t] \in Locals
    BY <1>5, InitServoDoes DEF Turns
  <2>2. Active(t) /\ Active(t)'
    BY <1>5, InitServoDoes DEF Active, Loops, CleansUp
  <2>3. PulseOK(worker[t]) /\ LoopOK(worker[t])
    BY <2>2 DEF PulseInv, LoopInv
  <2>4. PulseOK(worker[t])'

    <3>1. Driven(worker[t]) = worker[t].owned
      BY <1>5, <2>1, DrivenAt, InitServoDoes
    <3>2. CASE UNCHANGED ctl /\ worker'[t].owned = worker[t].owned
               /\ worker'[t].pc \in {"stop", "init", "settle"}
               /\ (worker'[t].pc = "stop" => CleansUp(worker'[t]))
      <4>1. Driven(worker'[t]) = worker[t].owned
        BY <2>1, <3>2, DrivenAt DEF Planning
      <4> QED
        BY <2>3, <3>1, <3>2, <4>1 DEF PulseOK
    <3>3. CASE worker'[t].pc = "mux"
      <4>1. /\ Driven(worker'[t]) = worker'[t].owned \ {worker[t].i}
            /\ worker'[t].owned = worker[t].owned \cup {worker[t].i}
            /\ ctl' = [ctl EXCEPT ![worker[t].i] = "off"]
        BY <1>5, <2>1, <3>3, DrivenAt, InitServoDoes DEF CleansUp, Loops
      <4> QED
        BY <1>t, <2>3, <3>1, <4>1 DEF PulseOK, Types
    <3> QED
      BY <1>5, <3>2, <3>3, InitServoDoes DEF CleansUp, Loops
  <2> QED
    BY <2>2, <2>4 DEF PulseInv, OneWorker
<1>6. ASSUME NEW t \in Threads, MuxPad(t)
      PROVE PulseInv'
  <2>1. worker[t] \in Locals /\ worker'[t] \in Locals
    BY <1>6, MuxPadDoes DEF Turns
  <2>2. Active(t) /\ Active(t)'
    BY <1>6, MuxPadDoes DEF Active
  <2>3. PulseOK(worker[t]) /\ LoopOK(worker[t])
    BY <2>2 DEF PulseInv, LoopInv
  <2>4. PulseOK(worker[t])'
    BY <1>6, <2>1, <2>2, <2>3, MuxPadDoes, DrivenAt DEF Turns, Stays, PulseOK,
       Taking, Planning, Releasing, Locals, Servos, WorkerType
  <2> QED
    BY <2>2, <2>4 DEF PulseInv, OneWorker
<1>7. ASSUME NEW t \in Threads, FirstPulse(t)
      PROVE PulseInv'
  <2>1. worker[t] \in Locals /\ worker'[t] \in Locals
    BY <1>7, FirstPulseDoes DEF Turns
  <2>2. Active(t) /\ Active(t)'
    BY <1>7, FirstPulseDoes DEF Active, Loops, CleansUp
  <2>3. PulseOK(worker[t]) /\ LoopOK(worker[t])
    BY <2>2 DEF PulseInv, LoopInv
  <2>4. PulseOK(worker[t])'

    <3>1. Driven(worker[t]) = worker[t].owned /\ worker[t].i \in worker[t].owned
      BY <1>7, <2>1, <2>3, DrivenAt, FirstPulseDoes DEF LoopOK
    <3>2. Driven(worker'[t]) = worker[t].owned
      BY <1>7, <2>1, DrivenAt, FirstPulseDoes DEF Keeps, Loops, CleansUp,
         Planning
    <3>3. UNCHANGED ctl \/ ctl' = [ctl EXCEPT ![worker[t].i] = "servo"]
      BY <1>7, FirstPulseDoes DEF SetPulse
    <3> QED
      BY <1>t, <2>3, <3>1, <3>2, <3>3 DEF PulseOK, Types
  <2> QED
    BY <2>2, <2>4 DEF PulseInv, OneWorker
<1>8. ASSUME NEW t \in Threads, Settle(t)
      PROVE PulseInv'
  <2>1. worker[t] \in Locals /\ worker'[t] \in Locals
    BY <1>8, SettleDoes DEF Turns
  <2>2. Active(t) /\ Active(t)'
    BY <1>8, SettleDoes DEF Active
  <2>3. PulseOK(worker[t]) /\ LoopOK(worker[t])
    BY <2>2 DEF PulseInv, LoopInv
  <2>4. PulseOK(worker[t])'
    BY <1>8, <2>1, <2>2, <2>3, SettleDoes, DrivenAt DEF Turns, Keeps, Stays,
       Still, PulseOK, Taking, Planning, Releasing, Locals, Servos,
       WorkerType
  <2> QED
    BY <2>2, <2>4 DEF PulseInv, OneWorker
<1>9. ASSUME NEW t \in Threads, Step(t)
      PROVE PulseInv'
  <2>1. worker[t] \in Locals /\ worker'[t] \in Locals
    BY <1>9, StepDoes DEF Turns
  <2>2. Active(t) /\ Active(t)'
    BY <1>9, StepDoes DEF Active, Advances, CleansUp
  <2>3. PulseOK(worker[t]) /\ LoopOK(worker[t])
    BY <2>2 DEF PulseInv, LoopInv
  <2>4. PulseOK(worker[t])'

    <3>1. Driven(worker[t]) = worker[t].owned
      BY <1>9, <2>1, DrivenAt, StepDoes DEF Planning
    <3>2. Driven(worker'[t]) = worker[t].owned
      BY <1>9, <2>1, DrivenAt, StepDoes DEF Keeps, Advances, CleansUp, Planning
    <3> QED
      BY <1>9, <2>3, <3>1, <3>2, StepDoes DEF PulseOK, Still
  <2> QED
    BY <2>2, <2>4 DEF PulseInv, OneWorker
<1>10. ASSUME NEW t \in Threads, Pause(t)
      PROVE PulseInv'
  <2>1. worker[t] \in Locals /\ worker'[t] \in Locals
    BY <1>10, PauseDoes DEF Turns
  <2>2. Active(t) /\ Active(t)'
    BY <1>10, PauseDoes DEF Active, Advances, CleansUp
  <2>3. PulseOK(worker[t]) /\ LoopOK(worker[t])
    BY <2>2 DEF PulseInv, LoopInv
  <2>4. PulseOK(worker[t])'

    <3>1. Driven(worker[t]) = worker[t].owned
      BY <1>10, <2>1, DrivenAt, PauseDoes DEF Planning
    <3>2. Driven(worker'[t]) = worker[t].owned
      BY <1>10, <2>1, DrivenAt, PauseDoes DEF Keeps, Advances, CleansUp,
         Planning
    <3> QED
      BY <1>10, <2>3, <3>1, <3>2, PauseDoes DEF PulseOK, Still
  <2> QED
    BY <2>2, <2>4 DEF PulseInv, OneWorker
<1>11. ASSUME NEW t \in Threads, StopServo(t)
      PROVE PulseInv'
  <2>1. worker[t] \in Locals /\ worker'[t] \in Locals
    BY <1>11, StopServoDoes DEF Turns
  <2>2. Active(t) /\ Active(t)'
    BY <1>11, StopServoDoes DEF Active, Loops
  <2>3. PulseOK(worker[t]) /\ LoopOK(worker[t])
    BY <2>2 DEF PulseInv, LoopInv
  <2>4. PulseOK(worker[t])'

    <3>1. Driven(worker[t]) = {j \in worker[t].owned : j >= worker[t].i}
      BY <1>11, <2>1, DrivenAt, StopServoDoes
    <3>2. CASE worker[t].i \in worker[t].owned
      <4>1. Driven(worker'[t]) = {j \in worker[t].owned : j > worker[t].i}
        BY <1>11, <2>1, <3>2, DrivenAt, StopServoDoes DEF Keeps
      <4>2. ctl' = [ctl EXCEPT ![worker[t].i] = "off"]
        BY <1>11, <3>2, StopServoDoes
      <4>3. \A j \in Servos : j >= worker[t].i /\ j # worker[t].i => j > worker[t].i
        BY <2>1 DEF Locals, Servos
      <4> QED
        BY <1>t, <2>3, <3>1, <4>1, <4>2, <4>3 DEF PulseOK, Types
    <3>3. CASE worker[t].i \notin worker[t].owned /\ worker[t].i < N
      <4>1. Driven(worker'[t]) = {j \in worker[t].owned : j >= worker[t].i + 1}
        BY <1>11, <2>1, <3>3, DrivenAt, StopServoDoes DEF Keeps, Loops,
           Locals, Servos
      <4> QED
        BY <1>11, <2>1, <2>3, <3>1, <3>3, <4>1, StopServoDoes
           DEF PulseOK, Locals, Servos
    <3>4. CASE worker[t].i \notin worker[t].owned /\ worker[t].i = N
      BY <1>11, <2>1, <2>3, <3>1, <3>4, BenchAssumption, StopServoDoes
         DEF PulseOK, Locals, Servos
    <3> QED
      BY <2>1, <3>2, <3>3, <3>4, BenchAssumption DEF Locals, Servos
  <2> QED
    BY <2>2, <2>4 DEF PulseInv, OneWorker
<1>12. ASSUME NEW t \in Threads, DeinitServo(t)
      PROVE PulseInv'
  <2>1. worker[t] \in Locals /\ worker'[t] \in Locals
    BY <1>12, DeinitServoDoes DEF Turns
  <2>2. Active(t) /\ Active(t)'
    BY <1>12, DeinitServoDoes DEF Active, Loops
  <2>3. PulseOK(worker[t]) /\ LoopOK(worker[t])
    BY <2>2 DEF PulseInv, LoopInv
  <2>4. PulseOK(worker[t])'
    BY <1>12, <2>1, <2>2, <2>3, DeinitServoDoes, DrivenAt DEF Turns, Keeps,
       Stays, Loops, Deinit, PulseOK, Taking, Planning, Releasing, Locals,
       Servos, WorkerType
  <2> QED
    BY <2>2, <2>4 DEF PulseInv, OneWorker
<1>13. ASSUME NEW t \in Threads, RestorePad(t)
      PROVE PulseInv'
  <2>1. worker[t] \in Locals /\ worker'[t] \in Locals
    BY <1>13, RestorePadDoes DEF Turns
  <2>2. Active(t) /\ Active(t)'
    BY <1>13, RestorePadDoes DEF Active, Loops
  <2>3. PulseOK(worker[t]) /\ LoopOK(worker[t])
    BY <2>2 DEF PulseInv, LoopInv
  <2>4. PulseOK(worker[t])'
    BY <1>13, <2>1, <2>2, <2>3, RestorePadDoes, DrivenAt DEF Turns, Keeps,
       Stays, Loops, PulseOK, Taking, Planning, Releasing, Locals, Servos,
       WorkerType
  <2> QED
    BY <2>2, <2>4 DEF PulseInv, OneWorker
<1>14. ASSUME NEW t \in Threads, Finish(t)
      PROVE PulseInv'
  <2>1. worker[t] \in Locals /\ Active(t) /\ worker[t].pc = "end"
    BY <1>14, FinishDoes DEF Turns, Active
  <2>2. PulseOK(worker[t])
    BY <2>1 DEF PulseInv
  <2>3. PulseOK(Idle)'
    BY <1>14, <2>1, <2>2, FinishDoes DEF PulseOK, Driven, Held, Taking,
       Planning, Releasing, Locals, Servos, WorkerType, Idle
  <2>4. ~running'
    BY <1>14, FinishDoes
  <2> QED
    BY <2>3, <2>4 DEF PulseInv, OneWorker
<1>15. CASE UNCHANGED vars
  BY <1>15 DEF vars, PulseInv, PulseOK, Active
<1>16. ASSUME NEW t \in Threads, HeedStop(t)
      PROVE PulseInv'
  <2>1. worker[t] \in Locals /\ worker'[t] \in Locals
    BY <1>16, HeedStopDoes DEF Turns
  <2>2. Active(t) /\ Active(t)'
    BY <1>16, HeedStopDoes DEF Active, CleansUp
  <2>3. PulseOK(worker[t]) /\ LoopOK(worker[t])
    BY <2>2 DEF PulseInv, LoopInv
  <2>4. PulseOK(worker[t])'
    <3>1. Driven(worker[t]) = worker[t].owned
      BY <1>16, <2>1, DrivenAt, HeedStopDoes
    <3>2. Driven(worker'[t]) = worker[t].owned
      BY <1>16, <2>1, DrivenAt, HeedStopDoes DEF Keeps
    <3> QED
      BY <1>16, <2>3, <3>1, <3>2, HeedStopDoes DEF PulseOK, Still
  <2> QED
    BY <2>2, <2>4 DEF PulseInv, OneWorker
<1>17. ASSUME NEW t \in Threads, StepPulse(t)
      PROVE PulseInv'
  <2>1. worker[t] \in Locals /\ worker'[t] \in Locals
    BY <1>17, StepPulseDoes DEF Turns
  <2>2. Active(t) /\ Active(t)'
    BY <1>17, StepPulseDoes DEF Active, CleansUp
  <2>3. PulseOK(worker[t]) /\ LoopOK(worker[t])
    BY <2>2 DEF PulseInv, LoopInv
  <2>4. PulseOK(worker[t])'
    <3>1. Driven(worker[t]) = worker[t].owned /\ worker[t].i \in worker[t].owned
      BY <1>17, <2>1, <2>3, DrivenAt, StepPulseDoes DEF LoopOK, Planning
    <3>2. Driven(worker'[t]) = worker[t].owned
      BY <1>17, <2>1, DrivenAt, StepPulseDoes DEF Keeps, Planning
    <3>3. UNCHANGED ctl \/ ctl' = [ctl EXCEPT ![worker[t].i] = "servo"]
      BY <1>17, StepPulseDoes DEF SetPulse
    <3> QED
      BY <1>t, <2>3, <3>1, <3>2, <3>3 DEF PulseOK, Types
  <2> QED
    BY <2>2, <2>4 DEF PulseInv, OneWorker
<1> QED
  BY <1>1, <1>2, <1>3, <1>4, <1>5, <1>6, <1>7, <1>8, <1>9, <1>10, <1>11,
     <1>12, <1>13, <1>14, <1>15, <1>16, <1>17 DEF Next, Worker, Starts

(* No pad stays on a PWM that its worker will not move back. *)
LEMMA PadInvStep == IInv /\ [Next]_vars => PadInv'
<1> SUFFICES ASSUME IInv, [Next]_vars PROVE PadInv'
  OBVIOUS
<1>0. WorkerType /\ OneWorker /\ LoopInv /\ PadInv /\ OneWorker'
  BY OneWorkerStep DEF IInv, Types, WorkerType
<1>t. Types
  BY DEF IInv
<1> USE <1>0 DEF statics, driver, ghosts
<1>1. ASSUME NEW t \in Threads, NEW mask \in Masks, Starts(t, mask)
      PROVE PadInv'
  <2>1. PadOK(Idle)
    BY <1>1, StartDoes DEF PadInv
  <2>2. CASE ~running'
    <3>1. PadOK(Idle)'
      BY <1>1, <2>1, StartDoes DEF PadOK, Connected, Taking, Planning,
         Releasing, Locals, Servos, Idle
    <3> QED
      BY <2>2, <3>1 DEF PadInv, OneWorker
  <2>3. CASE running' /\ Turns(t) /\ worker'[t].pc = "init"
    <3>1. PadOK(worker[t])'
      BY <1>1, <2>1, <2>3, StartDoes DEF PadOK, Connected, Taking, Planning,
         Releasing, Locals, Servos, Idle, Turns
    <3>2. Active(t)'
      BY <2>3 DEF Active
    <3> QED
      BY <3>1, <3>2 DEF PadInv, OneWorker
  <2> QED
    BY <1>1, <2>2, <2>3, StartDoes
<1>2. CASE Stop
  BY <1>2 DEF Stop, PadInv, PadOK, Active, Locals
<1>3. ASSUME NEW i \in Servos, ToolOn(i)
      PROVE PadInv'
  BY <1>3 DEF ToolOn, Opened, CanInit, PadInv, PadOK, Active, Locals
<1>4. ASSUME NEW i \in Servos, ToolOff(i)
      PROVE PadInv'
  BY <1>4 DEF ToolOff, Deinit, PadInv, PadOK, Active, Locals
<1>5. ASSUME NEW t \in Threads, InitServo(t)
      PROVE PadInv'
  <2>1. worker[t] \in Locals /\ worker'[t] \in Locals
    BY <1>5, InitServoDoes DEF Turns
  <2>2. Active(t) /\ Active(t)'
    BY <1>5, InitServoDoes DEF Active, Loops, CleansUp
  <2>3. PadOK(worker[t]) /\ LoopOK(worker[t])
    BY <2>2 DEF PadInv, LoopInv
  <2>4. PadOK(worker[t])'
    BY <1>5, <2>1, <2>2, <2>3, InitServoDoes, ConnectedAt DEF Turns, Keeps,
       Stays, Loops, CleansUp, Opened, PadOK, Taking, Planning, Releasing,
       Locals, Servos, CleansUp
  <2> QED
    BY <2>2, <2>4 DEF PadInv, OneWorker
<1>6. ASSUME NEW t \in Threads, MuxPad(t)
      PROVE PadInv'
  <2>1. worker[t] \in Locals /\ worker'[t] \in Locals
    BY <1>6, MuxPadDoes DEF Turns
  <2>2. Active(t) /\ Active(t)'
    BY <1>6, MuxPadDoes DEF Active
  <2>3. PadOK(worker[t]) /\ LoopOK(worker[t])
    BY <2>2 DEF PadInv, LoopInv
  <2>4. PadOK(worker[t])'

    <3>1. Connected(worker[t]) = worker[t].muxed
      BY <1>6, <2>1, ConnectedAt, MuxPadDoes DEF Taking
    <3>2. Connected(worker'[t]) = worker[t].muxed \cup {worker[t].i}
      BY <1>6, <2>1, ConnectedAt, MuxPadDoes DEF Taking
    <3>3. pad[worker[t].i] = "other" /\ worker[t].i \in Servos
      BY <1>6, <2>1, PadsFound DEF Locals
    <3>4. /\ saved' = [saved EXCEPT ![worker[t].i] = pad[worker[t].i]]
          /\ pad' = [pad EXCEPT ![worker[t].i] = "pwm"]
      BY <1>6, MuxPadDoes
    <3>5. worker[t].muxed \subseteq Servos
      BY <2>1 DEF Locals
    <3> QED
      BY <1>t, <2>3, <3>1, <3>2, <3>3, <3>4, <3>5 DEF PadOK, Types
  <2> QED
    BY <2>2, <2>4 DEF PadInv, OneWorker
<1>7. ASSUME NEW t \in Threads, FirstPulse(t)
      PROVE PadInv'
  <2>1. worker[t] \in Locals /\ worker'[t] \in Locals
    BY <1>7, FirstPulseDoes DEF Turns
  <2>2. Active(t) /\ Active(t)'
    BY <1>7, FirstPulseDoes DEF Active, Loops, CleansUp
  <2>3. PadOK(worker[t]) /\ LoopOK(worker[t])
    BY <2>2 DEF PadInv, LoopInv
  <2>4. PadOK(worker[t])'
    BY <1>7, <2>1, <2>2, <2>3, FirstPulseDoes, ConnectedAt DEF Turns, Keeps,
       Stays, Loops, CleansUp, Still, SetPulse, PadOK, Taking,
       Planning, Releasing, Locals, Servos, CleansUp
  <2> QED
    BY <2>2, <2>4 DEF PadInv, OneWorker
<1>8. ASSUME NEW t \in Threads, Settle(t)
      PROVE PadInv'
  <2>1. worker[t] \in Locals /\ worker'[t] \in Locals
    BY <1>8, SettleDoes DEF Turns
  <2>2. Active(t) /\ Active(t)'
    BY <1>8, SettleDoes DEF Active
  <2>3. PadOK(worker[t]) /\ LoopOK(worker[t])
    BY <2>2 DEF PadInv, LoopInv
  <2>4. PadOK(worker[t])'
    BY <1>8, <2>1, <2>2, <2>3, SettleDoes, ConnectedAt DEF Turns, Keeps, Stays,
       Still, PadOK, Taking, Planning, Releasing, Locals, Servos, CleansUp
  <2> QED
    BY <2>2, <2>4 DEF PadInv, OneWorker
<1>9. ASSUME NEW t \in Threads, Step(t)
      PROVE PadInv'
  <2>1. worker[t] \in Locals /\ worker'[t] \in Locals
    BY <1>9, StepDoes DEF Turns
  <2>2. Active(t) /\ Active(t)'
    BY <1>9, StepDoes DEF Active, Advances, CleansUp
  <2>3. PadOK(worker[t]) /\ LoopOK(worker[t])
    BY <2>2 DEF PadInv, LoopInv
  <2>4. PadOK(worker[t])'
    BY <1>9, <2>1, <2>2, <2>3, StepDoes, ConnectedAt DEF Turns, Keeps, Stays,
       Still, Advances, CleansUp, SetPulse, PadOK, Taking, Planning,
       Releasing, Locals, Servos, CleansUp
  <2> QED
    BY <2>2, <2>4 DEF PadInv, OneWorker
<1>10. ASSUME NEW t \in Threads, Pause(t)
      PROVE PadInv'
  <2>1. worker[t] \in Locals /\ worker'[t] \in Locals
    BY <1>10, PauseDoes DEF Turns
  <2>2. Active(t) /\ Active(t)'
    BY <1>10, PauseDoes DEF Active, Advances, CleansUp
  <2>3. PadOK(worker[t]) /\ LoopOK(worker[t])
    BY <2>2 DEF PadInv, LoopInv
  <2>4. PadOK(worker[t])'
    BY <1>10, <2>1, <2>2, <2>3, PauseDoes, ConnectedAt DEF Turns, Keeps, Still,
       Advances, CleansUp, PadOK, Taking, Planning, Releasing, Locals,
       Servos, CleansUp
  <2> QED
    BY <2>2, <2>4 DEF PadInv, OneWorker
<1>11. ASSUME NEW t \in Threads, StopServo(t)
      PROVE PadInv'
  <2>1. worker[t] \in Locals /\ worker'[t] \in Locals
    BY <1>11, StopServoDoes DEF Turns
  <2>2. Active(t) /\ Active(t)'
    BY <1>11, StopServoDoes DEF Active, Loops
  <2>3. PadOK(worker[t]) /\ LoopOK(worker[t])
    BY <2>2 DEF PadInv, LoopInv
  <2>4. PadOK(worker[t])'
    BY <1>11, <2>1, <2>2, <2>3, StopServoDoes, ConnectedAt DEF Turns, Keeps,
       Stays, Loops, PadOK, Taking, Planning, Releasing, Locals, Servos,
       CleansUp
  <2> QED
    BY <2>2, <2>4 DEF PadInv, OneWorker
<1>12. ASSUME NEW t \in Threads, DeinitServo(t)
      PROVE PadInv'
  <2>1. worker[t] \in Locals /\ worker'[t] \in Locals
    BY <1>12, DeinitServoDoes DEF Turns
  <2>2. Active(t) /\ Active(t)'
    BY <1>12, DeinitServoDoes DEF Active, Loops
  <2>3. PadOK(worker[t]) /\ LoopOK(worker[t])
    BY <2>2 DEF PadInv, LoopInv
  <2>4. PadOK(worker[t])'
    BY <1>12, <2>1, <2>2, <2>3, DeinitServoDoes, ConnectedAt DEF Turns, Keeps,
       Stays, Loops, Deinit, PadOK, Taking, Planning, Releasing, Locals,
       Servos, CleansUp
  <2> QED
    BY <2>2, <2>4 DEF PadInv, OneWorker
<1>13. ASSUME NEW t \in Threads, RestorePad(t)
      PROVE PadInv'
  <2>1. worker[t] \in Locals /\ worker'[t] \in Locals
    BY <1>13, RestorePadDoes DEF Turns
  <2>2. Active(t) /\ Active(t)'
    BY <1>13, RestorePadDoes DEF Active, Loops
  <2>3. PadOK(worker[t]) /\ LoopOK(worker[t])
    BY <2>2 DEF PadInv, LoopInv
  <2>4. PadOK(worker[t])'

    <3>1. Connected(worker[t]) = {j \in worker[t].muxed : j >= worker[t].i}
      BY <1>13, <2>1, ConnectedAt, RestorePadDoes
    <3>2. worker[t].i \in worker[t].muxed => saved[worker[t].i] = "other"
      BY <1>13, PadsFound
    <3>3. \A j \in Servos : pad'[j] = "pwm"
                             => j \in worker[t].muxed /\ j > worker[t].i
      <4>1. \A j \in Servos : j >= worker[t].i /\ j # worker[t].i => j > worker[t].i
        BY <2>1 DEF Locals, Servos
      <4>2. worker[t].i \in Servos
        BY <2>1 DEF Locals
      <4> QED
        BY <1>13, <1>t, <2>3, <3>1, <3>2, <4>1, <4>2, RestorePadDoes DEF
           PadOK, Types
    <3>4. saved' = saved
      BY <1>13, RestorePadDoes
    <3>5. CASE worker[t].i < N
      <4>1. Connected(worker'[t]) = {j \in worker[t].muxed : j > worker[t].i}
        BY <1>13, <2>1, <3>5, ConnectedAt, RestorePadDoes
           DEF Keeps, Loops, Locals, Servos
      <4>2. Connected(worker'[t]) \subseteq Connected(worker[t])
        BY <2>1, <3>1, <4>1 DEF Locals, Servos
      <4> QED
        BY <2>3, <3>3, <3>4, <4>1, <4>2 DEF PadOK
    <3>6. CASE worker[t].i = N
      <4>1. Connected(worker'[t]) = {}
        BY <1>13, <2>1, <3>6, BenchAssumption, ConnectedAt, RestorePadDoes DEF
           Loops
      <4>2. \A j \in Servos : ~(j > worker[t].i)
        BY <3>6, BenchAssumption DEF Servos
      <4> QED
        BY <3>3, <4>1, <4>2 DEF PadOK
    <3> QED
      BY <2>1, <3>5, <3>6, BenchAssumption DEF Locals, Servos
  <2> QED
    BY <2>2, <2>4 DEF PadInv, OneWorker
<1>14. ASSUME NEW t \in Threads, Finish(t)
      PROVE PadInv'
  <2>1. worker[t] \in Locals /\ Active(t) /\ worker[t].pc = "end"
    BY <1>14, FinishDoes DEF Turns, Active
  <2>2. PadOK(worker[t])
    BY <2>1 DEF PadInv
  <2>3. PadOK(Idle)'
    BY <1>14, <2>1, <2>2, FinishDoes DEF PadOK, Connected, Taking, Planning,
       Releasing, Locals, Servos, Idle
  <2>4. ~running'
    BY <1>14, FinishDoes
  <2> QED
    BY <2>3, <2>4 DEF PadInv, OneWorker
<1>15. CASE UNCHANGED vars
  BY <1>15 DEF vars, PadInv, PadOK, Active
<1>16. ASSUME NEW t \in Threads, HeedStop(t)
      PROVE PadInv'
  <2>1. worker[t] \in Locals /\ worker'[t] \in Locals
    BY <1>16, HeedStopDoes DEF Turns
  <2>2. Active(t) /\ Active(t)'
    BY <1>16, HeedStopDoes DEF Active, CleansUp
  <2>3. PadOK(worker[t]) /\ LoopOK(worker[t])
    BY <2>2 DEF PadInv, LoopInv
  <2>4. PadOK(worker[t])'
    BY <1>16, <2>1, <2>3, HeedStopDoes, ConnectedAt
       DEF Keeps, Still, CleansUp, PadOK, Taking, Planning, Releasing
  <2> QED
    BY <2>2, <2>4 DEF PadInv, OneWorker
<1>17. ASSUME NEW t \in Threads, StepPulse(t)
      PROVE PadInv'
  <2>1. worker[t] \in Locals /\ worker'[t] \in Locals
    BY <1>17, StepPulseDoes DEF Turns
  <2>2. Active(t) /\ Active(t)'
    BY <1>17, StepPulseDoes DEF Active, CleansUp
  <2>3. PadOK(worker[t]) /\ LoopOK(worker[t])
    BY <2>2 DEF PadInv, LoopInv
  <2>4. PadOK(worker[t])'
    BY <1>17, <2>1, <2>3, StepPulseDoes, ConnectedAt
       DEF Keeps, SetPulse, CleansUp, PadOK, Taking, Planning, Releasing
  <2> QED
    BY <2>2, <2>4 DEF PadInv, OneWorker
<1> QED
  BY <1>1, <1>2, <1>3, <1>4, <1>5, <1>6, <1>7, <1>8, <1>9, <1>10, <1>11,
     <1>12, <1>13, <1>14, <1>15, <1>16, <1>17 DEF Next, Worker, Starts

\* One more servo of the cleanup is done.
LEMMA NextHeld ==
  ASSUME NEW w \in Locals, NEW v \in Locals, Keeps(w, v),
         Loops(w, v, "stop", "restore")
  PROVE  Held(v) = {j \in w.owned : j > w.i}
<1>1. \A j \in w.owned : j \in 1 .. N
  BY DEF Locals, Servos
<1>2. CASE w.i < N /\ v.i = w.i + 1 /\ v.pc = "stop"
  <2>1. Held(v) = {j \in w.owned : j >= w.i + 1}
    BY <1>2, HeldAt DEF Keeps, Releasing
  <2> QED
    BY <1>1, <2>1 DEF Locals, Servos
<1>3. CASE w.i = N /\ v.pc = "restore"
  <2>1. Held(v) = {}
    BY <1>3, HeldAt
  <2> QED
    BY <1>1, <1>3, <2>1, BenchAssumption
<1> QED
  BY <1>2, <1>3 DEF Loops

(* The worker takes free channels only and gives back only its own. *)
LEMMA UseInvStep == IInv /\ [Next]_vars => UseInv'
<1> SUFFICES ASSUME IInv, [Next]_vars PROVE UseInv'
  OBVIOUS
<1>0. WorkerType /\ OneWorker /\ LoopInv /\ UseInv /\ OneWorker'
  BY OneWorkerStep DEF IInv, Types, WorkerType
<1>t. Types
  BY DEF IInv
<1> USE <1>0 DEF statics, driver, ghosts
<1>1. ASSUME NEW t \in Threads, NEW mask \in Masks, Starts(t, mask)
      PROVE UseInv'
  <2>1. UseOK(Idle)
    BY <1>1, StartDoes DEF UseInv
  <2>2. CASE ~running'
    <3>1. UseOK(Idle)'
      BY <1>1, <2>1, StartDoes DEF UseOK, Held, Taking, Planning, Releasing,
         Locals, Servos, Idle
    <3> QED
      BY <2>2, <3>1 DEF UseInv, OneWorker
  <2>3. CASE running' /\ Turns(t) /\ worker'[t].pc = "init"
    <3>1. UseOK(worker[t])'
      BY <1>1, <2>1, <2>3, StartDoes DEF UseOK, Held, Taking, Planning,
         Releasing, Locals, Servos, Idle, Turns
    <3>2. Active(t)'
      BY <2>3 DEF Active
    <3> QED
      BY <3>1, <3>2 DEF UseInv, OneWorker
  <2> QED
    BY <1>1, <2>2, <2>3, StartDoes
<1>2. CASE Stop
  BY <1>2 DEF Stop, UseInv, UseOK, Active, Locals
<1>3. ASSUME NEW i \in Servos, ToolOn(i)
      PROVE UseInv'
  <2>1. ASSUME NEW S, status = toolOn \cup S, toolOn \cap S = {},
               \A j \in toolOn : ctl[j] = "tool"
        PROVE  /\ status' = toolOn' \cup S /\ toolOn' \cap S = {}
               /\ \A j \in toolOn' : ctl'[j] = "tool"
    BY <1>3, <1>t, <2>1 DEF ToolOn, Opened, CanInit, Types
  <2>2. worker' = worker /\ running' = running /\ meddled' = meddled
    BY <1>3 DEF ToolOn
  <2> QED
    BY <2>1, <2>2 DEF UseInv, UseOK, Active
<1>4. ASSUME NEW i \in Servos, ToolOff(i)
      PROVE UseInv'
  <2>1. ASSUME NEW S, status = toolOn \cup S, toolOn \cap S = {},
               \A j \in toolOn : ctl[j] = "tool",
               i \in toolOn
        PROVE  /\ status' = toolOn' \cup S /\ toolOn' \cap S = {}
               /\ \A j \in toolOn' : ctl'[j] = "tool"
    BY <1>4, <1>t, <2>1 DEF ToolOff, Deinit, Types
  <2>2. worker' = worker /\ running' = running
        /\ (~meddled' => ~meddled /\ i \in toolOn)
    BY <1>4 DEF ToolOff
  <2> QED
    BY <2>1, <2>2 DEF UseInv, UseOK, Active
<1>5. ASSUME NEW t \in Threads, InitServo(t)
      PROVE UseInv'
  <2>1. worker[t] \in Locals /\ worker'[t] \in Locals
    BY <1>5, InitServoDoes DEF Turns
  <2>2. Active(t) /\ Active(t)'
    BY <1>5, InitServoDoes DEF Active, Loops, CleansUp
  <2>3. UseOK(worker[t]) /\ LoopOK(worker[t])
    BY <2>2 DEF UseInv, LoopInv
  <2>4. UseOK(worker[t])'

    <3>1. Held(worker[t]) = worker[t].owned /\ worker[t].i \in Servos
      BY <1>5, <2>1, HeldAt, InitServoDoes DEF Taking, Locals
    <3>2. CASE /\ UNCHANGED driver /\ worker'[t].owned = worker[t].owned
               /\ worker'[t].pc \in {"stop", "init", "settle"}
               /\ (worker'[t].pc = "stop" => CleansUp(worker'[t]))
      <4>1. Held(worker'[t]) = worker[t].owned
        BY <2>1, <3>2, HeldAt DEF Taking, Planning
      <4> QED
        BY <1>5, <2>3, <3>1, <3>2, <4>1, InitServoDoes DEF UseOK
    <3>3. CASE worker'[t].pc = "mux"
      <4>1. /\ Held(worker'[t]) = worker[t].owned \cup {worker[t].i}
            /\ ctl' = [ctl EXCEPT ![worker[t].i] = "off"]
            /\ worker[t].i \notin status /\ status' = status \cup {worker[t].i}
            /\ UNCHANGED <<toolOn, meddled>>
        BY <1>5, <2>1, <3>3, HeldAt, InitServoDoes
           DEF CleansUp, Loops, Opened, Taking
      <4> QED
        BY <1>t, <2>3, <3>1, <4>1 DEF UseOK, Types
    <3> QED
      BY <1>5, <3>2, <3>3, InitServoDoes DEF CleansUp, Loops
  <2> QED
    BY <2>2, <2>4 DEF UseInv, OneWorker
<1>6. ASSUME NEW t \in Threads, MuxPad(t)
      PROVE UseInv'
  <2>1. worker[t] \in Locals /\ worker'[t] \in Locals
    BY <1>6, MuxPadDoes DEF Turns
  <2>2. Active(t) /\ Active(t)'
    BY <1>6, MuxPadDoes DEF Active
  <2>3. UseOK(worker[t]) /\ LoopOK(worker[t])
    BY <2>2 DEF UseInv, LoopInv
  <2>4. UseOK(worker[t])'
    BY <1>6, <2>1, <2>2, <2>3, MuxPadDoes, HeldAt DEF Turns, Stays, UseOK,
       Taking, Planning, Releasing, Locals, Servos, CleansUp
  <2> QED
    BY <2>2, <2>4 DEF UseInv, OneWorker
<1>7. ASSUME NEW t \in Threads, FirstPulse(t)
      PROVE UseInv'
  <2>1. worker[t] \in Locals /\ worker'[t] \in Locals
    BY <1>7, FirstPulseDoes DEF Turns
  <2>2. Active(t) /\ Active(t)'
    BY <1>7, FirstPulseDoes DEF Active, Loops, CleansUp
  <2>3. UseOK(worker[t]) /\ LoopOK(worker[t])
    BY <2>2 DEF UseInv, LoopInv
  <2>4. UseOK(worker[t])'

    <3>1. Held(worker[t]) = worker[t].owned /\ worker[t].i \in worker[t].owned
      BY <1>7, <2>1, <2>3, HeldAt, FirstPulseDoes DEF LoopOK, Taking
    <3>2. Held(worker'[t]) = worker[t].owned
      BY <1>7, <2>1, HeldAt, FirstPulseDoes
         DEF Keeps, Loops, CleansUp, Taking, Planning
    <3>3. /\ UNCHANGED ctl \/ ctl' = [ctl EXCEPT ![worker[t].i] = "servo"]
          /\ UNCHANGED <<status, toolOn, meddled>>
      BY <1>7, FirstPulseDoes DEF SetPulse
    <3> QED
      BY <1>t, <2>3, <3>1, <3>2, <3>3 DEF UseOK, Types
  <2> QED
    BY <2>2, <2>4 DEF UseInv, OneWorker
<1>8. ASSUME NEW t \in Threads, Settle(t)
      PROVE UseInv'
  <2>1. worker[t] \in Locals /\ worker'[t] \in Locals
    BY <1>8, SettleDoes DEF Turns
  <2>2. Active(t) /\ Active(t)'
    BY <1>8, SettleDoes DEF Active
  <2>3. UseOK(worker[t]) /\ LoopOK(worker[t])
    BY <2>2 DEF UseInv, LoopInv
  <2>4. UseOK(worker[t])'
    BY <1>8, <2>1, <2>2, <2>3, SettleDoes, HeldAt DEF Turns, Keeps, Stays,
       Still, UseOK, Taking, Planning, Releasing, Locals, Servos, CleansUp
  <2> QED
    BY <2>2, <2>4 DEF UseInv, OneWorker
<1>9. ASSUME NEW t \in Threads, Step(t)
      PROVE UseInv'
  <2>1. worker[t] \in Locals /\ worker'[t] \in Locals
    BY <1>9, StepDoes DEF Turns
  <2>2. Active(t) /\ Active(t)'
    BY <1>9, StepDoes DEF Active, Advances, CleansUp
  <2>3. UseOK(worker[t]) /\ LoopOK(worker[t])
    BY <2>2 DEF UseInv, LoopInv
  <2>4. UseOK(worker[t])'

    <3>1. Held(worker[t]) = worker[t].owned
      BY <1>9, <2>1, HeldAt, StepDoes DEF Planning
    <3>2. Held(worker'[t]) = worker[t].owned
      BY <1>9, <2>1, HeldAt, StepDoes DEF Keeps, Advances, CleansUp, Planning
    <3> QED
      BY <1>9, <2>3, <3>1, <3>2, StepDoes DEF UseOK, Still
  <2> QED
    BY <2>2, <2>4 DEF UseInv, OneWorker
<1>10. ASSUME NEW t \in Threads, Pause(t)
      PROVE UseInv'
  <2>1. worker[t] \in Locals /\ worker'[t] \in Locals
    BY <1>10, PauseDoes DEF Turns
  <2>2. Active(t) /\ Active(t)'
    BY <1>10, PauseDoes DEF Active, Advances, CleansUp
  <2>3. UseOK(worker[t]) /\ LoopOK(worker[t])
    BY <2>2 DEF UseInv, LoopInv
  <2>4. UseOK(worker[t])'

    <3>1. Held(worker[t]) = worker[t].owned
      BY <1>10, <2>1, HeldAt, PauseDoes DEF Planning
    <3>2. Held(worker'[t]) = worker[t].owned
      BY <1>10, <2>1, HeldAt, PauseDoes DEF Keeps, Advances, CleansUp, Planning
    <3> QED
      BY <1>10, <2>3, <3>1, <3>2, PauseDoes DEF UseOK, Still
  <2> QED
    BY <2>2, <2>4 DEF UseInv, OneWorker
<1>11. ASSUME NEW t \in Threads, StopServo(t)
      PROVE UseInv'
  <2>1. worker[t] \in Locals /\ worker'[t] \in Locals
    BY <1>11, StopServoDoes DEF Turns
  <2>2. Active(t) /\ Active(t)'
    BY <1>11, StopServoDoes DEF Active, Loops
  <2>3. UseOK(worker[t]) /\ LoopOK(worker[t])
    BY <2>2 DEF UseInv, LoopInv
  <2>4. UseOK(worker[t])'

    <3>1. Held(worker[t]) = {j \in worker[t].owned : j >= worker[t].i}
      BY <1>11, <2>1, HeldAt, StopServoDoes DEF Releasing
    <3>2. UNCHANGED <<status, toolOn, meddled>>
      BY <1>11, StopServoDoes
    <3>3. CASE worker[t].i \in worker[t].owned
      <4>1. Held(worker'[t]) = Held(worker[t])
        BY <1>11, <2>1, <3>1, <3>3, HeldAt, StopServoDoes DEF Keeps, Releasing
      <4>2. worker[t].i \in Held(worker[t])
        BY <2>1, <3>1, <3>3 DEF Locals, Servos
      <4>3. ctl' = [ctl EXCEPT ![worker[t].i] = "off"]
        BY <1>11, <3>3, StopServoDoes
      <4> QED
        BY <1>t, <2>3, <3>2, <4>1, <4>2, <4>3 DEF UseOK, Types
    <3>4. CASE worker[t].i \notin worker[t].owned
      <4>1. Loops(worker[t], worker'[t], "stop", "restore") /\ ctl' = ctl
        BY <1>11, <3>4, StopServoDoes
      <4>2. Held(worker'[t]) = {j \in worker[t].owned : j > worker[t].i}
        BY <1>11, <2>1, <4>1, NextHeld, StopServoDoes
      <4>3. Held(worker'[t]) = Held(worker[t])
        BY <2>1, <3>1, <3>4, <4>2 DEF Locals, Servos
      <4> QED
        BY <2>3, <3>2, <4>1, <4>3 DEF UseOK
    <3> QED
      BY <3>3, <3>4
  <2> QED
    BY <2>2, <2>4 DEF UseInv, OneWorker
<1>12. ASSUME NEW t \in Threads, DeinitServo(t)
      PROVE UseInv'
  <2>1. worker[t] \in Locals /\ worker'[t] \in Locals
    BY <1>12, DeinitServoDoes DEF Turns
  <2>2. Active(t) /\ Active(t)'
    BY <1>12, DeinitServoDoes DEF Active, Loops
  <2>3. UseOK(worker[t]) /\ LoopOK(worker[t])
    BY <2>2 DEF UseInv, LoopInv
  <2>4. UseOK(worker[t])'

    <3>1. Held(worker[t]) = {j \in worker[t].owned : j >= worker[t].i}
      BY <1>12, <2>1, HeldAt, DeinitServoDoes DEF Releasing
    <3>2. worker[t].i \in worker[t].owned
      BY <1>12, <2>3, DeinitServoDoes DEF LoopOK
    <3>3. Held(worker'[t]) = {j \in worker[t].owned : j > worker[t].i}
      BY <1>12, <2>1, NextHeld, DeinitServoDoes
    <3>4. /\ Held(worker'[t]) = Held(worker[t]) \ {worker[t].i}
          /\ worker[t].i \in Held(worker[t])
      BY <2>1, <3>1, <3>2, <3>3 DEF Locals, Servos
    <3>5. status' = status \ {worker[t].i} /\ UNCHANGED <<ctl, toolOn, meddled>>
      BY <1>12, DeinitServoDoes DEF Deinit
    <3> QED
      BY <2>3, <3>4, <3>5 DEF UseOK
  <2> QED
    BY <2>2, <2>4 DEF UseInv, OneWorker
<1>13. ASSUME NEW t \in Threads, RestorePad(t)
      PROVE UseInv'
  <2>1. worker[t] \in Locals /\ worker'[t] \in Locals
    BY <1>13, RestorePadDoes DEF Turns
  <2>2. Active(t) /\ Active(t)'
    BY <1>13, RestorePadDoes DEF Active, Loops
  <2>3. UseOK(worker[t]) /\ LoopOK(worker[t])
    BY <2>2 DEF UseInv, LoopInv
  <2>4. UseOK(worker[t])'
    BY <1>13, <2>1, <2>2, <2>3, RestorePadDoes, HeldAt DEF Turns, Keeps, Stays,
       Loops, UseOK, Taking, Planning, Releasing, Locals, Servos, CleansUp
  <2> QED
    BY <2>2, <2>4 DEF UseInv, OneWorker
<1>14. ASSUME NEW t \in Threads, Finish(t)
      PROVE UseInv'
  <2>1. worker[t] \in Locals /\ Active(t) /\ worker[t].pc = "end"
    BY <1>14, FinishDoes DEF Turns, Active
  <2>2. UseOK(worker[t])
    BY <2>1 DEF UseInv
  <2>3. UseOK(Idle)'
    BY <1>14, <2>1, <2>2, FinishDoes DEF UseOK, Held, Taking, Planning,
       Releasing, Locals, Servos, Idle
  <2>4. ~running'
    BY <1>14, FinishDoes
  <2> QED
    BY <2>3, <2>4 DEF UseInv, OneWorker
<1>15. CASE UNCHANGED vars
  BY <1>15 DEF vars, UseInv, UseOK, Active
<1>16. ASSUME NEW t \in Threads, HeedStop(t)
      PROVE UseInv'
  <2>1. worker[t] \in Locals /\ worker'[t] \in Locals
    BY <1>16, HeedStopDoes DEF Turns
  <2>2. Active(t) /\ Active(t)'
    BY <1>16, HeedStopDoes DEF Active, CleansUp
  <2>3. UseOK(worker[t]) /\ LoopOK(worker[t])
    BY <2>2 DEF UseInv, LoopInv
  <2>4. UseOK(worker[t])'
    <3>1. Held(worker[t]) = worker[t].owned
      BY <1>16, <2>1, HeldAt, HeedStopDoes DEF Taking
    <3>2. Held(worker'[t]) = worker[t].owned
      BY <1>16, <2>1, HeldAt, HeedStopDoes DEF Keeps, Taking
    <3> QED
      BY <1>16, <2>3, <3>1, <3>2, HeedStopDoes DEF UseOK, Still
  <2> QED
    BY <2>2, <2>4 DEF UseInv, OneWorker
<1>17. ASSUME NEW t \in Threads, StepPulse(t)
      PROVE UseInv'
  <2>1. worker[t] \in Locals /\ worker'[t] \in Locals
    BY <1>17, StepPulseDoes DEF Turns
  <2>2. Active(t) /\ Active(t)'
    BY <1>17, StepPulseDoes DEF Active, CleansUp
  <2>3. UseOK(worker[t]) /\ LoopOK(worker[t])
    BY <2>2 DEF UseInv, LoopInv
  <2>4. UseOK(worker[t])'
    <3>1. Held(worker[t]) = worker[t].owned /\ worker[t].i \in worker[t].owned
      BY <1>17, <2>1, <2>3, HeldAt, StepPulseDoes DEF LoopOK, Planning
    <3>2. Held(worker'[t]) = worker[t].owned
      BY <1>17, <2>1, HeldAt, StepPulseDoes DEF Keeps, Planning
    <3>3. /\ UNCHANGED ctl \/ ctl' = [ctl EXCEPT ![worker[t].i] = "servo"]
          /\ UNCHANGED <<status, toolOn, meddled>>
      BY <1>17, StepPulseDoes DEF SetPulse
    <3> QED
      BY <1>t, <2>3, <3>1, <3>2, <3>3 DEF UseOK, Types
  <2> QED
    BY <2>2, <2>4 DEF UseInv, OneWorker
<1> QED
  BY <1>1, <1>2, <1>3, <1>4, <1>5, <1>6, <1>7, <1>8, <1>9, <1>10, <1>11,
     <1>12, <1>13, <1>14, <1>15, <1>16, <1>17 DEF Next, Worker, Starts

(* Arithmetic of the plan: positions are counted row by row.               *)
LEMMA OneMore == ASSUME NEW a \in Int, NEW b \in Int
                 PROVE  (a + 1) * b = a * b + b
OBVIOUS

LEMMA ProductMonotone ==
  ASSUME NEW a \in Int, NEW b \in Int, NEW c \in Nat, a <= b
  PROVE  a * c <= b * c
OBVIOUS

Row(w) == (w.rep - 1) * N + (w.i - 1)

LEMMA RowFits ==
  ASSUME NEW w \in Locals
  PROVE  /\ w.i \in 1 .. N /\ w.rep \in 1 .. Reps /\ w.s \in 1 .. Steps
         /\ Row(w) \in Nat /\ Row(w) + 1 <= Reps * N
         /\ Before(w) = Row(w) * Steps + (w.s - 1) /\ Before(w) \in Nat
<1>1. w.i \in 1 .. N /\ w.rep \in 1 .. Reps /\ w.s \in 1 .. Steps
  BY DEF Locals, Servos
<1>2. N \in Nat /\ Reps \in Nat /\ Steps \in Nat
  BY BenchAssumption
<1>3. w.rep - 1 \in Nat /\ w.rep - 1 <= Reps - 1 /\ Reps - 1 \in Int
  BY <1>1, <1>2
<1>4. (w.rep - 1) * N \in Nat /\ (w.rep - 1) * N <= (Reps - 1) * N
  <2>1. \A a \in Nat, b \in Nat : a * b \in Nat
    OBVIOUS
  <2> QED
    BY <1>2, <1>3, <2>1, ProductMonotone
<1>5. (Reps - 1) * N + N = Reps * N
  <2>1. Reps = (Reps - 1) + 1
    BY <1>2
  <2> QED
    BY <1>2, <1>3, <2>1, OneMore
<1>6. Row(w) \in Nat /\ Row(w) + 1 <= Reps * N
  BY <1>1, <1>2, <1>3, <1>4, <1>5 DEF Row
<1>7. Row(w) * Steps \in Nat
  BY <1>2, <1>6
<1>8. Before(w) = Row(w) * Steps + (w.s - 1)
  BY DEF Before, Row
<1> QED
  BY <1>1, <1>6, <1>7, <1>8

LEMMA PlanFits ==
  ASSUME NEW w \in Locals
  PROVE  N + Before(w) + 1 <= PlanLength
<1> DEFINE k == Row(w) + 1
<1>1. k \in Int /\ Reps * N \in Int /\ Steps \in Nat /\ N \in Nat /\ Reps \in Nat
  BY BenchAssumption, RowFits
<1>2. k * Steps <= (Reps * N) * Steps
  <2>1. k <= Reps * N
    BY RowFits
  <2> HIDE DEF k
  <2> QED
    BY <1>1, <2>1, ProductMonotone
<1>3. k * Steps = Row(w) * Steps + Steps
  BY <1>1, RowFits, OneMore
<1>4. PlanLength = N + (Reps * N) * Steps
  BY <1>1 DEF PlanLength
<1>5. Row(w) * Steps \in Int /\ (Reps * N) * Steps \in Int
  BY <1>1, RowFits
<1>6. Row(w) * Steps + Steps <= (Reps * N) * Steps
  BY <1>2, <1>3
<1>7. Before(w) = Row(w) * Steps + (w.s - 1) /\ w.s \in Int /\ w.s <= Steps
  BY <1>1, RowFits
<1> HIDE DEF k
<1> QED
  BY <1>1, <1>4, <1>5, <1>6, <1>7

LEMMA NextRow ==
  ASSUME NEW w \in Locals, NEW v \in Locals, Advances(w, v), v.pc = "step"
  PROVE  Before(v) = Before(w) + (Steps - w.s) + 1
<1>1. N \in Nat /\ Steps \in Nat
  BY BenchAssumption
<1>2. Row(v) = Row(w) + 1
  <2>1. CASE w.i < N /\ v.i = w.i + 1 /\ v.rep = w.rep
    BY <1>1, <2>1, RowFits DEF Row
  <2>2. CASE w.i = N /\ v.i = 1 /\ v.rep = w.rep + 1
    <3>1. ((w.rep - 1) + 1) * N = (w.rep - 1) * N + N
      <4>1. w.rep - 1 \in Int /\ N \in Int
        BY <1>1, RowFits
      <4> QED
        BY <4>1, OneMore
    <3>2. v.rep - 1 = (w.rep - 1) + 1
      BY <2>2, RowFits
    <3>3. (w.rep - 1) * N \in Int
      BY <1>1, RowFits
    <3> QED
      BY <1>1, <2>2, <3>1, <3>2, <3>3, RowFits DEF Row
  <2> QED
    BY <2>1, <2>2 DEF Advances, CleansUp
<1>3. Row(v) * Steps = Row(w) * Steps + Steps
  BY <1>1, <1>2, RowFits, OneMore
<1>4. v.s = 1
  BY DEF Advances, CleansUp
<1>5. Row(w) * Steps \in Int
  BY <1>1, RowFits
<1> QED
  BY <1>1, <1>3, <1>4, <1>5, RowFits

(* One pulse per position of the plan. *)
LEMMA CountInvStep == IInv /\ [Next]_vars => CountInv'
<1> SUFFICES ASSUME IInv, [Next]_vars PROVE CountInv'
  OBVIOUS
<1>0. WorkerType /\ OneWorker /\ LoopInv /\ CountInv /\ OneWorker'
  BY OneWorkerStep DEF IInv, Types, WorkerType
<1>t. Types
  BY DEF IInv
<1> USE <1>0 DEF statics, driver, ghosts
<1>1. ASSUME NEW t \in Threads, NEW mask \in Masks, Starts(t, mask)
      PROVE CountInv'
  <2>1. 0 <= PlanLength
    <3>1. Idle \in Locals
      BY BenchAssumption DEF Idle, Locals, Servos, Points
    <3>2. Before(Idle) \in Nat /\ N + Before(Idle) + 1 <= PlanLength
      BY <3>1, RowFits, PlanFits
    <3> QED
      BY <3>2, BenchAssumption DEF PlanLength
  <2>2. CASE worker' = worker /\ ~running'
    <3>1. CountOK(Idle)'
      BY <1>1, <2>1, StartDoes DEF CountOK, Idle, Taking
    <3> QED
      BY <2>2, <3>1 DEF CountInv, OneWorker
  <2>3. CASE running' /\ Turns(t) /\ worker'[t].pc = "init"
    <3>1. /\ worker'[t].rep = 1 /\ worker'[t].s = 1 /\ worker'[t].i = 1
          /\ seq' = 0
      BY <1>1, <2>3, StartDoes DEF Turns
    <3>2. CountOK(worker[t])'
      BY <2>1, <2>3, <3>1 DEF CountOK, Taking
    <3>3. Active(t)'
      BY <2>3 DEF Active
    <3> QED
      BY <3>2, <3>3 DEF CountInv, OneWorker
  <2> QED
    BY <1>1, <2>2, <2>3, StartDoes
<1>2. CASE Stop
  BY <1>2 DEF Stop, CountInv, CountOK, Active, Locals
<1>3. ASSUME NEW i \in Servos, ToolOn(i)
      PROVE CountInv'
  BY <1>3 DEF ToolOn, Opened, CanInit, CountInv, CountOK, Active, Locals
<1>4. ASSUME NEW i \in Servos, ToolOff(i)
      PROVE CountInv'
  BY <1>4 DEF ToolOff, Deinit, CountInv, CountOK, Active, Locals
<1>5. ASSUME NEW t \in Threads, InitServo(t)
      PROVE CountInv'
  <2>1. worker[t] \in Locals /\ worker'[t] \in Locals
    BY <1>5, InitServoDoes DEF Turns
  <2>2. Active(t) /\ Active(t)'
    BY <1>5, InitServoDoes DEF Active, Loops, CleansUp
  <2>3. CountOK(worker[t]) /\ LoopOK(worker[t])
    BY <2>2 DEF CountInv, LoopInv
  <2>4. CountOK(worker[t])'

    <3>1. seq' = seq /\ seq \in Nat
      BY <1>5, <1>t, InitServoDoes DEF Types
    <3>2. worker[t].i \in 1 .. N /\ N \in Nat
      BY <2>1, RowFits, BenchAssumption
    <3>3. seq <= PlanLength /\ seq <= worker[t].i - 1
      BY <1>5, <2>3, InitServoDoes DEF CountOK, Taking
    <3>4. worker'[t].rep = 1 /\ worker'[t].s = 1
      BY <1>5, <2>3, InitServoDoes DEF CountOK, Taking, Stays
    <3>5. CASE CleansUp(worker'[t])
      BY <3>1, <3>3, <3>5 DEF CountOK, CleansUp, Taking
    <3>6. CASE Loops(worker[t], worker'[t], "init", "settle")
      BY <3>1, <3>2, <3>3, <3>4, <3>6 DEF CountOK, Loops, Taking
    <3>7. CASE worker'[t].pc = "mux" /\ worker'[t].i = worker[t].i
      BY <3>1, <3>3, <3>4, <3>7 DEF CountOK, Taking
    <3> QED
      BY <1>5, <3>5, <3>6, <3>7, InitServoDoes
  <2> QED
    BY <2>2, <2>4 DEF CountInv, OneWorker
<1>6. ASSUME NEW t \in Threads, MuxPad(t)
      PROVE CountInv'
  <2>1. worker[t] \in Locals /\ worker'[t] \in Locals
    BY <1>6, MuxPadDoes DEF Turns
  <2>2. Active(t) /\ Active(t)'
    BY <1>6, MuxPadDoes DEF Active
  <2>3. CountOK(worker[t]) /\ LoopOK(worker[t])
    BY <2>2 DEF CountInv, LoopInv
  <2>4. CountOK(worker[t])'

    <3>1. seq' = seq
      BY <1>6, MuxPadDoes
    <3> QED
      BY <1>6, <2>3, <3>1, MuxPadDoes DEF CountOK, Taking, Stays
  <2> QED
    BY <2>2, <2>4 DEF CountInv, OneWorker
<1>7. ASSUME NEW t \in Threads, FirstPulse(t)
      PROVE CountInv'
  <2>1. worker[t] \in Locals /\ worker'[t] \in Locals
    BY <1>7, FirstPulseDoes DEF Turns
  <2>2. Active(t) /\ Active(t)'
    BY <1>7, FirstPulseDoes DEF Active, Loops, CleansUp
  <2>3. CountOK(worker[t]) /\ LoopOK(worker[t])
    BY <2>2 DEF CountInv, LoopInv
  <2>4. CountOK(worker[t])'

    <3>1. seq \in Nat /\ seq' = seq + 1
      BY <1>7, <1>t, FirstPulseDoes DEF Types, SetPulse
    <3>2. worker[t].i \in 1 .. N /\ N \in Nat
      BY <2>1, RowFits, BenchAssumption
    <3>3. seq <= worker[t].i - 1 /\ worker'[t].rep = 1 /\ worker'[t].s = 1
      BY <1>7, <2>3, FirstPulseDoes DEF CountOK, Taking, Stays
    <3>4. N <= PlanLength /\ PlanLength \in Int
      BY <2>1, RowFits, PlanFits, BenchAssumption DEF PlanLength
    <3>5. seq' <= PlanLength /\ seq' <= worker[t].i
      BY <3>1, <3>2, <3>3, <3>4
    <3>6. CASE CleansUp(worker'[t])
      BY <3>5, <3>6 DEF CountOK, CleansUp, Taking
    <3>7. CASE Loops(worker[t], worker'[t], "init", "settle")
      BY <3>1, <3>2, <3>3, <3>5, <3>7 DEF CountOK, Loops, Taking
    <3> QED
      BY <1>7, <3>6, <3>7, FirstPulseDoes
  <2> QED
    BY <2>2, <2>4 DEF CountInv, OneWorker
<1>8. ASSUME NEW t \in Threads, Settle(t)
      PROVE CountInv'
  <2>1. worker[t] \in Locals /\ worker'[t] \in Locals
    BY <1>8, SettleDoes DEF Turns
  <2>2. Active(t) /\ Active(t)'
    BY <1>8, SettleDoes DEF Active
  <2>3. CountOK(worker[t]) /\ LoopOK(worker[t])
    BY <2>2 DEF CountInv, LoopInv
  <2>4. CountOK(worker[t])'

    <3>1. seq' = seq /\ seq \in Nat /\ N \in Nat
      BY <1>8, <1>t, SettleDoes, BenchAssumption DEF Types, Still
    <3>2. Before(worker'[t]) \in Nat
      BY <2>1, RowFits
    <3>3. seq <= N /\ seq <= PlanLength
      BY <1>8, <2>3, SettleDoes DEF CountOK
    <3>4. seq <= N + Before(worker'[t])
      BY <3>1, <3>2, <3>3
    <3> QED
      BY <1>8, <3>1, <3>3, <3>4, SettleDoes DEF CountOK, Taking
  <2> QED
    BY <2>2, <2>4 DEF CountInv, OneWorker
<1>9. ASSUME NEW t \in Threads, Step(t)
      PROVE CountInv'
  <2>1. worker[t] \in Locals /\ worker'[t] \in Locals
    BY <1>9, StepDoes DEF Turns
  <2>2. Active(t) /\ Active(t)'
    BY <1>9, StepDoes DEF Active, Advances, CleansUp
  <2>3. CountOK(worker[t]) /\ LoopOK(worker[t])
    BY <2>2 DEF CountInv, LoopInv
  <2>4. CountOK(worker[t])'

    <3>1. seq \in Nat /\ seq <= N + Before(worker[t]) /\ seq <= PlanLength
      BY <1>9, <1>t, <2>3, StepDoes DEF Types, CountOK
    <3>2. /\ Before(worker[t]) \in Nat /\ Before(worker'[t]) \in Nat
          /\ N \in Nat /\ Steps \in Nat /\ worker[t].s \in 1 .. Steps
          /\ N + Before(worker[t]) + 1 <= PlanLength /\ PlanLength \in Int
      BY <2>1, RowFits, PlanFits, BenchAssumption DEF PlanLength
    <3>3. seq' = seq
      BY <1>9, StepDoes DEF Still
    <3>4. CASE Advances(worker[t], worker'[t])
      <4>1. CASE worker'[t].pc = "step"
        <5>1. Before(worker'[t]) = Before(worker[t]) + (Steps - worker[t].s) + 1
          BY <2>1, <3>4, <4>1, NextRow
        <5>2. seq <= N + Before(worker'[t])
          BY <3>1, <3>2, <5>1
        <5> QED
          BY <3>1, <3>3, <4>1, <5>2 DEF CountOK, Taking
      <4>2. CASE worker'[t].pc # "step"
        BY <3>1, <3>3, <3>4, <4>2 DEF CountOK, Advances, CleansUp, Taking
      <4> QED
        BY <4>1, <4>2
    <3>5. CASE /\ worker'[t].pc = "pulse" /\ worker'[t].i = worker[t].i
               /\ Stays(worker[t], worker'[t])
      <4>1. Before(worker'[t]) = Before(worker[t])
        BY <3>5 DEF Before, Stays
      <4> QED
        BY <3>1, <3>3, <3>5, <4>1 DEF CountOK, Taking
    <3> QED
      BY <1>9, <3>4, <3>5, StepDoes
  <2> QED
    BY <2>2, <2>4 DEF CountInv, OneWorker
<1>10. ASSUME NEW t \in Threads, Pause(t)
      PROVE CountInv'
  <2>1. worker[t] \in Locals /\ worker'[t] \in Locals
    BY <1>10, PauseDoes DEF Turns
  <2>2. Active(t) /\ Active(t)'
    BY <1>10, PauseDoes DEF Active, Advances, CleansUp
  <2>3. CountOK(worker[t]) /\ LoopOK(worker[t])
    BY <2>2 DEF CountInv, LoopInv
  <2>4. CountOK(worker[t])'

    <3>1. /\ seq \in Nat /\ seq <= N + Before(worker[t]) + 1
          /\ seq <= PlanLength /\ seq' = seq
      BY <1>10, <1>t, <2>3, PauseDoes DEF Types, CountOK, Still
    <3>2. /\ Before(worker[t]) \in Nat /\ Before(worker'[t]) \in Nat
          /\ N \in Nat /\ Steps \in Nat /\ worker[t].s \in 1 .. Steps
      BY <2>1, RowFits, BenchAssumption
    <3>3. CASE /\ worker'[t].pc = "step" /\ worker'[t].i = worker[t].i
               /\ worker'[t].rep = worker[t].rep
               /\ worker'[t].s = worker[t].s + 1
      <4>1. Row(worker'[t]) = Row(worker[t])
        BY <3>3 DEF Row
      <4>2. Row(worker[t]) * Steps \in Int
        BY <2>1, <3>2, RowFits
      <4>3. Before(worker'[t]) = Before(worker[t]) + 1
        BY <2>1, <3>2, <3>3, <4>1, <4>2, RowFits
      <4>4. seq <= N + Before(worker'[t])
        BY <3>1, <3>2, <4>3
      <4> QED
        BY <3>1, <3>3, <4>4 DEF CountOK, Taking
    <3>4. CASE worker[t].s = Steps /\ Advances(worker[t], worker'[t])
      <4>1. CASE worker'[t].pc = "step"
        <5>1. Before(worker'[t]) = Before(worker[t]) + (Steps - worker[t].s) + 1
          BY <2>1, <3>4, <4>1, NextRow
        <5>2. seq <= N + Before(worker'[t])
          BY <3>1, <3>2, <3>4, <5>1
        <5> QED
          BY <3>1, <4>1, <5>2 DEF CountOK, Taking
      <4>2. CASE worker'[t].pc # "step"
        BY <3>1, <3>4, <4>2 DEF CountOK, Advances, CleansUp, Taking
      <4> QED
        BY <4>1, <4>2
    <3> QED
      BY <1>10, <3>3, <3>4, PauseDoes
  <2> QED
    BY <2>2, <2>4 DEF CountInv, OneWorker
<1>11. ASSUME NEW t \in Threads, StopServo(t)
      PROVE CountInv'
  <2>1. worker[t] \in Locals /\ worker'[t] \in Locals
    BY <1>11, StopServoDoes DEF Turns
  <2>2. Active(t) /\ Active(t)'
    BY <1>11, StopServoDoes DEF Active, Loops
  <2>3. CountOK(worker[t]) /\ LoopOK(worker[t])
    BY <2>2 DEF CountInv, LoopInv
  <2>4. CountOK(worker[t])'
    BY <1>11, <2>3, StopServoDoes DEF CountOK, Loops, Taking, Keeps, statics
  <2> QED
    BY <2>2, <2>4 DEF CountInv, OneWorker
<1>12. ASSUME NEW t \in Threads, DeinitServo(t)
      PROVE CountInv'
  <2>1. worker[t] \in Locals /\ worker'[t] \in Locals
    BY <1>12, DeinitServoDoes DEF Turns
  <2>2. Active(t) /\ Active(t)'
    BY <1>12, DeinitServoDoes DEF Active, Loops
  <2>3. CountOK(worker[t]) /\ LoopOK(worker[t])
    BY <2>2 DEF CountInv, LoopInv
  <2>4. CountOK(worker[t])'
    BY <1>12, <2>3, DeinitServoDoes DEF CountOK, Loops, Taking, Keeps, statics
  <2> QED
    BY <2>2, <2>4 DEF CountInv, OneWorker
<1>13. ASSUME NEW t \in Threads, RestorePad(t)
      PROVE CountInv'
  <2>1. worker[t] \in Locals /\ worker'[t] \in Locals
    BY <1>13, RestorePadDoes DEF Turns
  <2>2. Active(t) /\ Active(t)'
    BY <1>13, RestorePadDoes DEF Active, Loops
  <2>3. CountOK(worker[t]) /\ LoopOK(worker[t])
    BY <2>2 DEF CountInv, LoopInv
  <2>4. CountOK(worker[t])'
    BY <1>13, <2>3, RestorePadDoes DEF CountOK, Loops, Taking, Keeps, statics
  <2> QED
    BY <2>2, <2>4 DEF CountInv, OneWorker
<1>14. ASSUME NEW t \in Threads, Finish(t)
      PROVE CountInv'
  <2>1. worker[t] \in Locals /\ Active(t) /\ worker[t].pc = "end"
    BY <1>14, FinishDoes DEF Turns, Active
  <2>2. CountOK(worker[t])
    BY <2>1 DEF CountInv
  <2>3. CountOK(Idle)'
    BY <1>14, <2>1, <2>2, FinishDoes DEF CountOK, Taking, Idle
  <2>4. ~running'
    BY <1>14, FinishDoes
  <2> QED
    BY <2>3, <2>4 DEF CountInv, OneWorker
<1>15. CASE UNCHANGED vars
  BY <1>15 DEF vars, CountInv, CountOK, Active
<1>16. ASSUME NEW t \in Threads, HeedStop(t)
      PROVE CountInv'
  <2>1. worker[t] \in Locals /\ worker'[t] \in Locals
    BY <1>16, HeedStopDoes DEF Turns
  <2>2. Active(t) /\ Active(t)'
    BY <1>16, HeedStopDoes DEF Active, CleansUp
  <2>3. CountOK(worker[t]) /\ LoopOK(worker[t])
    BY <2>2 DEF CountInv, LoopInv
  <2>4. CountOK(worker[t])'
    <3>1. seq' = seq
      BY <1>16, HeedStopDoes DEF Still
    <3> QED
      BY <1>16, <2>3, <3>1, HeedStopDoes DEF CountOK, CleansUp, Taking, Stays
  <2> QED
    BY <2>2, <2>4 DEF CountInv, OneWorker
<1>17. ASSUME NEW t \in Threads, StepPulse(t)
      PROVE CountInv'
  <2>1. worker[t] \in Locals /\ worker'[t] \in Locals
    BY <1>17, StepPulseDoes DEF Turns
  <2>2. Active(t) /\ Active(t)'
    BY <1>17, StepPulseDoes DEF Active, CleansUp
  <2>3. CountOK(worker[t]) /\ LoopOK(worker[t])
    BY <2>2 DEF CountInv, LoopInv
  <2>4. CountOK(worker[t])'
    <3>1. seq \in Nat /\ seq <= N + Before(worker[t])
      BY <1>17, <1>t, <2>3, StepPulseDoes DEF Types, CountOK
    <3>2. /\ Before(worker[t]) \in Nat /\ N \in Nat
          /\ N + Before(worker[t]) + 1 <= PlanLength /\ PlanLength \in Int
      BY <2>1, RowFits, PlanFits, BenchAssumption DEF PlanLength
    <3>3. seq' = seq + 1
      BY <1>17, StepPulseDoes DEF SetPulse
    <3>4. seq' <= N + Before(worker[t]) + 1 /\ seq' <= PlanLength
      BY <3>1, <3>2, <3>3
    <3>5. CASE CleansUp(worker'[t])
      BY <3>4, <3>5 DEF CountOK, CleansUp, Taking
    <3>6. CASE worker'[t].pc = "pause" /\ worker'[t].i = worker[t].i
      <4>1. Before(worker'[t]) = Before(worker[t])
        BY <1>17, <3>6, StepPulseDoes DEF Before, Stays
      <4> QED
        BY <3>4, <3>6, <4>1 DEF CountOK, Taking
    <3> QED
      BY <1>17, <3>5, <3>6, StepPulseDoes
  <2> QED
    BY <2>2, <2>4 DEF CountInv, OneWorker
<1> QED
  BY <1>1, <1>2, <1>3, <1>4, <1>5, <1>6, <1>7, <1>8, <1>9, <1>10, <1>11,
     <1>12, <1>13, <1>14, <1>15, <1>16, <1>17 DEF Next, Worker, Starts

(* Nothing is taken and nobody is at work. *)
LEMMA InitIInv == Init => IInv
<1> SUFFICES ASSUME Init PROVE IInv
  OBVIOUS
<1> USE DEF Init
<1>1. 1 \in Servos /\ 1 \in 1 .. Reps /\ 1 \in 1 .. Steps /\ MaxStarts \in Nat
  BY BenchAssumption DEF Servos
<1>2. Idle \in Locals /\ Idle.pc = "none"
  BY <1>1 DEF Idle, Locals, Points
<1>3. Types
  <2>1. selected_mask \in Masks
    BY <1>1 DEF Masks
  <2>2. worker \in [Threads -> Locals]
    BY <1>2
  <2>3. /\ saved \in [Servos -> {"none", "other"}]
        /\ ctl \in [Servos -> {"off", "servo", "tool"}]
        /\ pad \in [Servos -> {"other", "pwm"}]
    OBVIOUS
  <2>4. starts \in 0 .. MaxStarts
    BY <1>1
  <2> QED
    BY <2>1, <2>2, <2>3, <2>4 DEF Types
<1>4. OneWorker /\ (\A t \in Threads : ~Active(t))
  BY <1>2 DEF OneWorker, Active
<1>5. Driven(Idle) = {} /\ Held(Idle) = {} /\ Connected(Idle) = {}
  BY <1>2, DrivenAt, HeldAt, ConnectedAt
<1>6. LoopInv /\ PulseInv /\ PadInv /\ UseInv /\ ClockInv /\ StopInv
  BY <1>4, <1>5 DEF LoopInv, PulseInv, PulseOK, PadInv, PadOK, UseInv, UseOK,
     ClockInv, StopInv
<1>7. 0 <= PlanLength
  BY <1>2, RowFits, PlanFits, BenchAssumption DEF PlanLength
<1>8. CountInv
  BY <1>2, <1>4, <1>7 DEF CountInv, CountOK, Taking
<1> QED
  BY <1>3, <1>4, <1>6, <1>8 DEF IInv

(* The strengthening is an invariant of the bench. *)
THEOREM Invariance == Spec => []IInv
<1>1. IInv /\ [Next]_vars => IInv'
  BY TypesStep, OneWorkerStep, StopInvStep, ClockInvStep, LoopInvStep,
     PulseInvStep, PadInvStep, UseInvStep, CountInvStep DEF IInv
<1> QED
  BY <1>1, InitIInv, PTL DEF Spec

(* Every variable keeps its type; seq, which the log shows, never exceeds  *)
(* the length of the plan.                                                 *)
THEOREM TypeCorrect == Spec => []TypeOK
<1>1. IInv => TypeOK
  <2> SUFFICES ASSUME IInv PROVE TypeOK
    OBVIOUS
  <2>1. seq <= PlanLength
    BY DEF IInv, CountInv, CountOK, OneWorker
  <2>2. PlanLength \in Nat
    BY BenchAssumption DEF PlanLength
  <2>3. seq \in 0 .. N * (1 + Reps * Steps)
    BY <2>1, <2>2 DEF IInv, Types, PlanLength
  <2> QED
    BY <2>3 DEF IInv, Types, Locals, TypeOK
<1> QED
  BY <1>1, Invariance, PTL

(* Whatever ended the run, when running is clear no channel carries a      *)
(* servo pulse and no pad is on a PWM (worker_entry's cleanup).            *)
THEOREM NoPulseWithoutRun == Spec => []PulsesEndWithRun
<1>1. IInv => PulsesEndWithRun
  <2> SUFFICES ASSUME IInv, ~running, NEW i \in Servos
               PROVE  ctl[i] # "servo" /\ pad[i] = "other"
    BY DEF PulsesEndWithRun
  <2>1. Idle \in Locals /\ Idle.pc = "none"
    BY BenchAssumption DEF Idle, Locals, Servos, Points
  <2>2. i \notin Driven(Idle) /\ i \notin Connected(Idle)
    BY <2>1, DrivenAt, ConnectedAt
  <2>3. PulseOK(Idle) /\ PadOK(Idle)
    BY DEF IInv, PulseInv, PadInv
  <2> QED
    BY <2>2, <2>3 DEF PulseOK, PadOK, IInv, Types
<1> QED
  BY <1>1, Invariance, PTL

(* Then exactly the operator's channels are in use.                        *)
THEOREM ChannelsComeBack == Spec => []ChannelsGivenBack
<1>1. IInv => ChannelsGivenBack
  <2> SUFFICES ASSUME IInv, ~running, ~meddled PROVE status = toolOn
    BY DEF ChannelsGivenBack
  <2>1. Idle \in Locals /\ Idle.pc = "none"
    BY BenchAssumption DEF Idle, Locals, Servos, Points
  <2>2. Held(Idle) = {}
    BY <2>1, HeldAt
  <2>3. UseOK(Idle)
    BY DEF IInv, UseInv
  <2> QED
    BY <2>2, <2>3 DEF UseOK
<1> QED
  BY <1>1, Invariance, PTL

(* A channel of the operator keeps waveform, clock and group clock.        *)
THEOREM ToolChannelsAreKept == Spec => []ToolKeepsChannel
<1>1. IInv => ToolKeepsChannel
  <2> SUFFICES ASSUME IInv, ~meddled, NEW i \in toolOn
               PROVE  ctl[i] = "tool" /\ i \in status /\ GroupOf[i] \in busy
    BY DEF ToolKeepsChannel
  <2>1. PICK S : /\ status = toolOn \cup S
                 /\ \A j \in toolOn : ctl[j] = "tool"
    BY DEF IInv, UseInv, UseOK, OneWorker
  <2> QED
    BY <2>1 DEF IInv, ClockInv
<1> QED
  BY <1>1, Invariance, PTL

(* After servo_bench stop at most one more pulse command is given.         *)
THEOREM StopsPromptly == Spec => []StopIsPrompt
<1>1. IInv => StopIsPrompt
  BY DEF IInv, Types, StopInv, StopIsPrompt
<1> QED
  BY <1>1, Invariance, PTL

(* A pad is switched only while its channel drives no servo pulse.         *)
THEOREM PadsMoveQuietly == Spec => PadsMoveWhenQuiet
<1>1. IInv /\ [Next]_vars
        => [\A i \in Servos : pad'[i] # pad[i] => ctl[i] # "servo"]_vars
  <2> SUFFICES ASSUME IInv, Next, NEW i \in Servos, pad'[i] # pad[i]
               PROVE  ctl[i] # "servo"
    OBVIOUS
  <2>1. PICK t \in Threads : MuxPad(t) \/ RestorePad(t)
    BY DEF Next, Worker, Start, Stop, ToolOn, ToolOff, InitServo, HeedStop,
       FirstPulse, SetPulse, Settle, Step, StepPulse, Pause, StopServo,
       DeinitServo, Finish
  <2>2. WorkerType /\ pad \in [Servos -> {"other", "pwm"}]
    BY DEF IInv, Types, WorkerType
  <2>3. CASE MuxPad(t)
    <3>1. /\ worker[t] \in Locals /\ worker[t].pc = "mux"
          /\ pad' = [pad EXCEPT ![worker[t].i] = "pwm"]
      BY <2>2, <2>3, MuxPadDoes DEF Turns
    <3>2. i \notin Driven(worker[t])
      BY <2>2, <3>1, DrivenAt
    <3> QED
      BY <3>1, <3>2 DEF IInv, PulseInv, PulseOK, Active
  <2>4. CASE RestorePad(t)
    <3>1. worker[t] \in Locals /\ worker[t].pc = "restore"
      BY <2>2, <2>4, RestorePadDoes DEF Turns
    <3>2. i \notin Driven(worker[t])
      BY <3>1, DrivenAt
    <3> QED
      BY <3>1, <3>2 DEF IInv, PulseInv, PulseOK, Active
  <2> QED
    BY <2>1, <2>3, <2>4
<1> QED
  BY <1>1, Invariance, PTL DEF Spec, PadsMoveWhenQuiet
=============================================================================
