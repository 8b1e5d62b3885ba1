--------------------------- MODULE PinLeaseProofs --------------------------
(***************************************************************************)
(* Proofs about PinLease for any number of programs and of pads: it        *)
(* implements BoardLease, nothing has two masters, and pads move only      *)
(* while their channels are off.                                           *)
(*                                                                         *)
(* The holder of the lock is the program whose control point lies behind   *)
(* it (HolderInv), so only one program's locals matter at a time. BoardInv *)
(* relates them to the board as it was found; PulseInv says who may drive  *)
(* a channel whose pad is going to move; CoreInv keeps the core and the    *)
(* benches apart, which no lock does: a killed loader's core goes on.      *)
(***************************************************************************)
EXTENDS PinLease, TLAPS

Before == {"off", "groups", "lock"}
Unsaved == Before \cup {"clients", "save"}
Serving == {"serve", "holding", "fatal"}
LoaderPoints == Serving \cup {"registers", "registers back", "groups back"}
Apart == LoaderPoints \cup {"lines", "use", "quiet"}   \* from I2C0
Points == Unsaved \cup {"unbind"} \cup Apart \cup {"lines back", "pads back", "unlock"}
Kinds == {"loader", "bench"}
DevStates == {"none", "open", "muxed", "on", "quiet"}

ProcOK ==
  /\ pc \in [Procs -> Points] /\ kind \in [Procs -> Kinds]
  /\ saved \in [Procs -> BOOLEAN] /\ old \in [Procs -> [Pads -> PadValues]]
  /\ detached \in [Procs -> BOOLEAN] /\ left \in [Procs -> SUBSET Pads]
  /\ dev \in [Procs -> [Pads -> DevStates]]
KernelOK ==
  /\ owner \in Procs \cup {Nobody} /\ driver \in BOOLEAN /\ groups \in BOOLEAN
BoardOK ==
  /\ pad \in [Pads -> PadValues] /\ pulse \in [Pads -> {"off", "bench", "core"}]
  /\ core \in {"off", "fresh", "ready"}
GhostOK ==
  /\ found \in [pad : [Pads -> PadValues], driver : BOOLEAN]
  /\ abandoned \in BOOLEAN /\ excused \in BOOLEAN
TypeOK == ProcOK /\ KernelOK /\ BoardOK /\ GhostOK

HolderInv == \A p \in Procs : pc[p] \notin Before <=> owner = p

(* What a program knows of itself at each point.                           *)
Local(p) ==
  /\ pc[p] \in Unsaved => ~saved[p]
  /\ pc[p] \in Apart \cup {"unbind"} => saved[p]
  /\ pc[p] = "pads back" /\ left[p] # {} => saved[p]
  /\ pc[p] \in Unsaved \cup {"unbind"} => ~detached[p]
  /\ pc[p] \in LoaderPoints => kind[p] = "loader"
  /\ \A i \in Pads : dev[p][i] # "none" =>
                        kind[p] = "bench" /\ pc[p] \in {"use", "quiet"}
OneLoader ==
  \A p, q \in Procs : kind[p] = "loader" /\ kind[q] = "loader" => p = q
LocalInv == (\A p \in Procs : Local(p)) /\ OneLoader

CoreOf(p) ==
  /\ kind[p] = "loader" /\ pc[p] \notin Serving => core = "off"
  /\ pc[p] \in LoaderPoints => ~groups
  /\ ~groups => \A i \in Pads : dev[p][i] = "none"
CoreInv == (\A p \in Procs : CoreOf(p)) /\ (core # "off" => ~groups) /\ CoreAlone

(* The holder can restore what it found.                                   *)
Restorable(p) ==
  /\ saved[p] => old[p] = found.pad
  /\ ~saved[p] => pad = found.pad
  /\ detached[p] => found.driver /\ ~driver
  /\ ~detached[p] => driver = found.driver
  /\ pc[p] = "pads back" => \A i \in Pads \ left[p] : pad[i] = found.pad[i]
  /\ pc[p] = "unlock" => pad = found.pad /\ driver = found.driver
  /\ pc[p] \in Apart => ~driver
NoConflict ==
  /\ found.driver => \A i \in Pads : found.pad[i] = "board"
  /\ driver => \A i \in Pads : pad[i] = "board"
BoardInv ==
  ~excused => (\A p \in Procs : owner = p => Restorable(p)) /\ NoConflict

(* Whoever drives a channel, its pad is a PWM, and the holder that will    *)
(* move the pad back has yet to silence the channel.                       *)
Driving == Serving \cup {"registers back"}
Silences(p, i) ==
  saved[p] /\ old[p][i] = "board" =>
    /\ pulse[i] # "off" => dev[p][i] = "on" \/ pc[p] \in Driving
    /\ core = "ready" => pc[p] \in Serving
Switched(i) ==
  /\ pulse[i] # "off" \/ core = "ready" => pad[i] = "pwm"
  /\ \A p \in Procs : dev[p][i] \in {"muxed", "on"} => pad[i] = "pwm"
PulseInv ==
  ~excused =>
    \A i \in Pads : Switched(i) /\ \A p \in Procs : owner = p => Silences(p, i)

IInv == TypeOK /\ HolderInv /\ LocalInv /\ CoreInv /\ BoardInv /\ PulseInv
-----------------------------------------------------------------------------
(* Type correctness.                                                       *)
LEMMA InitType == Init => TypeOK
<1>. SUFFICES ASSUME Init PROVE TypeOK
  OBVIOUS
<1>1. ProcOK
  BY DEF Init, ProcOK, Points, Unsaved, Before, PadValues, NoDevices, Kinds,
     DevStates
<1>2. KernelOK /\ BoardOK
  BY DEF Init, KernelOK, BoardOK, PadValues
<1>3. GhostOK
  BY <1>2 DEF Init, GhostOK, KernelOK, BoardOK, Leased
<1>. QED
  BY <1>1, <1>2, <1>3 DEF TypeOK

LEMMA GoneType ==
  ASSUME ProcOK, NEW p \in Procs, Gone(p) PROVE ProcOK'
<1>1. pc' \in [Procs -> Points] /\ kind' \in [Procs -> Kinds]
  BY DEF ProcOK, Gone, Goto, Points, Unsaved, Before, Kinds
<1>2. saved' \in [Procs -> BOOLEAN] /\ detached' \in [Procs -> BOOLEAN]
  BY DEF ProcOK, Gone
<1>3. left' \in [Procs -> SUBSET Pads]
  BY DEF ProcOK, Gone
<1>4. old' \in [Procs -> [Pads -> PadValues]]
  BY DEF ProcOK, Gone, PadValues
<1>5. dev' \in [Procs -> [Pads -> DevStates]]
  BY DEF ProcOK, Gone, NoDevices, DevStates
<1>. QED
  BY <1>1, <1>2, <1>3, <1>4, <1>5 DEF ProcOK

LEMMA GotoType ==
  ASSUME ProcOK, NEW p \in Procs, NEW point \in Points, Goto(p, point)
  PROVE  pc' \in [Procs -> Points]
BY DEF ProcOK, Goto

LEMMA SetDevType ==
  ASSUME ProcOK, NEW p \in Procs, NEW i \in Pads, NEW s \in DevStates,
         SetDev(p, i, s)
  PROVE  dev' \in [Procs -> [Pads -> DevStates]]
BY DEF ProcOK, SetDev

LEMMA NextType == TypeOK /\ [Next]_vars => TypeOK'
<1>. SUFFICES ASSUME TypeOK, [Next]_vars PROVE TypeOK'
  OBVIOUS
<1>. USE DEF TypeOK
<1>1. ASSUME NEW p \in Procs, NEW k \in {"loader", "bench"}, Start(p, k) PROVE TypeOK'
  <2>1. ProcOK'
    BY <1>1, GotoType DEF Start, ProcOK, Kinds, Points, Unsaved, Before, Apart,
       LoaderPoints, Serving
  <2>2. KernelOK'
    BY <1>1 DEF Start, KernelOK, kernelVars, Drop
  <2>3. BoardOK'
    BY <1>1 DEF Start, BoardOK, boardVars, PadValues
  <2>4. GhostOK'
    BY <1>1 DEF Start, GhostOK, ghostVars, Excuse, Leased, KernelOK, BoardOK
  <2>. QED
    BY <2>1, <2>2, <2>3, <2>4
<1>2. ASSUME NEW p \in Procs, CheckGroups(p) PROVE TypeOK'
  <2>1. ProcOK'
    BY <1>2, GoneType, GotoType DEF CheckGroups, ProcOK, Points, Unsaved, Before, Apart,
       LoaderPoints, Serving
  <2>2. KernelOK'
    BY <1>2 DEF CheckGroups, KernelOK, kernelVars, Drop
  <2>3. BoardOK'
    BY <1>2 DEF CheckGroups, BoardOK, boardVars, PadValues
  <2>4. GhostOK'
    BY <1>2 DEF CheckGroups, GhostOK, ghostVars, Excuse, Leased, KernelOK, BoardOK
  <2>. QED
    BY <2>1, <2>2, <2>3, <2>4
<1>3. ASSUME NEW p \in Procs, TakeLock(p) PROVE TypeOK'
  <2>1. ProcOK'
    BY <1>3, GoneType, GotoType DEF TakeLock, ProcOK, Points, Unsaved, Before, Apart,
       LoaderPoints, Serving
  <2>2. KernelOK'
    BY <1>3 DEF TakeLock, KernelOK, kernelVars, Drop
  <2>3. BoardOK'
    BY <1>3 DEF TakeLock, BoardOK, boardVars, PadValues
  <2>4. GhostOK'
    <3>1. Leased \in [pad : [Pads -> PadValues], driver : BOOLEAN]
      BY DEF Leased, KernelOK, BoardOK
    <3>. QED
      BY <1>3, <3>1 DEF TakeLock, GhostOK, ghostVars
  <2>. QED
    BY <2>1, <2>2, <2>3, <2>4
<1>4. ASSUME NEW p \in Procs, CheckClients(p) PROVE TypeOK'
  <2>1. ProcOK'
    BY <1>4, GotoType DEF CheckClients, ProcOK, Points, Unsaved, Before, Apart,
       LoaderPoints, Serving
  <2>2. KernelOK'
    BY <1>4 DEF CheckClients, KernelOK, kernelVars, Drop
  <2>3. BoardOK'
    BY <1>4 DEF CheckClients, BoardOK, boardVars, PadValues
  <2>4. GhostOK'
    BY <1>4 DEF CheckClients, GhostOK, ghostVars, Excuse, Leased, KernelOK, BoardOK
  <2>. QED
    BY <2>1, <2>2, <2>3, <2>4
<1>5. ASSUME NEW p \in Procs, SavePads(p) PROVE TypeOK'
  <2>1. ProcOK'
    <3>1. pc' \in [Procs -> Points]
      BY <1>5, GotoType DEF SavePads, Points, Unsaved, Before
    <3>2. /\ saved' = saved \/ saved' = [saved EXCEPT ![p] = TRUE]
          /\ old' = old \/ old' = [old EXCEPT ![p] = pad]
      BY <1>5 DEF SavePads
    <3>3. saved' \in [Procs -> BOOLEAN]
      BY <3>2 DEF ProcOK
    <3>4. old' \in [Procs -> [Pads -> PadValues]]
      BY <3>2 DEF ProcOK, BoardOK
    <3>. QED
      BY <1>5, <3>1, <3>3, <3>4 DEF SavePads, ProcOK
  <2>2. KernelOK'
    BY <1>5 DEF SavePads, KernelOK, kernelVars, Drop
  <2>3. BoardOK'
    BY <1>5 DEF SavePads, BoardOK, boardVars, PadValues
  <2>4. GhostOK'
    BY <1>5 DEF SavePads, GhostOK, ghostVars, Excuse, Leased, KernelOK, BoardOK
  <2>. QED
    BY <2>1, <2>2, <2>3, <2>4
<1>6. ASSUME NEW p \in Procs, UnbindI2c(p) PROVE TypeOK'
  <2>1. ProcOK'
    BY <1>6, GotoType DEF UnbindI2c, KernelOK, ProcOK, Points, Unsaved, Before, Apart,
       LoaderPoints, Serving
  <2>2. KernelOK'
    BY <1>6 DEF UnbindI2c, KernelOK, kernelVars, Drop
  <2>3. BoardOK'
    BY <1>6 DEF UnbindI2c, BoardOK, boardVars, PadValues
  <2>4. GhostOK'
    BY <1>6 DEF UnbindI2c, GhostOK, ghostVars, Excuse, Leased, KernelOK, BoardOK
  <2>. QED
    BY <2>1, <2>2, <2>3, <2>4
<1>7. ASSUME NEW p \in Procs, RequestLines(p) PROVE TypeOK'
  <2>1. ProcOK'
    BY <1>7, GotoType DEF RequestLines, ProcOK, Points, Unsaved, Before, Apart,
       LoaderPoints, Serving
  <2>2. KernelOK'
    BY <1>7 DEF RequestLines, KernelOK, kernelVars, Drop
  <2>3. BoardOK'
    BY <1>7 DEF RequestLines, BoardOK, boardVars, PadValues
  <2>4. GhostOK'
    BY <1>7 DEF RequestLines, GhostOK, ghostVars, Excuse, Leased, KernelOK, BoardOK
  <2>. QED
    BY <2>1, <2>2, <2>3, <2>4
<1>8. ASSUME NEW p \in Procs, NEW i \in Pads, RequestChannel(p, i) PROVE TypeOK'
  <2>1. ProcOK'
    BY <1>8, GotoType, SetDevType DEF RequestChannel, ProcOK, Using, DevStates, Points, Unsaved, Before, Apart,
       LoaderPoints, Serving
  <2>2. KernelOK'
    BY <1>8 DEF RequestChannel, KernelOK, kernelVars, Drop
  <2>3. BoardOK'
    BY <1>8 DEF RequestChannel, BoardOK, boardVars, PadValues
  <2>4. GhostOK'
    BY <1>8 DEF RequestChannel, GhostOK, ghostVars, Excuse, Leased, KernelOK, BoardOK
  <2>. QED
    BY <2>1, <2>2, <2>3, <2>4
<1>9. ASSUME NEW p \in Procs, NEW i \in Pads, MuxPad(p, i) PROVE TypeOK'
  <2>1. ProcOK'
    BY <1>9, GotoType, SetDevType DEF MuxPad, ProcOK, Using, DevStates, Points, Unsaved, Before, Apart,
       LoaderPoints, Serving
  <2>2. KernelOK'
    BY <1>9 DEF MuxPad, KernelOK, kernelVars, Drop
  <2>3. BoardOK'
    BY <1>9 DEF MuxPad, BoardOK, boardVars, PadValues
  <2>4. GhostOK'
    BY <1>9 DEF MuxPad, GhostOK, ghostVars, Excuse, Leased, KernelOK, BoardOK
  <2>. QED
    BY <2>1, <2>2, <2>3, <2>4
<1>10. ASSUME NEW p \in Procs, NEW i \in Pads, EnableChannel(p, i) PROVE TypeOK'
  <2>1. ProcOK'
    BY <1>10, GotoType, SetDevType DEF EnableChannel, ProcOK, Using, DevStates, Points, Unsaved, Before, Apart,
       LoaderPoints, Serving
  <2>2. KernelOK'
    BY <1>10 DEF EnableChannel, KernelOK, kernelVars, Drop
  <2>3. BoardOK'
    BY <1>10 DEF EnableChannel, BoardOK, boardVars, PadValues
  <2>4. GhostOK'
    BY <1>10 DEF EnableChannel, GhostOK, ghostVars, Excuse, Leased, KernelOK, BoardOK
  <2>. QED
    BY <2>1, <2>2, <2>3, <2>4
<1>11. ASSUME NEW p \in Procs, EndBench(p) PROVE TypeOK'
  <2>1. ProcOK'
    BY <1>11, GotoType DEF EndBench, ProcOK, Points, Unsaved, Before, Apart,
       LoaderPoints, Serving
  <2>2. KernelOK'
    BY <1>11 DEF EndBench, KernelOK, kernelVars, Drop
  <2>3. BoardOK'
    BY <1>11 DEF EndBench, BoardOK, boardVars, PadValues
  <2>4. GhostOK'
    BY <1>11 DEF EndBench, GhostOK, ghostVars, Excuse, Leased, KernelOK, BoardOK
  <2>. QED
    BY <2>1, <2>2, <2>3, <2>4
<1>12. ASSUME NEW p \in Procs, NEW i \in Pads, DisableChannel(p, i) PROVE TypeOK'
  <2>1. ProcOK'
    BY <1>12, GotoType, SetDevType DEF DisableChannel, ProcOK, Using, DevStates, Points, Unsaved, Before, Apart,
       LoaderPoints, Serving
  <2>2. KernelOK'
    BY <1>12 DEF DisableChannel, KernelOK, kernelVars, Drop
  <2>3. BoardOK'
    BY <1>12 DEF DisableChannel, BoardOK, boardVars, PadValues
  <2>4. GhostOK'
    BY <1>12 DEF DisableChannel, GhostOK, ghostVars, Excuse, Leased, KernelOK, BoardOK
  <2>. QED
    BY <2>1, <2>2, <2>3, <2>4
<1>13. ASSUME NEW p \in Procs, ClearDevices(p) PROVE TypeOK'
  <2>1. ProcOK'
    BY <1>13, GotoType DEF ClearDevices, ProcOK, DevStates, NoDevices, Points, Unsaved, Before, Apart,
       LoaderPoints, Serving
  <2>2. KernelOK'
    BY <1>13 DEF ClearDevices, KernelOK, kernelVars, Drop
  <2>3. BoardOK'
    BY <1>13 DEF ClearDevices, BoardOK, boardVars, PadValues
  <2>4. GhostOK'
    BY <1>13 DEF ClearDevices, GhostOK, ghostVars, Excuse, Leased, KernelOK, BoardOK
  <2>. QED
    BY <2>1, <2>2, <2>3, <2>4
<1>14. ASSUME NEW p \in Procs, UnbindGroups(p) PROVE TypeOK'
  <2>1. ProcOK'
    BY <1>14, GotoType DEF UnbindGroups, ProcOK, Points, Unsaved, Before, Apart,
       LoaderPoints, Serving
  <2>2. KernelOK'
    BY <1>14 DEF UnbindGroups, KernelOK, kernelVars, Drop
  <2>3. BoardOK'
    BY <1>14 DEF UnbindGroups, BoardOK, boardVars, PadValues
  <2>4. GhostOK'
    BY <1>14 DEF UnbindGroups, GhostOK, ghostVars, Excuse, Leased, KernelOK, BoardOK
  <2>. QED
    BY <2>1, <2>2, <2>3, <2>4
<1>15. ASSUME NEW p \in Procs, ReleaseCore(p) PROVE TypeOK'
  <2>1. ProcOK'
    BY <1>15, GotoType DEF ReleaseCore, ProcOK, Points, Unsaved, Before, Apart,
       LoaderPoints, Serving
  <2>2. KernelOK'
    BY <1>15 DEF ReleaseCore, KernelOK, kernelVars, Drop
  <2>3. BoardOK'
    BY <1>15 DEF ReleaseCore, BoardOK, boardVars, PadValues
  <2>4. GhostOK'
    BY <1>15 DEF ReleaseCore, GhostOK, ghostVars, Excuse, Leased, KernelOK, BoardOK
  <2>. QED
    BY <2>1, <2>2, <2>3, <2>4
<1>16. ASSUME NEW p \in Procs, HoldCore(p) PROVE TypeOK'
  <2>1. ProcOK'
    BY <1>16, GotoType DEF HoldCore, ProcOK, Points, Unsaved, Before, Apart,
       LoaderPoints, Serving
  <2>2. KernelOK'
    BY <1>16 DEF HoldCore, KernelOK, kernelVars, Drop
  <2>3. BoardOK'
    BY <1>16 DEF HoldCore, BoardOK, boardVars, PadValues
  <2>4. GhostOK'
    BY <1>16 DEF HoldCore, GhostOK, ghostVars, Excuse, Leased, KernelOK, BoardOK
  <2>. QED
    BY <2>1, <2>2, <2>3, <2>4
<1>17. ASSUME NEW p \in Procs, RestoreRegisters(p) PROVE TypeOK'
  <2>1. ProcOK'
    BY <1>17, GotoType DEF RestoreRegisters, ProcOK, Points, Unsaved, Before, Apart,
       LoaderPoints, Serving
  <2>2. KernelOK'
    BY <1>17 DEF RestoreRegisters, KernelOK, kernelVars, Drop
  <2>3. BoardOK'
    BY <1>17 DEF RestoreRegisters, BoardOK, boardVars, PadValues
  <2>4. GhostOK'
    BY <1>17 DEF RestoreRegisters, GhostOK, ghostVars, Excuse, Leased, KernelOK, BoardOK
  <2>. QED
    BY <2>1, <2>2, <2>3, <2>4
<1>18. ASSUME NEW p \in Procs, BindGroups(p) PROVE TypeOK'
  <2>1. ProcOK'
    BY <1>18, GotoType DEF BindGroups, ProcOK, Points, Unsaved, Before, Apart,
       LoaderPoints, Serving
  <2>2. KernelOK'
    BY <1>18 DEF BindGroups, KernelOK, kernelVars, Drop
  <2>3. BoardOK'
    BY <1>18 DEF BindGroups, BoardOK, boardVars, PadValues
  <2>4. GhostOK'
    BY <1>18 DEF BindGroups, GhostOK, ghostVars, Excuse, Leased, KernelOK, BoardOK
  <2>. QED
    BY <2>1, <2>2, <2>3, <2>4
<1>19. ASSUME NEW p \in Procs, CloseLines(p) PROVE TypeOK'
  <2>1. ProcOK'
    BY <1>19, GotoType DEF CloseLines, ProcOK, Points, Unsaved, Before, Apart,
       LoaderPoints, Serving
  <2>2. KernelOK'
    BY <1>19 DEF CloseLines, KernelOK, kernelVars, Drop
  <2>3. BoardOK'
    BY <1>19 DEF CloseLines, BoardOK, boardVars, PadValues
  <2>4. GhostOK'
    BY <1>19 DEF CloseLines, GhostOK, ghostVars, Excuse, Leased, KernelOK, BoardOK
  <2>. QED
    BY <2>1, <2>2, <2>3, <2>4
<1>20. ASSUME NEW p \in Procs, NEW i \in Pads, RestorePad(p, i) PROVE TypeOK'
  <2>1. ProcOK'
    BY <1>20, GotoType DEF RestorePad, ProcOK, Points, Unsaved, Before, Apart,
       LoaderPoints, Serving
  <2>2. KernelOK'
    BY <1>20 DEF RestorePad, KernelOK, kernelVars, Drop
  <2>3. BoardOK'
    <3>1. PICK v \in {old[p][i], pad[i]} : pad' = [pad EXCEPT ![i] = v]
      BY <1>20 DEF RestorePad
    <3>2. v \in PadValues
      BY DEF ProcOK, BoardOK
    <3>. QED
      BY <1>20, <3>1, <3>2 DEF RestorePad, BoardOK
  <2>4. GhostOK'
    BY <1>20 DEF RestorePad, GhostOK, ghostVars, Excuse, Leased, KernelOK, BoardOK
  <2>. QED
    BY <2>1, <2>2, <2>3, <2>4
<1>21. ASSUME NEW p \in Procs, BindI2c(p) PROVE TypeOK'
  <2>1. ProcOK'
    BY <1>21, GotoType DEF BindI2c, ProcOK, Points, Unsaved, Before, Apart,
       LoaderPoints, Serving
  <2>2. KernelOK'
    BY <1>21 DEF BindI2c, KernelOK, kernelVars, Drop
  <2>3. BoardOK'
    BY <1>21 DEF BindI2c, BoardOK, boardVars, PadValues
  <2>4. GhostOK'
    BY <1>21 DEF BindI2c, GhostOK, ghostVars, Excuse, Leased, KernelOK, BoardOK
  <2>. QED
    BY <2>1, <2>2, <2>3, <2>4
<1>22. ASSUME NEW p \in Procs, Unlock(p) PROVE TypeOK'
  <2>1. ProcOK'
    BY <1>22, GoneType, GotoType DEF Unlock, ProcOK, Points, Unsaved, Before, Apart,
       LoaderPoints, Serving
  <2>2. KernelOK'
    BY <1>22 DEF Unlock, KernelOK, kernelVars, Drop
  <2>3. BoardOK'
    BY <1>22 DEF Unlock, BoardOK, boardVars, PadValues
  <2>4. GhostOK'
    BY <1>22 DEF Unlock, GhostOK, ghostVars, Excuse, Leased, KernelOK, BoardOK
  <2>. QED
    BY <2>1, <2>2, <2>3, <2>4
<1>23. ASSUME NEW p \in Procs, Kill(p) PROVE TypeOK'
  <2>1. ProcOK'
    BY <1>23, GoneType, GotoType DEF Kill, ProcOK, Points, Unsaved, Before, Apart,
       LoaderPoints, Serving
  <2>2. KernelOK'
    BY <1>23 DEF Kill, KernelOK, kernelVars, Drop
  <2>3. BoardOK'
    BY <1>23 DEF Kill, BoardOK, boardVars, PadValues
  <2>4. GhostOK'
    BY <1>23 DEF Kill, GhostOK, ghostVars, Excuse, Leased, KernelOK, BoardOK
  <2>. QED
    BY <2>1, <2>2, <2>3, <2>4
<1>24. CASE CoreInit
  BY <1>24 DEF CoreInit, Excuse, procVars, kernelVars, ProcOK, KernelOK, BoardOK,
     GhostOK, PadValues
<1>25. ASSUME NEW i \in Pads, CorePulse(i) PROVE TypeOK'
  BY <1>25 DEF CorePulse, procVars, kernelVars, ghostVars, ProcOK, KernelOK,
     BoardOK, GhostOK
<1>26. CASE UNCHANGED vars
  BY <1>26 DEF vars, procVars, kernelVars, boardVars, ghostVars, ProcOK, KernelOK,
     BoardOK, GhostOK
<1>. QED
  BY <1>1, <1>2, <1>3, <1>4, <1>5, <1>6, <1>7, <1>8, <1>9, <1>10, <1>11, <1>12, <1>13, <1>14, <1>15, <1>16, <1>17, <1>18, <1>19, <1>20, <1>21, <1>22, <1>23, <1>24, <1>25, <1>26 DEF Next, Step
-----------------------------------------------------------------------------
(* The lock belongs to the program behind it. *)
LEMMA NextHolder == TypeOK /\ HolderInv /\ [Next]_vars => HolderInv'
<1>. SUFFICES ASSUME TypeOK, HolderInv, [Next]_vars PROVE HolderInv'
  OBVIOUS
<1>. USE DEF TypeOK
<1>1. ASSUME NEW p \in Procs, NEW k \in {"loader", "bench"}, Start(p, k) PROVE HolderInv'
  BY <1>1 DEF Start, HolderInv, ProcOK, At, Goto, Gone, Using, Drop, Before,
     procVars, kernelVars, boardVars, ghostVars
<1>2. ASSUME NEW p \in Procs, CheckGroups(p) PROVE HolderInv'
  BY <1>2 DEF CheckGroups, HolderInv, ProcOK, At, Goto, Gone, Using, Drop, Before,
     procVars, kernelVars, boardVars, ghostVars
<1>3. ASSUME NEW p \in Procs, TakeLock(p) PROVE HolderInv'
  <2>1. CASE Gone(p) /\ UNCHANGED owner
    BY <1>3, <2>1 DEF TakeLock, HolderInv, ProcOK, At, Goto, Gone, Before
  <2>2. CASE owner = Nobody /\ owner' = p /\ Goto(p, "clients")
    BY <2>2, PinLeaseAssumption DEF HolderInv, ProcOK, Goto, Before
  <2>. QED
    BY <1>3, <2>1, <2>2 DEF TakeLock
<1>4. ASSUME NEW p \in Procs, CheckClients(p) PROVE HolderInv'
  BY <1>4 DEF CheckClients, HolderInv, ProcOK, At, Goto, Gone, Using, Drop, Before,
     procVars, kernelVars, boardVars, ghostVars
<1>5. ASSUME NEW p \in Procs, SavePads(p) PROVE HolderInv'
  BY <1>5 DEF SavePads, HolderInv, ProcOK, At, Goto, Gone, Using, Drop, Before,
     procVars, kernelVars, boardVars, ghostVars
<1>6. ASSUME NEW p \in Procs, UnbindI2c(p) PROVE HolderInv'
  BY <1>6 DEF UnbindI2c, HolderInv, ProcOK, At, Goto, Gone, Using, Drop, Before,
     procVars, kernelVars, boardVars, ghostVars
<1>7. ASSUME NEW p \in Procs, RequestLines(p) PROVE HolderInv'
  BY <1>7 DEF RequestLines, HolderInv, ProcOK, At, Goto, Gone, Using, Drop, Before,
     procVars, kernelVars, boardVars, ghostVars
<1>8. ASSUME NEW p \in Procs, NEW i \in Pads, RequestChannel(p, i) PROVE HolderInv'
  BY <1>8 DEF RequestChannel, HolderInv, ProcOK, At, Goto, Gone, Using, Drop, Before,
     procVars, kernelVars, boardVars, ghostVars
<1>9. ASSUME NEW p \in Procs, NEW i \in Pads, MuxPad(p, i) PROVE HolderInv'
  BY <1>9 DEF MuxPad, HolderInv, ProcOK, At, Goto, Gone, Using, Drop, Before,
     procVars, kernelVars, boardVars, ghostVars
<1>10. ASSUME NEW p \in Procs, NEW i \in Pads, EnableChannel(p, i) PROVE HolderInv'
  BY <1>10 DEF EnableChannel, HolderInv, ProcOK, At, Goto, Gone, Using, Drop, Before,
     procVars, kernelVars, boardVars, ghostVars
<1>11. ASSUME NEW p \in Procs, EndBench(p) PROVE HolderInv'
  BY <1>11 DEF EndBench, HolderInv, ProcOK, At, Goto, Gone, Using, Drop, Before,
     procVars, kernelVars, boardVars, ghostVars
<1>12. ASSUME NEW p \in Procs, NEW i \in Pads, DisableChannel(p, i) PROVE HolderInv'
  BY <1>12 DEF DisableChannel, HolderInv, ProcOK, At, Goto, Gone, Using, Drop, Before,
     procVars, kernelVars, boardVars, ghostVars
<1>13. ASSUME NEW p \in Procs, ClearDevices(p) PROVE HolderInv'
  BY <1>13 DEF ClearDevices, HolderInv, ProcOK, At, Goto, Gone, Using, Drop, Before,
     procVars, kernelVars, boardVars, ghostVars
<1>14. ASSUME NEW p \in Procs, UnbindGroups(p) PROVE HolderInv'
  BY <1>14 DEF UnbindGroups, HolderInv, ProcOK, At, Goto, Gone, Using, Drop, Before,
     procVars, kernelVars, boardVars, ghostVars
<1>15. ASSUME NEW p \in Procs, ReleaseCore(p) PROVE HolderInv'
  BY <1>15 DEF ReleaseCore, HolderInv, ProcOK, At, Goto, Gone, Using, Drop, Before,
     procVars, kernelVars, boardVars, ghostVars
<1>16. ASSUME NEW p \in Procs, HoldCore(p) PROVE HolderInv'
  BY <1>16 DEF HoldCore, HolderInv, ProcOK, At, Goto, Gone, Using, Drop, Before,
     procVars, kernelVars, boardVars, ghostVars
<1>17. ASSUME NEW p \in Procs, RestoreRegisters(p) PROVE HolderInv'
  BY <1>17 DEF RestoreRegisters, HolderInv, ProcOK, At, Goto, Gone, Using, Drop, Before,
     procVars, kernelVars, boardVars, ghostVars
<1>18. ASSUME NEW p \in Procs, BindGroups(p) PROVE HolderInv'
  BY <1>18 DEF BindGroups, HolderInv, ProcOK, At, Goto, Gone, Using, Drop, Before,
     procVars, kernelVars, boardVars, ghostVars
<1>19. ASSUME NEW p \in Procs, CloseLines(p) PROVE HolderInv'
  BY <1>19 DEF CloseLines, HolderInv, ProcOK, At, Goto, Gone, Using, Drop, Before,
     procVars, kernelVars, boardVars, ghostVars
<1>20. ASSUME NEW p \in Procs, NEW i \in Pads, RestorePad(p, i) PROVE HolderInv'
  BY <1>20 DEF RestorePad, HolderInv, ProcOK, At, Goto, Gone, Using, Drop, Before,
     procVars, kernelVars, boardVars, ghostVars
<1>21. ASSUME NEW p \in Procs, BindI2c(p) PROVE HolderInv'
  BY <1>21 DEF BindI2c, HolderInv, ProcOK, At, Goto, Gone, Using, Drop, Before,
     procVars, kernelVars, boardVars, ghostVars
<1>22. ASSUME NEW p \in Procs, Unlock(p) PROVE HolderInv'
  BY <1>22, PinLeaseAssumption DEF Unlock, HolderInv, ProcOK, KernelOK, At, Goto, Gone, Using, Drop, Before,
     procVars, kernelVars, boardVars, ghostVars
<1>23. ASSUME NEW p \in Procs, Kill(p) PROVE HolderInv'
  BY <1>23, PinLeaseAssumption DEF Kill, HolderInv, ProcOK, KernelOK, At, Goto, Gone, Using, Drop, Before,
     procVars, kernelVars, boardVars, ghostVars
<1>24. CASE CoreInit
  BY <1>24 DEF CoreInit, HolderInv, ProcOK, At, Goto, Gone, Using, Drop, Before,
     procVars, kernelVars, boardVars, ghostVars
<1>25. ASSUME NEW i \in Pads, CorePulse(i) PROVE HolderInv'
  BY <1>25 DEF CorePulse, HolderInv, ProcOK, At, Goto, Gone, Using, Drop, Before,
     procVars, kernelVars, boardVars, ghostVars
<1>26. CASE UNCHANGED vars
  BY <1>26 DEF vars, HolderInv, ProcOK, At, Goto, Gone, Using, Drop, Before,
     procVars, kernelVars, boardVars, ghostVars
<1>. QED
  BY <1>1, <1>2, <1>3, <1>4, <1>5, <1>6, <1>7, <1>8, <1>9, <1>10, <1>11, <1>12, <1>13, <1>14, <1>15, <1>16, <1>17, <1>18, <1>19, <1>20, <1>21, <1>22, <1>23, <1>24, <1>25, <1>26 DEF Next, Step

(* A step of one program leaves the locals of the others alone.            *)
Kept(r) ==
  /\ pc'[r] = pc[r] /\ kind'[r] = kind[r] /\ saved'[r] = saved[r]
  /\ old'[r] = old[r] /\ detached'[r] = detached[r] /\ left'[r] = left[r]
  /\ dev'[r] = dev[r]

Move(p) == Step(p) \/ Kill(p) \/ \E k \in {"loader", "bench"} : Start(p, k)

LEMMA OthersKept ==
  ASSUME ProcOK, NEW p \in Procs, NEW r \in Procs, r # p, Move(p)
  PROVE  Kept(r)
<1>. USE DEF ProcOK, Kept, Goto, SetDev, Gone
<1>1. ASSUME \/ CheckGroups(p) \/ TakeLock(p) \/ CheckClients(p) \/ SavePads(p)
             \/ UnbindI2c(p) \/ RequestLines(p)
      PROVE  Kept(r)
  BY <1>1 DEF CheckGroups, TakeLock, CheckClients, SavePads, UnbindI2c, RequestLines
<1>2. ASSUME NEW i \in Pads,
             \/ RequestChannel(p, i) \/ MuxPad(p, i) \/ EnableChannel(p, i)
             \/ DisableChannel(p, i) \/ RestorePad(p, i)
      PROVE  Kept(r)
  BY <1>2 DEF RequestChannel, MuxPad, EnableChannel, DisableChannel, RestorePad
<1>3. ASSUME \/ EndBench(p) \/ ClearDevices(p) \/ UnbindGroups(p)
             \/ ReleaseCore(p) \/ HoldCore(p)
      PROVE  Kept(r)
  BY <1>3 DEF EndBench, ClearDevices, UnbindGroups, ReleaseCore, HoldCore
<1>4. ASSUME \/ RestoreRegisters(p) \/ BindGroups(p) \/ CloseLines(p)
             \/ BindI2c(p) \/ Unlock(p)
      PROVE  Kept(r)
  BY <1>4 DEF RestoreRegisters, BindGroups, CloseLines, BindI2c, Unlock
<1>5. ASSUME Kill(p) \/ \E k \in {"loader", "bench"} : Start(p, k)
      PROVE  Kept(r)
  BY <1>5 DEF Kill, Start
<1>. QED
  BY <1>1, <1>2, <1>3, <1>4, <1>5 DEF Step, Move

LEMMA LocalFrame ==
  ASSUME NEW r \in Procs, Local(r), Kept(r) PROVE Local(r)'
BY DEF Local, Kept

LEMMA GoneLocal ==
  ASSUME ProcOK, NEW p \in Procs, Gone(p) PROVE Local(p)'
<1>1. pc'[p] = "off" /\ kind'[p] = "bench" /\ ~saved'[p] /\ ~detached'[p]
  BY DEF ProcOK, Gone, Goto
<1>2. dev'[p] = NoDevices
  BY DEF ProcOK, Gone
<1>. QED
  BY <1>1, <1>2 DEF NoDevices, Local, Unsaved, Before, Apart, LoaderPoints, Serving

(* What a program knows of itself.                                         *)
LEMMA NextLocal == TypeOK /\ LocalInv /\ [Next]_vars => LocalInv'
<1>. SUFFICES ASSUME TypeOK, LocalInv, [Next]_vars PROVE LocalInv'
  OBVIOUS
<1>. USE DEF TypeOK, LocalInv
<1>1. ASSUME NEW p \in Procs, NEW k \in {"loader", "bench"}, Start(p, k) PROVE Local(p)'
  BY <1>1 DEF Start, Local, ProcOK, At, Goto, Gone, Using, SetDev,
     NoDevices, Points, Unsaved, Before, Apart, LoaderPoints, Serving
<1>2. ASSUME NEW p \in Procs, CheckGroups(p) PROVE Local(p)'
  <2>1. CASE Gone(p)
    BY <2>1, GoneLocal
  <2>2. CASE ~Gone(p)
    <3>1. pc[p] \in Before /\ pc'[p] = "lock"
      BY <1>2, <2>2 DEF CheckGroups, ProcOK, At, Goto, Before
    <3>2. kind'[p] = kind[p] /\ saved'[p] = saved[p] /\ detached'[p] = detached[p] /\ dev'[p] = dev[p]
      BY <1>2, <2>2 DEF CheckGroups
    <3>. QED
      BY <3>1, <3>2 DEF Local, Unsaved, Before, Apart, LoaderPoints,
       Serving
  <2>. QED
    BY <2>1, <2>2
<1>3. ASSUME NEW p \in Procs, TakeLock(p) PROVE Local(p)'
  <2>1. CASE Gone(p)
    BY <2>1, GoneLocal
  <2>2. CASE ~Gone(p)
    <3>1. pc[p] \in Before /\ pc'[p] = "clients"
      BY <1>3, <2>2 DEF TakeLock, ProcOK, At, Goto, Before
    <3>2. kind'[p] = kind[p] /\ saved'[p] = saved[p] /\ detached'[p] = detached[p] /\ dev'[p] = dev[p]
      BY <1>3, <2>2 DEF TakeLock
    <3>. QED
      BY <3>1, <3>2 DEF Local, Unsaved, Before, Apart, LoaderPoints,
       Serving
  <2>. QED
    BY <2>1, <2>2
<1>4. ASSUME NEW p \in Procs, CheckClients(p) PROVE Local(p)'
  BY <1>4 DEF CheckClients, Local, ProcOK, At, Goto, Gone, Using, SetDev,
     NoDevices, Points, Unsaved, Before, Apart, LoaderPoints, Serving
<1>5. ASSUME NEW p \in Procs, SavePads(p) PROVE Local(p)'
  BY <1>5, ZenonT(40) DEF SavePads, Local, ProcOK, At, Goto, Gone, Using, SetDev,
     NoDevices, Points, Unsaved, Before, Apart, LoaderPoints, Serving
<1>6. ASSUME NEW p \in Procs, UnbindI2c(p) PROVE Local(p)'
  <2>1. pc[p] = "unbind" /\ pc'[p] \in {"lines", "lines back"}
    BY <1>6 DEF UnbindI2c, ProcOK, At, Goto, Using
  <2>2. kind'[p] = kind[p] /\ saved'[p] = saved[p] /\ left'[p] = left[p] /\ dev'[p] = dev[p]
    BY <1>6 DEF UnbindI2c, ProcOK
  <2>. QED
    BY <2>1, <2>2 DEF Local, Unsaved, Before, Apart, LoaderPoints,
       Serving
<1>7. ASSUME NEW p \in Procs, RequestLines(p) PROVE Local(p)'
  <2>1. pc[p] = "lines" /\ pc'[p] \in {"use", "lines back"}
    BY <1>7 DEF RequestLines, ProcOK, At, Goto, Using
  <2>2. kind'[p] = kind[p] /\ saved'[p] = saved[p] /\ detached'[p] = detached[p] /\ left'[p] = left[p] /\ dev'[p] = dev[p]
    BY <1>7 DEF RequestLines, ProcOK
  <2>. QED
    BY <2>1, <2>2 DEF Local, Unsaved, Before, Apart, LoaderPoints,
       Serving
<1>8. ASSUME NEW p \in Procs, NEW i \in Pads, RequestChannel(p, i) PROVE Local(p)'
  BY <1>8 DEF RequestChannel, Local, ProcOK, At, Goto, Gone, Using, SetDev,
     NoDevices, Points, Unsaved, Before, Apart, LoaderPoints, Serving
<1>9. ASSUME NEW p \in Procs, NEW i \in Pads, MuxPad(p, i) PROVE Local(p)'
  BY <1>9, ZenonT(40) DEF MuxPad, Local, ProcOK, At, Goto, Gone, Using, SetDev,
     NoDevices, Points, Unsaved, Before, Apart, LoaderPoints, Serving
<1>10. ASSUME NEW p \in Procs, NEW i \in Pads, EnableChannel(p, i) PROVE Local(p)'
  BY <1>10 DEF EnableChannel, Local, ProcOK, At, Goto, Gone, Using, SetDev,
     NoDevices, Points, Unsaved, Before, Apart, LoaderPoints, Serving
<1>11. ASSUME NEW p \in Procs, EndBench(p) PROVE Local(p)'
  BY <1>11 DEF EndBench, Local, ProcOK, At, Goto, Gone, Using, SetDev,
     NoDevices, Points, Unsaved, Before, Apart, LoaderPoints, Serving
<1>12. ASSUME NEW p \in Procs, NEW i \in Pads, DisableChannel(p, i) PROVE Local(p)'
  BY <1>12 DEF DisableChannel, Local, ProcOK, At, Goto, Gone, Using, SetDev,
     NoDevices, Points, Unsaved, Before, Apart, LoaderPoints, Serving
<1>13. ASSUME NEW p \in Procs, ClearDevices(p) PROVE Local(p)'
  <2>1. pc'[p] = "lines back" /\ dev'[p] = NoDevices
    BY <1>13 DEF ClearDevices, ProcOK, Goto
  <2>2. kind'[p] = kind[p] /\ saved'[p] = saved[p]
    BY <1>13 DEF ClearDevices
  <2>. QED
    BY <2>1, <2>2 DEF NoDevices, Local, Unsaved, Before, Apart, LoaderPoints,
       Serving
<1>14. ASSUME NEW p \in Procs, UnbindGroups(p) PROVE Local(p)'
  BY <1>14, ZenonT(40) DEF UnbindGroups, Local, ProcOK, At, Goto, Gone, Using, SetDev,
     NoDevices, Points, Unsaved, Before, Apart, LoaderPoints, Serving
<1>15. ASSUME NEW p \in Procs, ReleaseCore(p) PROVE Local(p)'
  <2>1. pc[p] = "registers" /\ pc'[p] \in {"groups back", "serve", "holding"}
    BY <1>15 DEF ReleaseCore, ProcOK, At, Goto, Using
  <2>2. kind'[p] = kind[p] /\ saved'[p] = saved[p] /\ detached'[p] = detached[p] /\ left'[p] = left[p] /\ dev'[p] = dev[p]
    BY <1>15 DEF ReleaseCore, ProcOK
  <2>. QED
    BY <2>1, <2>2 DEF Local, Unsaved, Before, Apart, LoaderPoints,
       Serving
<1>16. ASSUME NEW p \in Procs, HoldCore(p) PROVE Local(p)'
  <2>1. pc[p] \in Serving /\ pc'[p] \in {"fatal", "registers back"}
    BY <1>16 DEF HoldCore, ProcOK, At, Goto, Using, Serving
  <2>2. kind'[p] = kind[p] /\ saved'[p] = saved[p] /\ detached'[p] = detached[p] /\ left'[p] = left[p] /\ dev'[p] = dev[p]
    BY <1>16 DEF HoldCore, ProcOK
  <2>. QED
    BY <2>1, <2>2 DEF Local, Unsaved, Before, Apart, LoaderPoints,
       Serving
<1>17. ASSUME NEW p \in Procs, RestoreRegisters(p) PROVE Local(p)'
  <2>1. pc[p] = "registers back" /\ pc'[p] = "groups back"
    BY <1>17 DEF RestoreRegisters, ProcOK, At, Goto
  <2>2. /\ kind'[p] = kind[p] /\ saved'[p] = saved[p]
        /\ detached'[p] = detached[p] /\ left'[p] = left[p] /\ dev'[p] = dev[p]
    BY <1>17 DEF RestoreRegisters, ProcOK
  <2>. QED
    BY <2>1, <2>2 DEF Local, Unsaved, Before, Apart, LoaderPoints, Serving
<1>18. ASSUME NEW p \in Procs, BindGroups(p) PROVE Local(p)'
  BY <1>18 DEF BindGroups, Local, ProcOK, At, Goto, Gone, Using, SetDev,
     NoDevices, Points, Unsaved, Before, Apart, LoaderPoints, Serving
<1>19. ASSUME NEW p \in Procs, CloseLines(p) PROVE Local(p)'
  BY <1>19 DEF CloseLines, Local, ProcOK, At, Goto, Gone, Using, SetDev,
     NoDevices, Points, Unsaved, Before, Apart, LoaderPoints, Serving
<1>20. ASSUME NEW p \in Procs, NEW i \in Pads, RestorePad(p, i) PROVE Local(p)'
  BY <1>20 DEF RestorePad, Local, ProcOK, At, Goto, Gone, Using, SetDev,
     NoDevices, Points, Unsaved, Before, Apart, LoaderPoints, Serving
<1>21. ASSUME NEW p \in Procs, BindI2c(p) PROVE Local(p)'
  BY <1>21 DEF BindI2c, Local, ProcOK, At, Goto, Gone, Using, SetDev,
     NoDevices, Points, Unsaved, Before, Apart, LoaderPoints, Serving
<1>22. ASSUME NEW p \in Procs, Unlock(p) PROVE Local(p)'
  BY <1>22, GoneLocal DEF Unlock
<1>23. ASSUME NEW p \in Procs, Kill(p) PROVE Local(p)'
  BY <1>23, GoneLocal DEF Kill
<1>24. ASSUME NEW p \in Procs, Move(p)
       PROVE  \A r \in Procs : Local(r)'
  <2>1. Local(p)'
    BY <1>24, <1>1, <1>2, <1>3, <1>4, <1>5, <1>6, <1>7, <1>8, <1>9, <1>10, <1>11, <1>12, <1>13, <1>14, <1>15, <1>16, <1>17, <1>18, <1>19, <1>20, <1>21, <1>22, <1>23 DEF Step, Move
  <2>. QED
    BY <1>24, <2>1, OthersKept, LocalFrame
<1>25. ASSUME CoreInit \/ (\E i \in Pads : CorePulse(i)) \/ UNCHANGED vars
       PROVE  \A r \in Procs : Local(r)'
  <2>1. \A r \in Procs : Kept(r)
    BY <1>25 DEF CoreInit, CorePulse, vars, procVars, Kept
  <2>. QED
    BY <2>1, LocalFrame
<1>26. ASSUME NEW p \in Procs, NEW k \in {"loader", "bench"}, Start(p, k)
       PROVE  OneLoader'
  BY <1>26 DEF Start, OneLoader, ProcOK
<1>27. ASSUME NEW p \in Procs, Step(p) \/ Kill(p)
       PROVE  kind' = kind \/ kind' = [kind EXCEPT ![p] = "bench"]
  BY <1>27 DEF Step, Kill, Gone, CheckGroups, TakeLock, CheckClients, SavePads,
     UnbindI2c, RequestLines, RequestChannel, MuxPad, EnableChannel, EndBench,
     DisableChannel, ClearDevices, UnbindGroups, ReleaseCore, HoldCore,
     RestoreRegisters, BindGroups, CloseLines, RestorePad, BindI2c, Unlock
<1>28. CASE CoreInit \/ (\E i \in Pads : CorePulse(i)) \/ UNCHANGED vars
  <2>1. kind' = kind
    BY <1>28 DEF CoreInit, CorePulse, vars, procVars
  <2>. QED
    BY <2>1, <1>25, <1>28 DEF OneLoader
<1>29. ASSUME NEW p \in Procs, Step(p) \/ Kill(p) PROVE OneLoader'
  BY <1>27, <1>29 DEF OneLoader, ProcOK
<1>. QED
  BY <1>24, <1>25, <1>26, <1>28, <1>29 DEF Next, Move

(* The holder is one program, and only it touches what is leased.          *)
LEMMA AloneBehind ==
  ASSUME HolderInv, NEW p \in Procs, NEW r \in Procs, pc[p] \notin Before,
         pc[r] \notin Before
  PROVE  p = r
BY DEF HolderInv

LEMMA DevicesAreHolders ==
  ASSUME LocalInv, HolderInv, NEW p \in Procs, NEW r \in Procs, NEW i \in Pads,
         pc[p] \notin Before, dev[r][i] # "none"
  PROVE  r = p
BY DEF LocalInv, Local, HolderInv, Before

(* The core runs only under its loader, or after its loader was killed, and *)
(* while it runs no program has a channel of the groups.                   *)
LEMMA CoreFrame ==
  ASSUME CoreInv, NEW p \in Procs, \A r \in Procs \ {p} : Kept(r),
         core' = core, groups' = groups,
         \A i \in Pads : pulse'[i] = "bench" => pulse[i] = "bench" \/ core = "off",
         \/ kind'[p] = "bench" \/ core = "off"
         \/ kind'[p] = kind[p] /\ pc[p] \notin Serving,
         pc'[p] \in LoaderPoints => pc[p] \in LoaderPoints,
         groups \/ \A i \in Pads : dev'[p][i] # "none" => dev[p][i] # "none"
  PROVE  CoreInv'
<1>1. CoreOf(p)'
  BY DEF CoreInv, CoreOf, Serving
<1>2. \A r \in Procs \ {p} : CoreOf(r)'
  BY DEF CoreInv, CoreOf, Kept
<1>3. (core # "off" => ~groups)' /\ CoreAlone'
  BY DEF CoreInv, CoreAlone
<1>. QED
  BY <1>1, <1>2, <1>3 DEF CoreInv

CoreStep == TypeOK /\ HolderInv /\ LocalInv /\ CoreInv
LEMMA NextCore == CoreStep /\ [Next]_vars => CoreInv'
<1>. SUFFICES ASSUME CoreStep, [Next]_vars PROVE CoreInv'
  OBVIOUS
<1>. USE DEF CoreStep, TypeOK
<1>1. ASSUME NEW p \in Procs, Move(p) PROVE CoreInv'
  <2>0. \A r \in Procs \ {p} : Kept(r)
    BY <1>1, OthersKept
  <2>1. ASSUME NEW k \in {"loader", "bench"}, Start(p, k) PROVE CoreInv'
    <3>1. core' = core /\ groups' = groups
      BY <2>1 DEF Start, kernelVars, boardVars
    <3>2. \A i \in Pads : pulse'[i] = "bench" => pulse[i] = "bench" \/ core = "off"
      BY <2>1 DEF Start, boardVars
    <3>3. \/ kind'[p] = "bench" \/ core = "off"
          \/ kind'[p] = kind[p] /\ pc[p] \notin Serving
      BY <2>1 DEF Start, At, Using, Serving, ProcOK, Kinds
    <3>4. pc'[p] \in LoaderPoints => pc[p] \in LoaderPoints
      BY <2>1 DEF Start, At, Using, Goto, ProcOK, LoaderPoints, Serving
    <3>5. groups \/ \A i \in Pads : dev'[p][i] # "none" => dev[p][i] # "none"
      BY <2>1 DEF Start, SetDev, NoDevices, ProcOK
    <3>. QED
      BY <2>0, <3>1, <3>2, <3>3, <3>4, <3>5, CoreFrame
  <2>2. CASE CheckGroups(p)
    <3>1. core' = core /\ groups' = groups
      BY <2>2 DEF CheckGroups, kernelVars, boardVars
    <3>2. \A i \in Pads : pulse'[i] = "bench" => pulse[i] = "bench" \/ core = "off"
      BY <2>2 DEF CheckGroups, boardVars
    <3>3. \/ kind'[p] = "bench" \/ core = "off"
          \/ kind'[p] = kind[p] /\ pc[p] \notin Serving
      BY <2>2 DEF CheckGroups, At, Using, Serving, ProcOK, Gone
    <3>4. pc'[p] \in LoaderPoints => pc[p] \in LoaderPoints
      BY <2>2 DEF CheckGroups, At, Using, Goto, ProcOK, LoaderPoints, Serving, Gone
    <3>5. groups \/ \A i \in Pads : dev'[p][i] # "none" => dev[p][i] # "none"
      BY <2>2 DEF CheckGroups, SetDev, NoDevices, ProcOK, Gone
    <3>. QED
      BY <2>0, <3>1, <3>2, <3>3, <3>4, <3>5, CoreFrame
  <2>3. CASE TakeLock(p)
    <3>1. core' = core /\ groups' = groups
      BY <2>3 DEF TakeLock, kernelVars, boardVars
    <3>2. \A i \in Pads : pulse'[i] = "bench" => pulse[i] = "bench" \/ core = "off"
      BY <2>3 DEF TakeLock, boardVars
    <3>3. \/ kind'[p] = "bench" \/ core = "off"
          \/ kind'[p] = kind[p] /\ pc[p] \notin Serving
      BY <2>3 DEF TakeLock, At, Using, Serving, ProcOK, Gone
    <3>4. pc'[p] \in LoaderPoints => pc[p] \in LoaderPoints
      BY <2>3 DEF TakeLock, At, Using, Goto, ProcOK, LoaderPoints, Serving, Gone
    <3>5. groups \/ \A i \in Pads : dev'[p][i] # "none" => dev[p][i] # "none"
      BY <2>3 DEF TakeLock, SetDev, NoDevices, ProcOK, Gone
    <3>. QED
      BY <2>0, <3>1, <3>2, <3>3, <3>4, <3>5, CoreFrame
  <2>4. CASE CheckClients(p)
    <3>1. core' = core /\ groups' = groups
      BY <2>4 DEF CheckClients, kernelVars, boardVars
    <3>2. \A i \in Pads : pulse'[i] = "bench" => pulse[i] = "bench" \/ core = "off"
      BY <2>4 DEF CheckClients, boardVars
    <3>3. \/ kind'[p] = "bench" \/ core = "off"
          \/ kind'[p] = kind[p] /\ pc[p] \notin Serving
      BY <2>4 DEF CheckClients, At, Using, Serving, ProcOK
    <3>4. pc'[p] \in LoaderPoints => pc[p] \in LoaderPoints
      BY <2>4 DEF CheckClients, At, Using, Goto, ProcOK, LoaderPoints, Serving
    <3>5. groups \/ \A i \in Pads : dev'[p][i] # "none" => dev[p][i] # "none"
      BY <2>4 DEF CheckClients, SetDev, NoDevices, ProcOK
    <3>. QED
      BY <2>0, <3>1, <3>2, <3>3, <3>4, <3>5, CoreFrame
  <2>5. CASE SavePads(p)
    <3>1. core' = core /\ groups' = groups
      BY <2>5 DEF SavePads, kernelVars, boardVars
    <3>2. \A i \in Pads : pulse'[i] = "bench" => pulse[i] = "bench" \/ core = "off"
      BY <2>5 DEF SavePads, boardVars
    <3>3. \/ kind'[p] = "bench" \/ core = "off"
          \/ kind'[p] = kind[p] /\ pc[p] \notin Serving
      BY <2>5 DEF SavePads, At, Using, Serving, ProcOK
    <3>4. pc'[p] \in LoaderPoints => pc[p] \in LoaderPoints
      BY <2>5 DEF SavePads, At, Using, Goto, ProcOK, LoaderPoints, Serving
    <3>5. groups \/ \A i \in Pads : dev'[p][i] # "none" => dev[p][i] # "none"
      BY <2>5 DEF SavePads, SetDev, NoDevices, ProcOK
    <3>. QED
      BY <2>0, <3>1, <3>2, <3>3, <3>4, <3>5, CoreFrame
  <2>6. CASE UnbindI2c(p)
    <3>1. core' = core /\ groups' = groups
      BY <2>6 DEF UnbindI2c, kernelVars, boardVars
    <3>2. \A i \in Pads : pulse'[i] = "bench" => pulse[i] = "bench" \/ core = "off"
      BY <2>6 DEF UnbindI2c, boardVars
    <3>3. \/ kind'[p] = "bench" \/ core = "off"
          \/ kind'[p] = kind[p] /\ pc[p] \notin Serving
      BY <2>6 DEF UnbindI2c, At, Using, Serving, ProcOK
    <3>4. pc'[p] \in LoaderPoints => pc[p] \in LoaderPoints
      BY <2>6 DEF UnbindI2c, At, Using, Goto, ProcOK, LoaderPoints, Serving
    <3>5. groups \/ \A i \in Pads : dev'[p][i] # "none" => dev[p][i] # "none"
      BY <2>6 DEF UnbindI2c, SetDev, NoDevices, ProcOK
    <3>. QED
      BY <2>0, <3>1, <3>2, <3>3, <3>4, <3>5, CoreFrame
  <2>7. CASE RequestLines(p)
    <3>1. core' = core /\ groups' = groups
      BY <2>7 DEF RequestLines, kernelVars, boardVars
    <3>2. \A i \in Pads : pulse'[i] = "bench" => pulse[i] = "bench" \/ core = "off"
      BY <2>7 DEF RequestLines, boardVars
    <3>3. \/ kind'[p] = "bench" \/ core = "off"
          \/ kind'[p] = kind[p] /\ pc[p] \notin Serving
      BY <2>7 DEF RequestLines, At, Using, Serving, ProcOK
    <3>4. pc'[p] \in LoaderPoints => pc[p] \in LoaderPoints
      BY <2>7 DEF RequestLines, At, Using, Goto, ProcOK, LoaderPoints, Serving
    <3>5. groups \/ \A i \in Pads : dev'[p][i] # "none" => dev[p][i] # "none"
      BY <2>7 DEF RequestLines, SetDev, NoDevices, ProcOK
    <3>. QED
      BY <2>0, <3>1, <3>2, <3>3, <3>4, <3>5, CoreFrame
  <2>8. ASSUME NEW i \in Pads, RequestChannel(p, i) PROVE CoreInv'
    <3>1. core' = core /\ groups' = groups
      BY <2>8 DEF RequestChannel, kernelVars, boardVars
    <3>2. \A j \in Pads : pulse'[j] = "bench" => pulse[j] = "bench" \/ core = "off"
      BY <2>8 DEF RequestChannel, boardVars
    <3>3. \/ kind'[p] = "bench" \/ core = "off"
          \/ kind'[p] = kind[p] /\ pc[p] \notin Serving
      BY <2>8 DEF RequestChannel, At, Using, Serving, ProcOK
    <3>4. pc'[p] \in LoaderPoints => pc[p] \in LoaderPoints
      BY <2>8 DEF RequestChannel, At, Using, Goto, ProcOK, LoaderPoints, Serving
    <3>5. groups \/ \A j \in Pads : dev'[p][j] # "none" => dev[p][j] # "none"
      BY <2>8 DEF RequestChannel, SetDev, NoDevices, ProcOK
    <3>. QED
      BY <2>0, <3>1, <3>2, <3>3, <3>4, <3>5, CoreFrame
  <2>9. ASSUME NEW i \in Pads, MuxPad(p, i) PROVE CoreInv'
    <3>1. core' = core /\ groups' = groups
      BY <2>9 DEF MuxPad, kernelVars, boardVars
    <3>2. \A j \in Pads : pulse'[j] = "bench" => pulse[j] = "bench" \/ core = "off"
      BY <2>9 DEF MuxPad, boardVars
    <3>3. \/ kind'[p] = "bench" \/ core = "off"
          \/ kind'[p] = kind[p] /\ pc[p] \notin Serving
      BY <2>9 DEF MuxPad, At, Using, Serving, ProcOK
    <3>4. pc'[p] \in LoaderPoints => pc[p] \in LoaderPoints
      BY <2>9 DEF MuxPad, At, Using, Goto, ProcOK, LoaderPoints, Serving
    <3>5. groups \/ \A j \in Pads : dev'[p][j] # "none" => dev[p][j] # "none"
      BY <2>9 DEF MuxPad, SetDev, NoDevices, ProcOK
    <3>. QED
      BY <2>0, <3>1, <3>2, <3>3, <3>4, <3>5, CoreFrame
  <2>10. ASSUME NEW i \in Pads, EnableChannel(p, i) PROVE CoreInv'
    <3>1. core' = core /\ groups' = groups
      BY <2>10 DEF EnableChannel, kernelVars, boardVars
    <3>2. \A j \in Pads : pulse'[j] = "bench" => pulse[j] = "bench" \/ core = "off"
      BY <2>10 DEF EnableChannel, boardVars, BoardOK, CoreInv, CoreOf
    <3>3. \/ kind'[p] = "bench" \/ core = "off"
          \/ kind'[p] = kind[p] /\ pc[p] \notin Serving
      BY <2>10 DEF EnableChannel, At, Using, Serving, ProcOK
    <3>4. pc'[p] \in LoaderPoints => pc[p] \in LoaderPoints
      BY <2>10 DEF EnableChannel, At, Using, Goto, ProcOK, LoaderPoints, Serving
    <3>5. groups \/ \A j \in Pads : dev'[p][j] # "none" => dev[p][j] # "none"
      BY <2>10 DEF EnableChannel, SetDev, NoDevices, ProcOK
    <3>. QED
      BY <2>0, <3>1, <3>2, <3>3, <3>4, <3>5, CoreFrame
  <2>11. CASE EndBench(p)
    <3>1. core' = core /\ groups' = groups
      BY <2>11 DEF EndBench, kernelVars, boardVars
    <3>2. \A i \in Pads : pulse'[i] = "bench" => pulse[i] = "bench" \/ core = "off"
      BY <2>11 DEF EndBench, boardVars
    <3>3. \/ kind'[p] = "bench" \/ core = "off"
          \/ kind'[p] = kind[p] /\ pc[p] \notin Serving
      BY <2>11 DEF EndBench, At, Using, Serving, ProcOK
    <3>4. pc'[p] \in LoaderPoints => pc[p] \in LoaderPoints
      BY <2>11 DEF EndBench, At, Using, Goto, ProcOK, LoaderPoints, Serving
    <3>5. groups \/ \A i \in Pads : dev'[p][i] # "none" => dev[p][i] # "none"
      BY <2>11 DEF EndBench, SetDev, NoDevices, ProcOK
    <3>. QED
      BY <2>0, <3>1, <3>2, <3>3, <3>4, <3>5, CoreFrame
  <2>12. ASSUME NEW i \in Pads, DisableChannel(p, i) PROVE CoreInv'
    <3>1. core' = core /\ groups' = groups
      BY <2>12 DEF DisableChannel, kernelVars, boardVars
    <3>2. \A j \in Pads : pulse'[j] = "bench" => pulse[j] = "bench" \/ core = "off"
      BY <2>12 DEF DisableChannel, boardVars, BoardOK
    <3>3. \/ kind'[p] = "bench" \/ core = "off"
          \/ kind'[p] = kind[p] /\ pc[p] \notin Serving
      BY <2>12 DEF DisableChannel, At, Using, Serving, ProcOK
    <3>4. pc'[p] \in LoaderPoints => pc[p] \in LoaderPoints
      BY <2>12 DEF DisableChannel, At, Using, Goto, ProcOK, LoaderPoints, Serving
    <3>5. groups \/ \A j \in Pads : dev'[p][j] # "none" => dev[p][j] # "none"
      BY <2>12 DEF DisableChannel, SetDev, NoDevices, ProcOK
    <3>. QED
      BY <2>0, <3>1, <3>2, <3>3, <3>4, <3>5, CoreFrame
  <2>13. CASE ClearDevices(p)
    <3>1. core' = core /\ groups' = groups
      BY <2>13 DEF ClearDevices, kernelVars, boardVars
    <3>2. \A i \in Pads : pulse'[i] = "bench" => pulse[i] = "bench" \/ core = "off"
      BY <2>13 DEF ClearDevices, boardVars
    <3>3. \/ kind'[p] = "bench" \/ core = "off"
          \/ kind'[p] = kind[p] /\ pc[p] \notin Serving
      BY <2>13 DEF ClearDevices, At, Using, Serving, ProcOK
    <3>4. pc'[p] \in LoaderPoints => pc[p] \in LoaderPoints
      BY <2>13 DEF ClearDevices, At, Using, Goto, ProcOK, LoaderPoints, Serving
    <3>5. groups \/ \A i \in Pads : dev'[p][i] # "none" => dev[p][i] # "none"
      BY <2>13 DEF ClearDevices, SetDev, NoDevices, ProcOK
    <3>. QED
      BY <2>0, <3>1, <3>2, <3>3, <3>4, <3>5, CoreFrame
  <2>14. CASE UnbindGroups(p)
    <3>1. kind[p] = "loader" /\ pc[p] = "use" /\ core = "off"
      BY <2>14 DEF UnbindGroups, Using, At, CoreInv, CoreOf, Serving
    <3>2. \A r \in Procs, i \in Pads : dev[r][i] = "none"
      <4>. SUFFICES ASSUME NEW r \in Procs, NEW i \in Pads, dev[r][i] # "none"
                    PROVE  FALSE
        OBVIOUS
      <4>1. r = p
        BY <3>1, DevicesAreHolders DEF Before
      <4>. QED
        BY <3>1, <4>1 DEF LocalInv, Local
    <3>3. core' = core /\ dev' = dev /\ pulse' = pulse /\ groups' \in {groups, FALSE}
      BY <2>14 DEF UnbindGroups, boardVars
    <3>4. (pc'[p] = "lines back" /\ groups' = groups) \/ ~groups'
      BY <2>14 DEF UnbindGroups, Goto, ProcOK
    <3>5. \A r \in Procs : CoreOf(r)'
      BY <3>1, <3>2, <3>3, <3>4, <2>0 DEF CoreOf, CoreInv, Kept, LoaderPoints, Serving, KernelOK
    <3>. QED
      BY <3>1, <3>3, <3>5 DEF CoreInv, CoreAlone
  <2>15. CASE ReleaseCore(p)
    <3>1. kind[p] = "loader" /\ pc[p] = "registers" /\ core = "off" /\ ~groups
      BY <2>15 DEF ReleaseCore, At, CoreInv, CoreOf, Serving, LoaderPoints, LocalInv, Local
    <3>2. groups' = groups /\ dev' = dev /\ pulse' = pulse /\ kind' = kind
      BY <2>15 DEF ReleaseCore, kernelVars
    <3>3. \/ pc'[p] = "groups back" /\ core' = core
          \/ pc'[p] \in {"serve", "holding"} /\ \A i \in Pads : pulse[i] = "off"
      BY <2>15 DEF ReleaseCore, Goto, ProcOK
    <3>4. \A r \in Procs : CoreOf(r)'
      BY <3>1, <3>2, <3>3, <2>0 DEF CoreOf, CoreInv, Kept, LoaderPoints, Serving, LocalInv, OneLoader
    <3>. QED
      BY <3>1, <3>2, <3>3, <3>4 DEF CoreInv, CoreAlone
  <2>16. CASE HoldCore(p)
    <3>1. /\ pc[p] \in {"serve", "holding"} /\ groups' = groups /\ dev' = dev
          /\ pulse' = pulse /\ kind' = kind
      BY <2>16 DEF HoldCore, At, kernelVars
    <3>2. \/ pc'[p] = "fatal" /\ core' = core
          \/ pc'[p] = "registers back" /\ core' = "off"
      BY <2>16 DEF HoldCore, Goto, ProcOK
    <3>3. \A r \in Procs : CoreOf(r)'
      BY <3>1, <3>2, <2>0 DEF CoreOf, CoreInv, Kept, LoaderPoints, Serving
    <3>. QED
      BY <3>1, <3>2, <3>3 DEF CoreInv, CoreAlone
  <2>17. CASE RestoreRegisters(p)
    <3>1. core' = core /\ groups' = groups
      BY <2>17 DEF RestoreRegisters, kernelVars, boardVars
    <3>2. \A i \in Pads : pulse'[i] = "bench" => pulse[i] = "bench" \/ core = "off"
      BY <2>17 DEF RestoreRegisters, boardVars, BoardOK
    <3>3. \/ kind'[p] = "bench" \/ core = "off"
          \/ kind'[p] = kind[p] /\ pc[p] \notin Serving
      BY <2>17 DEF RestoreRegisters, At, Using, Serving, ProcOK
    <3>4. pc'[p] \in LoaderPoints => pc[p] \in LoaderPoints
      BY <2>17 DEF RestoreRegisters, At, Using, Goto, ProcOK, LoaderPoints, Serving
    <3>5. groups \/ \A i \in Pads : dev'[p][i] # "none" => dev[p][i] # "none"
      BY <2>17 DEF RestoreRegisters, SetDev, NoDevices, ProcOK
    <3>. QED
      BY <2>0, <3>1, <3>2, <3>3, <3>4, <3>5, CoreFrame
  <2>18. CASE BindGroups(p)
    <3>1. kind[p] = "loader" /\ pc[p] = "groups back" /\ core = "off" /\ ~groups
      BY <2>18 DEF BindGroups, At, CoreInv, CoreOf, Serving, LoaderPoints, LocalInv, Local
    <3>2. core' = core /\ dev' = dev /\ pulse' = pulse /\ kind' = kind /\ pc'[p] = "lines back"
      BY <2>18 DEF BindGroups, boardVars, Goto, ProcOK
    <3>3. \A r \in Procs \ {p} : pc[r] \notin LoaderPoints
      BY <3>1, AloneBehind DEF Before, LoaderPoints, Serving
    <3>4. \A r \in Procs : CoreOf(r)'
      BY <3>1, <3>2, <3>3, <2>0 DEF CoreOf, CoreInv, Kept, LoaderPoints, Serving
    <3>. QED
      BY <3>1, <3>2, <3>4 DEF CoreInv, CoreAlone
  <2>19. CASE CloseLines(p)
    <3>1. core' = core /\ groups' = groups
      BY <2>19 DEF CloseLines, kernelVars, boardVars
    <3>2. \A i \in Pads : pulse'[i] = "bench" => pulse[i] = "bench" \/ core = "off"
      BY <2>19 DEF CloseLines, boardVars
    <3>3. \/ kind'[p] = "bench" \/ core = "off"
          \/ kind'[p] = kind[p] /\ pc[p] \notin Serving
      BY <2>19 DEF CloseLines, At, Using, Serving, ProcOK
    <3>4. pc'[p] \in LoaderPoints => pc[p] \in LoaderPoints
      BY <2>19 DEF CloseLines, At, Using, Goto, ProcOK, LoaderPoints, Serving
    <3>5. groups \/ \A i \in Pads : dev'[p][i] # "none" => dev[p][i] # "none"
      BY <2>19 DEF CloseLines, SetDev, NoDevices, ProcOK
    <3>. QED
      BY <2>0, <3>1, <3>2, <3>3, <3>4, <3>5, CoreFrame
  <2>20. ASSUME NEW i \in Pads, RestorePad(p, i) PROVE CoreInv'
    <3>1. core' = core /\ groups' = groups
      BY <2>20 DEF RestorePad, kernelVars, boardVars
    <3>2. \A j \in Pads : pulse'[j] = "bench" => pulse[j] = "bench" \/ core = "off"
      BY <2>20 DEF RestorePad, boardVars
    <3>3. \/ kind'[p] = "bench" \/ core = "off"
          \/ kind'[p] = kind[p] /\ pc[p] \notin Serving
      BY <2>20 DEF RestorePad, At, Using, Serving, ProcOK
    <3>4. pc'[p] \in LoaderPoints => pc[p] \in LoaderPoints
      BY <2>20 DEF RestorePad, At, Using, Goto, ProcOK, LoaderPoints, Serving
    <3>5. groups \/ \A j \in Pads : dev'[p][j] # "none" => dev[p][j] # "none"
      BY <2>20 DEF RestorePad, SetDev, NoDevices, ProcOK
    <3>. QED
      BY <2>0, <3>1, <3>2, <3>3, <3>4, <3>5, CoreFrame
  <2>21. CASE BindI2c(p)
    <3>1. core' = core /\ groups' = groups
      BY <2>21 DEF BindI2c, kernelVars, boardVars
    <3>2. \A i \in Pads : pulse'[i] = "bench" => pulse[i] = "bench" \/ core = "off"
      BY <2>21 DEF BindI2c, boardVars
    <3>3. \/ kind'[p] = "bench" \/ core = "off"
          \/ kind'[p] = kind[p] /\ pc[p] \notin Serving
      BY <2>21 DEF BindI2c, At, Using, Serving, ProcOK
    <3>4. pc'[p] \in LoaderPoints => pc[p] \in LoaderPoints
      BY <2>21 DEF BindI2c, At, Using, Goto, ProcOK, LoaderPoints, Serving
    <3>5. groups \/ \A i \in Pads : dev'[p][i] # "none" => dev[p][i] # "none"
      BY <2>21 DEF BindI2c, SetDev, NoDevices, ProcOK
    <3>. QED
      BY <2>0, <3>1, <3>2, <3>3, <3>4, <3>5, CoreFrame
  <2>22. CASE Unlock(p)
    <3>1. core' = core /\ groups' = groups
      BY <2>22 DEF Unlock, kernelVars, boardVars
    <3>2. \A i \in Pads : pulse'[i] = "bench" => pulse[i] = "bench" \/ core = "off"
      BY <2>22 DEF Unlock, boardVars
    <3>3. \/ kind'[p] = "bench" \/ core = "off"
          \/ kind'[p] = kind[p] /\ pc[p] \notin Serving
      BY <2>22 DEF Unlock, At, Using, Serving, ProcOK, Gone
    <3>4. pc'[p] \in LoaderPoints => pc[p] \in LoaderPoints
      BY <2>22 DEF Unlock, At, Using, Goto, ProcOK, LoaderPoints, Serving, Gone
    <3>5. groups \/ \A i \in Pads : dev'[p][i] # "none" => dev[p][i] # "none"
      BY <2>22 DEF Unlock, SetDev, NoDevices, ProcOK, Gone
    <3>. QED
      BY <2>0, <3>1, <3>2, <3>3, <3>4, <3>5, CoreFrame
  <2>23. CASE Kill(p)
    <3>1. core' = core /\ groups' = groups
      BY <2>23 DEF Kill, kernelVars, boardVars
    <3>2. \A i \in Pads : pulse'[i] = "bench" => pulse[i] = "bench" \/ core = "off"
      BY <2>23 DEF Kill, boardVars
    <3>3. \/ kind'[p] = "bench" \/ core = "off"
          \/ kind'[p] = kind[p] /\ pc[p] \notin Serving
      BY <2>23 DEF Kill, At, Using, Serving, ProcOK, Gone
    <3>4. pc'[p] \in LoaderPoints => pc[p] \in LoaderPoints
      BY <2>23 DEF Kill, At, Using, Goto, ProcOK, LoaderPoints, Serving, Gone
    <3>5. groups \/ \A i \in Pads : dev'[p][i] # "none" => dev[p][i] # "none"
      BY <2>23 DEF Kill, SetDev, NoDevices, ProcOK, Gone
    <3>. QED
      BY <2>0, <3>1, <3>2, <3>3, <3>4, <3>5, CoreFrame
  <2>. QED
    BY <1>1, <2>1, <2>2, <2>3, <2>4, <2>5, <2>6, <2>7, <2>8, <2>9, <2>10, <2>11, <2>12, <2>13, <2>14, <2>15, <2>16, <2>17, <2>18, <2>19, <2>20, <2>21, <2>22, <2>23 DEF Move, Step
<1>2. CASE CoreInit
  <2>1. \A r \in Procs : CoreOf(r)'
    BY <1>2 DEF CoreInit, CoreInv, CoreOf, procVars, kernelVars
  <2>. QED
    BY <1>2, <2>1 DEF CoreInit, CoreInv, CoreAlone, kernelVars
<1>3. ASSUME NEW i \in Pads, CorePulse(i) PROVE CoreInv'
  <2>1. \A r \in Procs : CoreOf(r)'
    BY <1>3 DEF CorePulse, CoreInv, CoreOf, procVars, kernelVars
  <2>. QED
    BY <1>3, <2>1 DEF CorePulse, CoreInv, CoreAlone, kernelVars, BoardOK
<1>4. CASE UNCHANGED vars
  BY <1>4 DEF vars, CoreInv, CoreOf, CoreAlone, procVars, kernelVars, boardVars
<1>. QED
  BY <1>1, <1>2, <1>3, <1>4 DEF Next, Move
(* What could not be given back stays so.                                  *)
LEMMA ExcusedStays == [Next]_vars /\ ~excused' => ~excused
<1>. SUFFICES ASSUME [Next]_vars, ~excused' PROVE ~excused
  OBVIOUS
<1>1. ASSUME NEW p \in Procs, Move(p) PROVE ~excused
  BY <1>1 DEF Move, Step, Start, Kill, CheckGroups, TakeLock, CheckClients, SavePads,
     UnbindI2c, RequestLines, RequestChannel, MuxPad, EnableChannel, EndBench,
     DisableChannel, ClearDevices, UnbindGroups, ReleaseCore, HoldCore,
     RestoreRegisters, BindGroups, CloseLines, RestorePad, BindI2c, Unlock,
     ghostVars, Excuse
<1>. QED
  BY <1>1 DEF Next, Move, CoreInit, CorePulse, Excuse, ghostVars, vars

(* The holder can give back what it found.                                 *)
LEMMA OutsiderFrame ==
  ASSUME BoardInv, ~excused, NEW p \in Procs, \A r \in Procs \ {p} : Kept(r),
         owner # p, owner' = owner, UNCHANGED <<pad, driver, found>>
  PROVE  BoardInv'
<1>1. ASSUME NEW r \in Procs, owner' = r PROVE Restorable(r)'
  <2>1. r # p /\ owner = r /\ Kept(r) /\ Restorable(r)
    BY <1>1 DEF BoardInv
  <2>. QED
    BY <2>1 DEF Restorable, Kept
<1>2. NoConflict'
  BY DEF BoardInv, NoConflict
<1>. QED
  BY <1>1, <1>2 DEF BoardInv

LEMMA HolderFrame ==
  ASSUME BoardInv, ~excused, NEW p \in Procs, owner = p, owner' = p,
         UNCHANGED <<pad, driver, found>>,
         saved'[p] = saved[p], old'[p] = old[p], detached'[p] = detached[p],
         pc'[p] \notin {"pads back", "unlock"},
         pc'[p] \in Apart => pc[p] \in Apart
  PROVE  BoardInv'
<1>1. Restorable(p)'
  BY DEF BoardInv, Restorable
<1>2. NoConflict'
  BY DEF BoardInv, NoConflict
<1>. QED
  BY <1>1, <1>2 DEF BoardInv

BoardStep == TypeOK /\ HolderInv /\ LocalInv /\ BoardInv
LEMMA NextBoard == BoardStep /\ [Next]_vars => BoardInv'
<1>. SUFFICES ASSUME BoardStep, [Next]_vars, ~excused' PROVE BoardInv'
  BY DEF BoardInv
<1>0. ~excused
  BY ExcusedStays
<1>. USE DEF BoardStep, TypeOK
<1>1. ASSUME NEW p \in Procs, Move(p) PROVE BoardInv'
  <2>0. \A r \in Procs \ {p} : Kept(r)
    BY <1>1, OthersKept
  <2>1. ASSUME NEW k \in {"loader", "bench"}, Start(p, k) PROVE BoardInv'
    BY <1>0, <2>0, <2>1, OutsiderFrame DEF Start, HolderInv, At, Before, kernelVars,
       boardVars, ghostVars
  <2>2. CASE CheckGroups(p)
    BY <1>0, <2>0, <2>2, OutsiderFrame DEF CheckGroups, HolderInv, At, Before, kernelVars,
       boardVars, ghostVars
  <2>3. CASE TakeLock(p)
    <3>1. CASE owner' = owner /\ UNCHANGED found
      BY <1>0, <2>0, <2>3, <3>1, OutsiderFrame DEF TakeLock, HolderInv, At, Before, boardVars
    <3>2. CASE owner' = p /\ found' = Leased /\ UNCHANGED <<saved, detached>> /\ Goto(p, "clients")
      <4>1. ~saved[p] /\ ~detached[p] /\ pc'[p] = "clients"
        <5>1. pc[p] \in Unsaved
          BY <2>3 DEF TakeLock, At, Unsaved, Before
        <5>2. ~saved[p] /\ ~detached[p]
          BY <5>1 DEF LocalInv, Local
        <5>. QED
          BY <3>2, <5>2 DEF Goto, ProcOK
      <4>2. pad' = pad /\ driver' = driver /\ found'.pad = pad /\ found'.driver = driver
        BY <2>3, <3>2 DEF TakeLock, boardVars, Leased
      <4>3. Restorable(p)'
        BY <3>2, <4>1, <4>2 DEF Restorable, Before, Apart, LoaderPoints, Serving
      <4>4. NoConflict'
        BY <1>0, <4>2 DEF BoardInv, NoConflict
      <4>. QED
        BY <3>2, <4>3, <4>4 DEF BoardInv
    <3>. QED
      BY <2>3, <3>1, <3>2 DEF TakeLock, ghostVars
  <2>4. CASE CheckClients(p)
    <3>1. owner = p /\ owner' = p
      BY <2>4 DEF CheckClients, HolderInv, At, Using, Before, kernelVars
    <3>2. UNCHANGED <<pad, driver, found, saved, old, detached>>
      BY <2>4 DEF CheckClients, kernelVars, boardVars, ghostVars, Excuse
    <3>3. pc'[p] \notin {"pads back", "unlock"} /\ (pc'[p] \in Apart => pc[p] \in Apart)
      BY <2>4 DEF CheckClients, At, Using, Goto, ProcOK, Apart, LoaderPoints, Serving
    <3>. QED
      BY <1>0, <3>1, <3>2, <3>3, HolderFrame
  <2>5. CASE SavePads(p)
    <3>1. owner = p /\ owner' = p
      BY <2>5 DEF SavePads, HolderInv, At, Using, Before, kernelVars
    <3>2. CASE Goto(p, "lines back") /\ UNCHANGED <<saved, old>>
      <4>1. pc'[p] = "lines back"
        BY <3>2 DEF Goto, ProcOK
      <4>. QED
        BY <1>0, <2>5, <3>1, <3>2, <4>1, HolderFrame DEF SavePads, kernelVars, boardVars,
           ghostVars, Before, Apart, LoaderPoints, Serving
    <3>3. CASE saved' = [saved EXCEPT ![p] = TRUE] /\ old' = [old EXCEPT ![p] = pad]
               /\ Goto(p, "unbind")
      <4>1. saved'[p] /\ old'[p] = pad /\ pc'[p] = "unbind" /\ ~saved[p]
        <5>1. pc[p] \in Unsaved
          BY <2>5 DEF SavePads, At, Unsaved
        <5>2. ~saved[p]
          BY <5>1 DEF LocalInv, Local
        <5>. QED
          BY <3>3, <5>2 DEF Goto, ProcOK
      <4>2. UNCHANGED <<pad, driver, found, detached>>
        BY <2>5 DEF SavePads, kernelVars, boardVars, ghostVars
      <4>3. Restorable(p)'
        BY <1>0, <3>1, <4>1, <4>2 DEF BoardInv, Restorable, Before, Apart, LoaderPoints, Serving
      <4>. QED
        BY <1>0, <3>1, <4>2, <4>3 DEF BoardInv, NoConflict
    <3>. QED
      BY <2>5, <3>2, <3>3 DEF SavePads
  <2>6. CASE UnbindI2c(p)
    <3>1. owner = p /\ owner' = p
      BY <2>6 DEF UnbindI2c, HolderInv, At, Using, Before, kernelVars
    <3>2. UNCHANGED <<pad, found, saved, old>> /\ saved[p] /\ ~detached[p]
      BY <2>6 DEF UnbindI2c, At, boardVars, ghostVars, LocalInv, Local
    <3>3. CASE Goto(p, "lines back") /\ UNCHANGED <<driver, detached>>
      <4>1. pc'[p] = "lines back"
        BY <3>3 DEF Goto, ProcOK
      <4>. QED
        BY <1>0, <3>1, <3>2, <3>3, <4>1, HolderFrame DEF Before, Apart, LoaderPoints, Serving
    <3>4. CASE Goto(p, "lines") /\ driver' = FALSE /\ detached' = [detached EXCEPT ![p] = driver]
      <4>1. pc'[p] = "lines" /\ detached'[p] = driver
        BY <3>4 DEF Goto, ProcOK
      <4>2. Restorable(p)'
        BY <1>0, <3>1, <3>2, <3>4, <4>1 DEF BoardInv, Restorable, KernelOK
      <4>3. NoConflict'
        BY <1>0, <3>2, <3>4 DEF BoardInv, NoConflict
      <4>. QED
        BY <3>1, <4>2, <4>3 DEF BoardInv
    <3>. QED
      BY <2>6, <3>3, <3>4 DEF UnbindI2c
  <2>7. CASE RequestLines(p)
    <3>1. owner = p /\ owner' = p
      BY <2>7 DEF RequestLines, HolderInv, At, Using, Before, kernelVars
    <3>2. UNCHANGED <<pad, driver, found, saved, old, detached>>
      BY <2>7 DEF RequestLines, kernelVars, boardVars, ghostVars, Excuse
    <3>3. pc'[p] \notin {"pads back", "unlock"} /\ (pc'[p] \in Apart => pc[p] \in Apart)
      BY <2>7 DEF RequestLines, At, Using, Goto, ProcOK, Apart, LoaderPoints, Serving
    <3>. QED
      BY <1>0, <3>1, <3>2, <3>3, HolderFrame
  <2>8. ASSUME NEW i \in Pads, RequestChannel(p, i) PROVE BoardInv'
    <3>1. owner = p /\ owner' = p
      BY <2>8 DEF RequestChannel, HolderInv, At, Using, Before, kernelVars
    <3>2. UNCHANGED <<pad, driver, found, saved, old, detached>>
      BY <2>8 DEF RequestChannel, kernelVars, boardVars, ghostVars, Excuse
    <3>3. pc'[p] \notin {"pads back", "unlock"} /\ (pc'[p] \in Apart => pc[p] \in Apart)
      BY <2>8 DEF RequestChannel, At, Using, Goto, ProcOK, Apart, LoaderPoints, Serving
    <3>. QED
      BY <1>0, <3>1, <3>2, <3>3, HolderFrame
  <2>9. ASSUME NEW i \in Pads, MuxPad(p, i) PROVE BoardInv'
    <3>1. owner = p /\ owner' = p
      BY <2>9 DEF MuxPad, HolderInv, At, Using, Before, kernelVars
    <3>2. pc[p] = "use" /\ pc'[p] \in {"use", "quiet"} /\ saved[p]
      BY <2>9 DEF MuxPad, Using, At, Goto, ProcOK
    <3>3. UNCHANGED <<driver, found, saved, old, detached>>
      BY <2>9 DEF MuxPad, kernelVars, ghostVars
    <3>4. ~driver
      BY <1>0, <3>1, <3>2 DEF BoardInv, Restorable, Apart
    <3>5. Restorable(p)'
      BY <1>0, <3>1, <3>2, <3>3, <3>4 DEF BoardInv, Restorable
    <3>6. NoConflict'
      BY <1>0, <3>3, <3>4 DEF BoardInv, NoConflict
    <3>. QED
      BY <3>1, <3>5, <3>6 DEF BoardInv
  <2>10. ASSUME NEW i \in Pads, EnableChannel(p, i) PROVE BoardInv'
    <3>1. owner = p /\ owner' = p
      BY <2>10 DEF EnableChannel, HolderInv, At, Using, Before, kernelVars
    <3>2. UNCHANGED <<pad, driver, found, saved, old, detached>>
      BY <2>10 DEF EnableChannel, kernelVars, boardVars, ghostVars, Excuse
    <3>3. pc'[p] \notin {"pads back", "unlock"} /\ (pc'[p] \in Apart => pc[p] \in Apart)
      BY <2>10 DEF EnableChannel, At, Using, Goto, ProcOK, Apart, LoaderPoints, Serving
    <3>. QED
      BY <1>0, <3>1, <3>2, <3>3, HolderFrame
  <2>11. CASE EndBench(p)
    <3>1. owner = p /\ owner' = p
      BY <2>11 DEF EndBench, HolderInv, At, Using, Before, kernelVars
    <3>2. UNCHANGED <<pad, driver, found, saved, old, detached>>
      BY <2>11 DEF EndBench, kernelVars, boardVars, ghostVars, Excuse
    <3>3. pc'[p] \notin {"pads back", "unlock"} /\ (pc'[p] \in Apart => pc[p] \in Apart)
      BY <2>11 DEF EndBench, At, Using, Goto, ProcOK, Apart, LoaderPoints, Serving
    <3>. QED
      BY <1>0, <3>1, <3>2, <3>3, HolderFrame
  <2>12. ASSUME NEW i \in Pads, DisableChannel(p, i) PROVE BoardInv'
    <3>1. owner = p /\ owner' = p
      BY <2>12 DEF DisableChannel, HolderInv, At, Using, Before, kernelVars
    <3>2. UNCHANGED <<pad, driver, found, saved, old, detached>>
      BY <2>12 DEF DisableChannel, kernelVars, boardVars, ghostVars, Excuse
    <3>3. pc'[p] \notin {"pads back", "unlock"} /\ (pc'[p] \in Apart => pc[p] \in Apart)
      BY <2>12 DEF DisableChannel, At, Using, Goto, ProcOK, Apart, LoaderPoints, Serving
    <3>. QED
      BY <1>0, <3>1, <3>2, <3>3, HolderFrame
  <2>13. CASE ClearDevices(p)
    <3>1. owner = p /\ owner' = p
      BY <2>13 DEF ClearDevices, HolderInv, At, Using, Before, kernelVars
    <3>2. UNCHANGED <<pad, driver, found, saved, old, detached>>
      BY <2>13 DEF ClearDevices, kernelVars, boardVars, ghostVars, Excuse
    <3>3. pc'[p] \notin {"pads back", "unlock"} /\ (pc'[p] \in Apart => pc[p] \in Apart)
      BY <2>13 DEF ClearDevices, At, Using, Goto, ProcOK, Apart, LoaderPoints, Serving
    <3>. QED
      BY <1>0, <3>1, <3>2, <3>3, HolderFrame
  <2>14. CASE UnbindGroups(p)
    <3>1. owner = p /\ owner' = p
      BY <2>14 DEF UnbindGroups, HolderInv, At, Using, Before, kernelVars
    <3>2. UNCHANGED <<pad, driver, found, saved, old, detached>>
      BY <2>14 DEF UnbindGroups, kernelVars, boardVars, ghostVars, Excuse
    <3>3. pc'[p] \notin {"pads back", "unlock"} /\ (pc'[p] \in Apart => pc[p] \in Apart)
      BY <2>14 DEF UnbindGroups, At, Using, Goto, ProcOK, Apart, LoaderPoints, Serving
    <3>. QED
      BY <1>0, <3>1, <3>2, <3>3, HolderFrame
  <2>15. CASE ReleaseCore(p)
    <3>1. owner = p /\ owner' = p
      BY <2>15 DEF ReleaseCore, HolderInv, At, Using, Before, kernelVars
    <3>2. UNCHANGED <<pad, driver, found, saved, old, detached>>
      BY <2>15 DEF ReleaseCore, kernelVars, boardVars, ghostVars, Excuse
    <3>3. pc'[p] \notin {"pads back", "unlock"} /\ (pc'[p] \in Apart => pc[p] \in Apart)
      BY <2>15 DEF ReleaseCore, At, Using, Goto, ProcOK, Apart, LoaderPoints, Serving
    <3>. QED
      BY <1>0, <3>1, <3>2, <3>3, HolderFrame
  <2>16. CASE HoldCore(p)
    <3>1. owner = p /\ owner' = p
      BY <2>16 DEF HoldCore, HolderInv, At, Using, Before, kernelVars
    <3>2. UNCHANGED <<pad, driver, found, saved, old, detached>>
      BY <2>16 DEF HoldCore, kernelVars, boardVars, ghostVars, Excuse
    <3>3. pc'[p] \notin {"pads back", "unlock"} /\ (pc'[p] \in Apart => pc[p] \in Apart)
      BY <2>16 DEF HoldCore, At, Using, Goto, ProcOK, Apart, LoaderPoints, Serving
    <3>. QED
      BY <1>0, <3>1, <3>2, <3>3, HolderFrame
  <2>17. CASE RestoreRegisters(p)
    <3>1. owner = p /\ owner' = p
      BY <2>17 DEF RestoreRegisters, HolderInv, At, Using, Before, kernelVars
    <3>2. UNCHANGED <<pad, driver, found, saved, old, detached>>
      BY <2>17 DEF RestoreRegisters, kernelVars, boardVars, ghostVars, Excuse
    <3>3. pc'[p] \notin {"pads back", "unlock"} /\ (pc'[p] \in Apart => pc[p] \in Apart)
      BY <2>17 DEF RestoreRegisters, At, Using, Goto, ProcOK, Apart, LoaderPoints, Serving
    <3>. QED
      BY <1>0, <3>1, <3>2, <3>3, HolderFrame
  <2>18. CASE BindGroups(p)
    <3>1. owner = p /\ owner' = p
      BY <2>18 DEF BindGroups, HolderInv, At, Using, Before, kernelVars
    <3>2. UNCHANGED <<pad, driver, found, saved, old, detached>>
      BY <2>18 DEF BindGroups, kernelVars, boardVars, ghostVars, Excuse
    <3>3. pc'[p] \notin {"pads back", "unlock"} /\ (pc'[p] \in Apart => pc[p] \in Apart)
      BY <2>18 DEF BindGroups, At, Using, Goto, ProcOK, Apart, LoaderPoints, Serving
    <3>. QED
      BY <1>0, <3>1, <3>2, <3>3, HolderFrame
  <2>19. CASE CloseLines(p)
    <3>1. owner = p /\ owner' = p
      BY <2>19 DEF CloseLines, HolderInv, At, Using, Before, kernelVars
    <3>2. pc'[p] = "pads back" /\ left'[p] = (IF saved[p] THEN Pads ELSE {})
      BY <2>19 DEF CloseLines, Goto, ProcOK
    <3>3. UNCHANGED <<pad, driver, found, saved, old, detached>>
      BY <2>19 DEF CloseLines, boardVars, ghostVars
    <3>4. Restorable(p)'
      BY <1>0, <3>1, <3>2, <3>3 DEF BoardInv, Restorable, Before, Apart, LoaderPoints, Serving
    <3>5. NoConflict'
      BY <1>0, <3>3 DEF BoardInv, NoConflict
    <3>. QED
      BY <3>1, <3>4, <3>5 DEF BoardInv
  <2>20. ASSUME NEW i \in Pads, RestorePad(p, i) PROVE BoardInv'
    <3>1. owner = p /\ owner' = p
      BY <2>20 DEF RestorePad, HolderInv, At, Using, Before, kernelVars
    <3>2. pc[p] = "pads back" /\ pc' = pc /\ i \in left[p] /\ left'[p] = left[p] \ {i}
      BY <2>20 DEF RestorePad, At, ProcOK
    <3>3. pad' = [pad EXCEPT ![i] = old[p][i]]
      BY <2>20 DEF RestorePad, Excuse
    <3>4. UNCHANGED <<driver, found, saved, old, detached>>
      BY <2>20 DEF RestorePad, kernelVars, Excuse
    <3>5. saved[p] /\ old[p] = found.pad /\ Restorable(p)
      BY <1>0, <3>1, <3>2 DEF LocalInv, Local, BoardInv, Restorable
    <3>6. pad'[i] = found.pad[i] /\ \A j \in Pads \ {i} : pad'[j] = pad[j]
      BY <3>3, <3>5 DEF BoardOK
    <3>7. Restorable(p)'
      BY <3>2, <3>4, <3>5, <3>6 DEF Restorable, Before, Apart, LoaderPoints, Serving
    <3>8. NoConflict'
      BY <1>0, <3>4, <3>5, <3>6 DEF BoardInv, NoConflict, Restorable
    <3>. QED
      BY <3>1, <3>7, <3>8 DEF BoardInv
  <2>21. CASE BindI2c(p)
    <3>1. owner = p /\ owner' = p
      BY <2>21 DEF BindI2c, HolderInv, At, Using, Before, kernelVars
    <3>2. pc[p] = "pads back" /\ left[p] = {} /\ pc'[p] = "unlock" /\ ~saved'[p]
      BY <2>21 DEF BindI2c, At, Goto, ProcOK
    <3>3. UNCHANGED <<pad, found>> /\ driver' = (driver \/ detached[p]) /\ ~detached'[p]
      BY <2>21 DEF BindI2c, boardVars, Excuse, ProcOK
    <3>4. Restorable(p)
      BY <1>0, <3>1 DEF BoardInv
    <3>5. pad = found.pad
      <4>1. \A i \in Pads : pad[i] = found.pad[i]
        BY <3>2, <3>4 DEF Restorable
      <4>2. pad \in [Pads -> PadValues] /\ found.pad \in [Pads -> PadValues]
        BY DEF BoardOK, GhostOK
      <4>. QED
        BY <4>1, <4>2
    <3>6. driver' = found.driver
      BY <3>3, <3>4 DEF Restorable, KernelOK, GhostOK, ProcOK
    <3>7. Restorable(p)'
      BY <3>2, <3>3, <3>5, <3>6 DEF Restorable, Before, Apart, LoaderPoints, Serving
    <3>8. NoConflict'
      BY <1>0, <3>3, <3>5, <3>6 DEF BoardInv, NoConflict
    <3>. QED
      BY <3>1, <3>7, <3>8 DEF BoardInv
  <2>22. CASE Unlock(p)
    <3>1. UNCHANGED <<pad, driver, found>>
      BY <2>22 DEF Unlock, boardVars, ghostVars
    <3>2. CASE owner = p
      <4>1. \A r \in Procs : owner' # r
        BY <2>22, <3>2, PinLeaseAssumption DEF Unlock, Drop
      <4>. QED
        BY <1>0, <3>1, <4>1 DEF BoardInv, NoConflict
    <3>3. CASE owner # p
      BY <1>0, <2>0, <2>22, <3>1, <3>3, OutsiderFrame DEF Unlock, Drop
    <3>. QED
      BY <3>2, <3>3
  <2>23. CASE Kill(p)
    <3>1. UNCHANGED <<pad, driver, found>>
      BY <2>23 DEF Kill, boardVars, ghostVars
    <3>2. CASE owner = p
      <4>1. \A r \in Procs : owner' # r
        BY <2>23, <3>2, PinLeaseAssumption DEF Kill, Drop
      <4>. QED
        BY <1>0, <3>1, <4>1 DEF BoardInv, NoConflict
    <3>3. CASE owner # p
      BY <1>0, <2>0, <2>23, <3>1, <3>3, OutsiderFrame DEF Kill, Drop
    <3>. QED
      BY <3>2, <3>3
  <2>. QED
    BY <1>1, <2>1, <2>2, <2>3, <2>4, <2>5, <2>6, <2>7, <2>8, <2>9, <2>10, <2>11, <2>12, <2>13, <2>14, <2>15, <2>16, <2>17, <2>18, <2>19, <2>20, <2>21, <2>22, <2>23 DEF Move, Step
<1>2. CASE CoreInit
  <2>1. PICK q \in Procs : pc[q] \in Serving
    BY <1>2 DEF CoreInit, Excuse, Stray, Serving
  <2>2. owner = q /\ saved[q] /\ Restorable(q)
    BY <1>0, <2>1 DEF HolderInv, Before, Serving, LocalInv, Local, Apart, LoaderPoints, BoardInv
  <2>3. ~driver
    BY <2>1, <2>2 DEF Restorable, Apart, LoaderPoints
  <2>4. Restorable(q)'
    BY <1>2, <2>1, <2>2, <2>3 DEF CoreInit, Excuse, procVars, kernelVars, Restorable, Serving
  <2>. QED
    BY <1>0, <1>2, <2>2, <2>3, <2>4 DEF CoreInit, Excuse, kernelVars, BoardInv, NoConflict
<1>3. ASSUME NEW i \in Pads, CorePulse(i) PROVE BoardInv'
  BY <1>0, <1>3, ZenonT(40) DEF CorePulse, procVars, kernelVars, ghostVars, BoardInv, Restorable,
     NoConflict
<1>4. CASE UNCHANGED vars
  BY <1>4, ZenonT(40) DEF vars, procVars, kernelVars, boardVars, ghostVars, BoardInv, Restorable,
     NoConflict
<1>. QED
  BY <1>1, <1>2, <1>3, <1>4 DEF Next, Move

(* Channels are silenced before their pads move.                           *)
LEMMA PulseFrame ==
  ASSUME PulseInv, ~excused, NEW p \in Procs, \A r \in Procs \ {p} : Kept(r),
         \A r \in Procs \ {p} : owner' = r => owner = r,
         owner' = p /\ saved'[p] =>
           owner = p /\ saved[p] /\ old'[p] = old[p]
           /\ (pc[p] \in Serving => pc'[p] \in Serving \/ core' # "ready"),
         core' = "ready" => core = "ready",
         \A i \in Pads :
           /\ pad[i] = "pwm" => pad'[i] = "pwm"
           /\ dev'[p][i] \in {"muxed", "on"} =>
                dev[p][i] \in {"muxed", "on"} \/ pad'[i] = "pwm"
           /\ pulse'[i] # "off" =>
                /\ pulse[i] # "off"
                /\ dev[p][i] = "on" => dev'[p][i] = "on" \/ owner' # p
                /\ pc[p] \in Driving => pc'[p] \in Driving \/ owner' # p
  PROVE  PulseInv'
<1>. SUFFICES ASSUME NEW i \in Pads
              PROVE  Switched(i)' /\ \A r \in Procs : owner' = r => Silences(r, i)'
  BY DEF PulseInv
<1>0. Switched(i) /\ \A r \in Procs : owner = r => Silences(r, i)
  BY DEF PulseInv
<1>1. Switched(i)'
  <2>1. \A r \in Procs \ {p} : dev'[r] = dev[r]
    BY DEF Kept
  <2>. QED
    BY <1>0, <2>1 DEF Switched
<1>2. ASSUME NEW r \in Procs \ {p}, owner' = r PROVE Silences(r, i)'
  <2>1. Kept(r) /\ Silences(r, i)
    BY <1>0, <1>2
  <2>. QED
    BY <2>1 DEF Silences, Kept
<1>3. ASSUME owner' = p PROVE Silences(p, i)'
  <2>. SUFFICES ASSUME saved'[p] PROVE Silences(p, i)'
    BY DEF Silences
  <2>1. Silences(p, i) /\ saved[p] /\ old'[p] = old[p]
    BY <1>0, <1>3
  <2>. QED
    BY <1>3, <2>1 DEF Silences
<1>. QED
  BY <1>1, <1>2, <1>3

PulseStep == TypeOK /\ HolderInv /\ LocalInv /\ PulseInv
LEMMA NextPulse == PulseStep /\ [Next]_vars => PulseInv'
<1>. SUFFICES ASSUME PulseStep, [Next]_vars, ~excused' PROVE PulseInv'
  BY DEF PulseInv
<1>0. ~excused
  BY ExcusedStays
<1>. USE DEF PulseStep, TypeOK
<1>1. ASSUME NEW p \in Procs, Move(p) PROVE PulseInv'
  <2>0. \A r \in Procs \ {p} : Kept(r)
    BY <1>1, OthersKept
  <2>1. ASSUME NEW k \in {"loader", "bench"}, Start(p, k) PROVE PulseInv'
    <3>1. \A r \in Procs \ {p} : owner' = r => owner = r
      BY <2>1 DEF Start, kernelVars
    <3>2. owner' # p
      BY <2>1 DEF Start, At, HolderInv, Before, kernelVars
    <3>3. core' = "ready" => core = "ready"
      BY <2>1 DEF Start, boardVars
    <3>4. \A j \in Pads : pad[j] = "pwm" => pad'[j] = "pwm"
      BY <2>1 DEF Start, boardVars
    <3>5. \A j \in Pads : dev'[p][j] \in {"muxed", "on"} =>
                            dev[p][j] \in {"muxed", "on"} \/ pad'[j] = "pwm"
      BY <2>1 DEF Start, SetDev, NoDevices, ProcOK
    <3>6. \A j \in Pads : pulse'[j] # "off" =>
            /\ pulse[j] # "off"
            /\ dev[p][j] = "on" => dev'[p][j] = "on" \/ owner' # p
            /\ pc[p] \in Driving => pc'[p] \in Driving \/ owner' # p
      BY <2>1, <3>2 DEF Start, At, Using, Goto, SetDev, NoDevices, ProcOK, BoardOK, Driving,
         Serving, boardVars, Excuse
    <3>. QED
      BY <1>0, <2>0, <3>1, <3>2, <3>3, <3>4, <3>5, <3>6, PulseFrame
  <2>2. CASE CheckGroups(p)
    <3>1. \A r \in Procs \ {p} : owner' = r => owner = r
      BY <2>2 DEF CheckGroups, kernelVars
    <3>2. owner' # p
      BY <2>2 DEF CheckGroups, At, HolderInv, Before, kernelVars
    <3>3. core' = "ready" => core = "ready"
      BY <2>2 DEF CheckGroups, boardVars
    <3>4. \A j \in Pads : pad[j] = "pwm" => pad'[j] = "pwm"
      BY <2>2 DEF CheckGroups, boardVars
    <3>5. \A j \in Pads : dev'[p][j] \in {"muxed", "on"} =>
                            dev[p][j] \in {"muxed", "on"} \/ pad'[j] = "pwm"
      BY <2>2 DEF CheckGroups, SetDev, NoDevices, ProcOK, Gone
    <3>6. \A j \in Pads : pulse'[j] # "off" =>
            /\ pulse[j] # "off"
            /\ dev[p][j] = "on" => dev'[p][j] = "on" \/ owner' # p
            /\ pc[p] \in Driving => pc'[p] \in Driving \/ owner' # p
      BY <2>2, <3>2 DEF CheckGroups, At, Using, Goto, SetDev, NoDevices, ProcOK, BoardOK, Driving,
         Serving, boardVars, Excuse, Gone
    <3>. QED
      BY <1>0, <2>0, <3>1, <3>2, <3>3, <3>4, <3>5, <3>6, PulseFrame
  <2>3. CASE TakeLock(p)
    <3>1. \A r \in Procs \ {p} : owner' = r => owner = r
      BY <2>3 DEF TakeLock, kernelVars
    <3>2. owner' = p => ~saved'[p]
      <4>1. pc[p] = "lock" /\ owner # p
        BY <2>3 DEF TakeLock, At, HolderInv, Before
      <4>2. ~saved[p]
        BY <4>1 DEF LocalInv, Local, Unsaved, Before
      <4>. QED
        BY <2>3, <4>1, <4>2 DEF TakeLock
    <3>3. core' = "ready" => core = "ready"
      BY <2>3 DEF TakeLock, boardVars
    <3>4. \A j \in Pads : pad[j] = "pwm" => pad'[j] = "pwm"
      BY <2>3 DEF TakeLock, boardVars
    <3>5. \A j \in Pads : dev'[p][j] \in {"muxed", "on"} =>
                            dev[p][j] \in {"muxed", "on"} \/ pad'[j] = "pwm"
      BY <2>3 DEF TakeLock, SetDev, NoDevices, ProcOK, Gone
    <3>6. \A j \in Pads : pulse'[j] # "off" =>
            /\ pulse[j] # "off"
            /\ dev[p][j] = "on" => dev'[p][j] = "on" \/ owner' # p
            /\ pc[p] \in Driving => pc'[p] \in Driving \/ owner' # p
      <4>1. pc[p] = "lock" /\ owner # p
        BY <2>3 DEF TakeLock, At, HolderInv, Before
      <4>2. owner' # p \/ dev' = dev
        BY <2>3, <4>1 DEF TakeLock
      <4>. QED
        BY <2>3, <4>1, <4>2 DEF TakeLock, Driving, Serving, boardVars
    <3>. QED
      BY <1>0, <2>0, <3>1, <3>2, <3>3, <3>4, <3>5, <3>6, PulseFrame
  <2>4. CASE CheckClients(p)
    <3>1. \A r \in Procs \ {p} : owner' = r => owner = r
      BY <2>4 DEF CheckClients, kernelVars
    <3>2. owner' = owner /\ saved' = saved /\ old' = old
          /\ (pc[p] \in Serving => pc'[p] \in Serving \/ core' # "ready")
      BY <2>4 DEF CheckClients, At, Using, Goto, ProcOK, Serving, kernelVars
    <3>3. core' = "ready" => core = "ready"
      BY <2>4 DEF CheckClients, boardVars
    <3>4. \A j \in Pads : pad[j] = "pwm" => pad'[j] = "pwm"
      BY <2>4 DEF CheckClients, boardVars
    <3>5. \A j \in Pads : dev'[p][j] \in {"muxed", "on"} =>
                            dev[p][j] \in {"muxed", "on"} \/ pad'[j] = "pwm"
      BY <2>4 DEF CheckClients, SetDev, NoDevices, ProcOK
    <3>6. \A j \in Pads : pulse'[j] # "off" =>
            /\ pulse[j] # "off"
            /\ dev[p][j] = "on" => dev'[p][j] = "on" \/ owner' # p
            /\ pc[p] \in Driving => pc'[p] \in Driving \/ owner' # p
      BY <2>4 DEF CheckClients, At, Using, Goto, SetDev, NoDevices, ProcOK, BoardOK, Driving,
         Serving, boardVars, Excuse
    <3>. QED
      BY <1>0, <2>0, <3>1, <3>2, <3>3, <3>4, <3>5, <3>6, PulseFrame
  <2>5. CASE SavePads(p)
    <3>1. owner = p /\ UNCHANGED <<owner, pad, pulse, core, dev>>
      BY <2>5 DEF SavePads, HolderInv, At, Before, kernelVars, boardVars
    <3>2. \/ UNCHANGED <<saved, old>> \/ old'[p] = pad
      BY <2>5 DEF SavePads, ProcOK
    <3>3. pc[p] = "save"
      BY <2>5 DEF SavePads, At
    <3>. SUFFICES ASSUME NEW i \in Pads PROVE Switched(i)' /\ Silences(p, i)'
      BY <3>1 DEF PulseInv
    <3>4. Switched(i) /\ Silences(p, i)
      BY <1>0, <3>1 DEF PulseInv
    <3>5. Switched(i)'
      BY <3>1, <3>4 DEF Switched
    <3>6. CASE old'[p] = pad
      BY <3>1, <3>4, <3>6 DEF Switched, Silences
    <3>7. CASE UNCHANGED <<saved, old>>
      BY <3>1, <3>3, <3>4, <3>5, <3>7 DEF Silences, Driving, Serving
    <3>. QED
      BY <3>2, <3>5, <3>6, <3>7
  <2>6. CASE UnbindI2c(p)
    <3>1. \A r \in Procs \ {p} : owner' = r => owner = r
      BY <2>6 DEF UnbindI2c, kernelVars
    <3>2. owner' = owner /\ saved' = saved /\ old' = old
          /\ (pc[p] \in Serving => pc'[p] \in Serving \/ core' # "ready")
      BY <2>6 DEF UnbindI2c, At, Using, Goto, ProcOK, Serving, kernelVars
    <3>3. core' = "ready" => core = "ready"
      BY <2>6 DEF UnbindI2c, boardVars
    <3>4. \A j \in Pads : pad[j] = "pwm" => pad'[j] = "pwm"
      BY <2>6 DEF UnbindI2c, boardVars
    <3>5. \A j \in Pads : dev'[p][j] \in {"muxed", "on"} =>
                            dev[p][j] \in {"muxed", "on"} \/ pad'[j] = "pwm"
      BY <2>6 DEF UnbindI2c, SetDev, NoDevices, ProcOK
    <3>6. \A j \in Pads : pulse'[j] # "off" =>
            /\ pulse[j] # "off"
            /\ dev[p][j] = "on" => dev'[p][j] = "on" \/ owner' # p
            /\ pc[p] \in Driving => pc'[p] \in Driving \/ owner' # p
      BY <2>6 DEF UnbindI2c, At, Using, Goto, SetDev, NoDevices, ProcOK, BoardOK, Driving,
         Serving, boardVars, Excuse
    <3>. QED
      BY <1>0, <2>0, <3>1, <3>2, <3>3, <3>4, <3>5, <3>6, PulseFrame
  <2>7. CASE RequestLines(p)
    <3>1. \A r \in Procs \ {p} : owner' = r => owner = r
      BY <2>7 DEF RequestLines, kernelVars
    <3>2. owner' = owner /\ saved' = saved /\ old' = old
          /\ (pc[p] \in Serving => pc'[p] \in Serving \/ core' # "ready")
      BY <2>7 DEF RequestLines, At, Using, Goto, ProcOK, Serving, kernelVars
    <3>3. core' = "ready" => core = "ready"
      BY <2>7 DEF RequestLines, boardVars
    <3>4. \A j \in Pads : pad[j] = "pwm" => pad'[j] = "pwm"
      BY <2>7 DEF RequestLines, boardVars
    <3>5. \A j \in Pads : dev'[p][j] \in {"muxed", "on"} =>
                            dev[p][j] \in {"muxed", "on"} \/ pad'[j] = "pwm"
      BY <2>7 DEF RequestLines, SetDev, NoDevices, ProcOK
    <3>6. \A j \in Pads : pulse'[j] # "off" =>
            /\ pulse[j] # "off"
            /\ dev[p][j] = "on" => dev'[p][j] = "on" \/ owner' # p
            /\ pc[p] \in Driving => pc'[p] \in Driving \/ owner' # p
      BY <2>7 DEF RequestLines, At, Using, Goto, SetDev, NoDevices, ProcOK, BoardOK, Driving,
         Serving, boardVars, Excuse
    <3>. QED
      BY <1>0, <2>0, <3>1, <3>2, <3>3, <3>4, <3>5, <3>6, PulseFrame
  <2>8. ASSUME NEW i \in Pads, RequestChannel(p, i) PROVE PulseInv'
    <3>1. \A r \in Procs \ {p} : owner' = r => owner = r
      BY <2>8 DEF RequestChannel, kernelVars
    <3>2. owner' = owner /\ saved' = saved /\ old' = old
          /\ (pc[p] \in Serving => pc'[p] \in Serving \/ core' # "ready")
      BY <2>8 DEF RequestChannel, At, Using, Goto, ProcOK, Serving, kernelVars
    <3>3. core' = "ready" => core = "ready"
      BY <2>8 DEF RequestChannel, boardVars
    <3>4. \A j \in Pads : pad[j] = "pwm" => pad'[j] = "pwm"
      BY <2>8 DEF RequestChannel, boardVars
    <3>5. \A j \in Pads : dev'[p][j] \in {"muxed", "on"} =>
                            dev[p][j] \in {"muxed", "on"} \/ pad'[j] = "pwm"
      BY <2>8 DEF RequestChannel, SetDev, NoDevices, ProcOK
    <3>6. \A j \in Pads : pulse'[j] # "off" =>
            /\ pulse[j] # "off"
            /\ dev[p][j] = "on" => dev'[p][j] = "on" \/ owner' # p
            /\ pc[p] \in Driving => pc'[p] \in Driving \/ owner' # p
      BY <2>8 DEF RequestChannel, At, Using, Goto, SetDev, NoDevices, ProcOK, BoardOK, Driving,
         Serving, boardVars, Excuse
    <3>. QED
      BY <1>0, <2>0, <3>1, <3>2, <3>3, <3>4, <3>5, <3>6, PulseFrame
  <2>9. ASSUME NEW i \in Pads, MuxPad(p, i) PROVE PulseInv'
    <3>1. \A r \in Procs \ {p} : owner' = r => owner = r
      BY <2>9 DEF MuxPad, kernelVars
    <3>2. owner' = owner /\ saved' = saved /\ old' = old
          /\ (pc[p] \in Serving => pc'[p] \in Serving \/ core' # "ready")
      BY <2>9 DEF MuxPad, At, Using, Goto, ProcOK, Serving, kernelVars
    <3>3. core' = "ready" => core = "ready"
      BY <2>9 DEF MuxPad, boardVars
    <3>4. \A j \in Pads : pad[j] = "pwm" => pad'[j] = "pwm"
      BY <2>9 DEF MuxPad, boardVars, BoardOK
    <3>5. \A j \in Pads : dev'[p][j] \in {"muxed", "on"} =>
                            dev[p][j] \in {"muxed", "on"} \/ pad'[j] = "pwm"
      BY <2>9 DEF MuxPad, SetDev, NoDevices, ProcOK, BoardOK
    <3>6. \A j \in Pads : pulse'[j] # "off" =>
            /\ pulse[j] # "off"
            /\ dev[p][j] = "on" => dev'[p][j] = "on" \/ owner' # p
            /\ pc[p] \in Driving => pc'[p] \in Driving \/ owner' # p
      BY <2>9 DEF MuxPad, At, Using, Goto, SetDev, NoDevices, ProcOK, BoardOK, Driving,
         Serving, boardVars, Excuse
    <3>. QED
      BY <1>0, <2>0, <3>1, <3>2, <3>3, <3>4, <3>5, <3>6, PulseFrame
  <2>10. ASSUME NEW i \in Pads, EnableChannel(p, i) PROVE PulseInv'
    <3>1. owner = p /\ UNCHANGED <<owner, pad, core, pc, saved, old>>
      BY <2>10 DEF EnableChannel, Using, HolderInv, At, Before, kernelVars
    <3>2. dev[p][i] = "muxed" /\ dev'[p][i] = "on"
      BY <2>10 DEF EnableChannel, SetDev, ProcOK
    <3>3. \A j \in Pads \ {i} : dev'[p][j] = dev[p][j] /\ pulse'[j] = pulse[j]
      BY <2>10 DEF EnableChannel, SetDev, ProcOK, BoardOK
    <3>4. \A r \in Procs \ {p} : dev'[r] = dev[r]
      BY <2>0 DEF Kept
    <3>. SUFFICES ASSUME NEW j \in Pads PROVE Switched(j)' /\ Silences(p, j)'
      BY <3>1 DEF PulseInv
    <3>5. Switched(j) /\ Silences(p, j)
      BY <1>0, <3>1 DEF PulseInv
    <3>6. Switched(j)'
      BY <3>1, <3>2, <3>3, <3>4, <3>5 DEF Switched
    <3>7. Silences(p, j)'
      BY <3>1, <3>2, <3>3, <3>5 DEF Silences
    <3>. QED
      BY <3>6, <3>7
  <2>11. CASE EndBench(p)
    <3>1. \A r \in Procs \ {p} : owner' = r => owner = r
      BY <2>11 DEF EndBench, kernelVars
    <3>2. owner' = owner /\ saved' = saved /\ old' = old
          /\ (pc[p] \in Serving => pc'[p] \in Serving \/ core' # "ready")
      BY <2>11 DEF EndBench, At, Using, Goto, ProcOK, Serving, kernelVars
    <3>3. core' = "ready" => core = "ready"
      BY <2>11 DEF EndBench, boardVars
    <3>4. \A j \in Pads : pad[j] = "pwm" => pad'[j] = "pwm"
      BY <2>11 DEF EndBench, boardVars
    <3>5. \A j \in Pads : dev'[p][j] \in {"muxed", "on"} =>
                            dev[p][j] \in {"muxed", "on"} \/ pad'[j] = "pwm"
      BY <2>11 DEF EndBench, SetDev, NoDevices, ProcOK
    <3>6. \A j \in Pads : pulse'[j] # "off" =>
            /\ pulse[j] # "off"
            /\ dev[p][j] = "on" => dev'[p][j] = "on" \/ owner' # p
            /\ pc[p] \in Driving => pc'[p] \in Driving \/ owner' # p
      BY <2>11 DEF EndBench, At, Using, Goto, SetDev, NoDevices, ProcOK, BoardOK, Driving,
         Serving, boardVars, Excuse
    <3>. QED
      BY <1>0, <2>0, <3>1, <3>2, <3>3, <3>4, <3>5, <3>6, PulseFrame
  <2>12. ASSUME NEW i \in Pads, DisableChannel(p, i) PROVE PulseInv'
    <3>1. \A r \in Procs \ {p} : owner' = r => owner = r
      BY <2>12 DEF DisableChannel, kernelVars
    <3>2. owner' = owner /\ saved' = saved /\ old' = old
          /\ (pc[p] \in Serving => pc'[p] \in Serving \/ core' # "ready")
      BY <2>12 DEF DisableChannel, At, Using, Goto, ProcOK, Serving, kernelVars
    <3>3. core' = "ready" => core = "ready"
      BY <2>12 DEF DisableChannel, boardVars
    <3>4. \A j \in Pads : pad[j] = "pwm" => pad'[j] = "pwm"
      BY <2>12 DEF DisableChannel, boardVars
    <3>5. \A j \in Pads : dev'[p][j] \in {"muxed", "on"} =>
                            dev[p][j] \in {"muxed", "on"} \/ pad'[j] = "pwm"
      BY <2>12 DEF DisableChannel, SetDev, NoDevices, ProcOK
    <3>6. \A j \in Pads : pulse'[j] # "off" =>
            /\ pulse[j] # "off"
            /\ dev[p][j] = "on" => dev'[p][j] = "on" \/ owner' # p
            /\ pc[p] \in Driving => pc'[p] \in Driving \/ owner' # p
      BY <2>12 DEF DisableChannel, At, Using, Goto, SetDev, NoDevices, ProcOK, BoardOK, Driving,
         Serving, boardVars, Excuse
    <3>. QED
      BY <1>0, <2>0, <3>1, <3>2, <3>3, <3>4, <3>5, <3>6, PulseFrame
  <2>13. CASE ClearDevices(p)
    <3>1. \A r \in Procs \ {p} : owner' = r => owner = r
      BY <2>13 DEF ClearDevices, kernelVars
    <3>2. owner' = owner /\ saved' = saved /\ old' = old
          /\ (pc[p] \in Serving => pc'[p] \in Serving \/ core' # "ready")
      BY <2>13 DEF ClearDevices, At, Using, Goto, ProcOK, Serving, kernelVars
    <3>3. core' = "ready" => core = "ready"
      BY <2>13 DEF ClearDevices, boardVars
    <3>4. \A j \in Pads : pad[j] = "pwm" => pad'[j] = "pwm"
      BY <2>13 DEF ClearDevices, boardVars
    <3>5. \A j \in Pads : dev'[p][j] \in {"muxed", "on"} =>
                            dev[p][j] \in {"muxed", "on"} \/ pad'[j] = "pwm"
      BY <2>13 DEF ClearDevices, SetDev, NoDevices, ProcOK
    <3>6. \A j \in Pads : pulse'[j] # "off" =>
            /\ pulse[j] # "off"
            /\ dev[p][j] = "on" => dev'[p][j] = "on" \/ owner' # p
            /\ pc[p] \in Driving => pc'[p] \in Driving \/ owner' # p
      BY <2>13 DEF ClearDevices, At, Using, Goto, SetDev, NoDevices, ProcOK, BoardOK, Driving,
         Serving, boardVars, Excuse
    <3>. QED
      BY <1>0, <2>0, <3>1, <3>2, <3>3, <3>4, <3>5, <3>6, PulseFrame
  <2>14. CASE UnbindGroups(p)
    <3>1. \A r \in Procs \ {p} : owner' = r => owner = r
      BY <2>14 DEF UnbindGroups, kernelVars
    <3>2. owner' = owner /\ saved' = saved /\ old' = old
          /\ (pc[p] \in Serving => pc'[p] \in Serving \/ core' # "ready")
      BY <2>14 DEF UnbindGroups, At, Using, Goto, ProcOK, Serving, kernelVars
    <3>3. core' = "ready" => core = "ready"
      BY <2>14 DEF UnbindGroups, boardVars
    <3>4. \A j \in Pads : pad[j] = "pwm" => pad'[j] = "pwm"
      BY <2>14 DEF UnbindGroups, boardVars
    <3>5. \A j \in Pads : dev'[p][j] \in {"muxed", "on"} =>
                            dev[p][j] \in {"muxed", "on"} \/ pad'[j] = "pwm"
      BY <2>14 DEF UnbindGroups, SetDev, NoDevices, ProcOK
    <3>6. \A j \in Pads : pulse'[j] # "off" =>
            /\ pulse[j] # "off"
            /\ dev[p][j] = "on" => dev'[p][j] = "on" \/ owner' # p
            /\ pc[p] \in Driving => pc'[p] \in Driving \/ owner' # p
      BY <2>14 DEF UnbindGroups, At, Using, Goto, SetDev, NoDevices, ProcOK, BoardOK, Driving,
         Serving, boardVars, Excuse
    <3>. QED
      BY <1>0, <2>0, <3>1, <3>2, <3>3, <3>4, <3>5, <3>6, PulseFrame
  <2>15. CASE ReleaseCore(p)
    <3>1. \A r \in Procs \ {p} : owner' = r => owner = r
      BY <2>15 DEF ReleaseCore, kernelVars
    <3>2. owner' = owner /\ saved' = saved /\ old' = old
          /\ (pc[p] \in Serving => pc'[p] \in Serving \/ core' # "ready")
      BY <2>15 DEF ReleaseCore, At, Using, Goto, ProcOK, Serving, kernelVars
    <3>3. core' = "ready" => core = "ready"
      BY <2>15 DEF ReleaseCore, boardVars
    <3>4. \A j \in Pads : pad[j] = "pwm" => pad'[j] = "pwm"
      BY <2>15 DEF ReleaseCore, boardVars
    <3>5. \A j \in Pads : dev'[p][j] \in {"muxed", "on"} =>
                            dev[p][j] \in {"muxed", "on"} \/ pad'[j] = "pwm"
      BY <2>15 DEF ReleaseCore, SetDev, NoDevices, ProcOK
    <3>6. \A j \in Pads : pulse'[j] # "off" =>
            /\ pulse[j] # "off"
            /\ dev[p][j] = "on" => dev'[p][j] = "on" \/ owner' # p
            /\ pc[p] \in Driving => pc'[p] \in Driving \/ owner' # p
      BY <2>15 DEF ReleaseCore, At, Using, Goto, SetDev, NoDevices, ProcOK, BoardOK, Driving,
         Serving, boardVars, Excuse
    <3>. QED
      BY <1>0, <2>0, <3>1, <3>2, <3>3, <3>4, <3>5, <3>6, PulseFrame
  <2>16. CASE HoldCore(p)
    <3>1. \A r \in Procs \ {p} : owner' = r => owner = r
      BY <2>16 DEF HoldCore, kernelVars
    <3>2. owner' = owner /\ saved' = saved /\ old' = old
          /\ (pc[p] \in Serving => pc'[p] \in Serving \/ core' # "ready")
      BY <2>16 DEF HoldCore, At, Using, Goto, ProcOK, Serving, kernelVars
    <3>3. core' = "ready" => core = "ready"
      BY <2>16 DEF HoldCore, boardVars
    <3>4. \A j \in Pads : pad[j] = "pwm" => pad'[j] = "pwm"
      BY <2>16 DEF HoldCore, boardVars
    <3>5. \A j \in Pads : dev'[p][j] \in {"muxed", "on"} =>
                            dev[p][j] \in {"muxed", "on"} \/ pad'[j] = "pwm"
      BY <2>16 DEF HoldCore, SetDev, NoDevices, ProcOK
    <3>6. \A j \in Pads : pulse'[j] # "off" =>
            /\ pulse[j] # "off"
            /\ dev[p][j] = "on" => dev'[p][j] = "on" \/ owner' # p
            /\ pc[p] \in Driving => pc'[p] \in Driving \/ owner' # p
      BY <2>16 DEF HoldCore, At, Using, Goto, SetDev, NoDevices, ProcOK, BoardOK, Driving,
         Serving, boardVars, Excuse
    <3>. QED
      BY <1>0, <2>0, <3>1, <3>2, <3>3, <3>4, <3>5, <3>6, PulseFrame
  <2>17. CASE RestoreRegisters(p)
    <3>1. \A r \in Procs \ {p} : owner' = r => owner = r
      BY <2>17 DEF RestoreRegisters, kernelVars
    <3>2. owner' = owner /\ saved' = saved /\ old' = old
          /\ (pc[p] \in Serving => pc'[p] \in Serving \/ core' # "ready")
      BY <2>17 DEF RestoreRegisters, At, Using, Goto, ProcOK, Serving, kernelVars
    <3>3. core' = "ready" => core = "ready"
      BY <2>17 DEF RestoreRegisters, boardVars
    <3>4. \A j \in Pads : pad[j] = "pwm" => pad'[j] = "pwm"
      BY <2>17 DEF RestoreRegisters, boardVars
    <3>5. \A j \in Pads : dev'[p][j] \in {"muxed", "on"} =>
                            dev[p][j] \in {"muxed", "on"} \/ pad'[j] = "pwm"
      BY <2>17 DEF RestoreRegisters, SetDev, NoDevices, ProcOK
    <3>6. \A j \in Pads : pulse'[j] # "off" =>
            /\ pulse[j] # "off"
            /\ dev[p][j] = "on" => dev'[p][j] = "on" \/ owner' # p
            /\ pc[p] \in Driving => pc'[p] \in Driving \/ owner' # p
      BY <2>17 DEF RestoreRegisters, At, Using, Goto, SetDev, NoDevices, ProcOK, BoardOK, Driving,
         Serving, boardVars, Excuse
    <3>. QED
      BY <1>0, <2>0, <3>1, <3>2, <3>3, <3>4, <3>5, <3>6, PulseFrame
  <2>18. CASE BindGroups(p)
    <3>1. \A r \in Procs \ {p} : owner' = r => owner = r
      BY <2>18 DEF BindGroups, kernelVars
    <3>2. owner' = owner /\ saved' = saved /\ old' = old
          /\ (pc[p] \in Serving => pc'[p] \in Serving \/ core' # "ready")
      BY <2>18 DEF BindGroups, At, Using, Goto, ProcOK, Serving, kernelVars
    <3>3. core' = "ready" => core = "ready"
      BY <2>18 DEF BindGroups, boardVars
    <3>4. \A j \in Pads : pad[j] = "pwm" => pad'[j] = "pwm"
      BY <2>18 DEF BindGroups, boardVars
    <3>5. \A j \in Pads : dev'[p][j] \in {"muxed", "on"} =>
                            dev[p][j] \in {"muxed", "on"} \/ pad'[j] = "pwm"
      BY <2>18 DEF BindGroups, SetDev, NoDevices, ProcOK
    <3>6. \A j \in Pads : pulse'[j] # "off" =>
            /\ pulse[j] # "off"
            /\ dev[p][j] = "on" => dev'[p][j] = "on" \/ owner' # p
            /\ pc[p] \in Driving => pc'[p] \in Driving \/ owner' # p
      BY <2>18 DEF BindGroups, At, Using, Goto, SetDev, NoDevices, ProcOK, BoardOK, Driving,
         Serving, boardVars, Excuse
    <3>. QED
      BY <1>0, <2>0, <3>1, <3>2, <3>3, <3>4, <3>5, <3>6, PulseFrame
  <2>19. CASE CloseLines(p)
    <3>1. \A r \in Procs \ {p} : owner' = r => owner = r
      BY <2>19 DEF CloseLines, kernelVars
    <3>2. owner' = owner /\ saved' = saved /\ old' = old
          /\ (pc[p] \in Serving => pc'[p] \in Serving \/ core' # "ready")
      BY <2>19 DEF CloseLines, At, Using, Goto, ProcOK, Serving, kernelVars
    <3>3. core' = "ready" => core = "ready"
      BY <2>19 DEF CloseLines, boardVars
    <3>4. \A j \in Pads : pad[j] = "pwm" => pad'[j] = "pwm"
      BY <2>19 DEF CloseLines, boardVars
    <3>5. \A j \in Pads : dev'[p][j] \in {"muxed", "on"} =>
                            dev[p][j] \in {"muxed", "on"} \/ pad'[j] = "pwm"
      BY <2>19 DEF CloseLines, SetDev, NoDevices, ProcOK
    <3>6. \A j \in Pads : pulse'[j] # "off" =>
            /\ pulse[j] # "off"
            /\ dev[p][j] = "on" => dev'[p][j] = "on" \/ owner' # p
            /\ pc[p] \in Driving => pc'[p] \in Driving \/ owner' # p
      BY <2>19 DEF CloseLines, At, Using, Goto, SetDev, NoDevices, ProcOK, BoardOK, Driving,
         Serving, boardVars, Excuse
    <3>. QED
      BY <1>0, <2>0, <3>1, <3>2, <3>3, <3>4, <3>5, <3>6, PulseFrame
  <2>20. ASSUME NEW i \in Pads, RestorePad(p, i) PROVE PulseInv'
    <3>1. owner = p /\ UNCHANGED <<owner, pulse, core, pc, saved, old, dev>>
      BY <2>20 DEF RestorePad, HolderInv, At, Before, kernelVars
    <3>2. pc[p] = "pads back" /\ saved[p]
      BY <2>20 DEF RestorePad, At, LocalInv, Local
    <3>3. pad'[i] = old[p][i] /\ \A j \in Pads \ {i} : pad'[j] = pad[j]
      BY <2>20 DEF RestorePad, Excuse, BoardOK
    <3>4. \A r \in Procs, j \in Pads : dev[r][j] = "none"
      <4>. SUFFICES ASSUME NEW r \in Procs, NEW j \in Pads, dev[r][j] # "none"
                    PROVE  FALSE
        OBVIOUS
      <4>1. r = p
        BY <3>2, DevicesAreHolders DEF Before
      <4>. QED
        BY <3>2, <4>1 DEF LocalInv, Local
    <3>. SUFFICES ASSUME NEW j \in Pads PROVE Switched(j)' /\ Silences(p, j)'
      BY <3>1 DEF PulseInv
    <3>5. Switched(j) /\ Silences(p, j)
      BY <1>0, <3>1 DEF PulseInv
    <3>6. Silences(p, j)'
      BY <3>1, <3>5 DEF Silences
    <3>7. CASE j # i
      BY <3>1, <3>3, <3>4, <3>5, <3>6, <3>7 DEF Switched
    <3>8. CASE j = i /\ old[p][i] = "pwm"
      BY <3>1, <3>3, <3>4, <3>6, <3>8 DEF Switched
    <3>9. CASE j = i /\ old[p][i] = "board"
      <4>1. pulse[i] = "off" /\ core # "ready"
        BY <3>2, <3>4, <3>5, <3>9 DEF Silences, Driving, Serving
      <4>. QED
        BY <3>1, <3>4, <3>6, <3>9, <4>1 DEF Switched
    <3>. QED
      BY <3>7, <3>8, <3>9 DEF ProcOK, PadValues
  <2>21. CASE BindI2c(p)
    <3>1. \A r \in Procs \ {p} : owner' = r => owner = r
      BY <2>21 DEF BindI2c, kernelVars
    <3>2. ~saved'[p]
      BY <2>21 DEF BindI2c, ProcOK
    <3>3. core' = "ready" => core = "ready"
      BY <2>21 DEF BindI2c, boardVars
    <3>4. \A j \in Pads : pad[j] = "pwm" => pad'[j] = "pwm"
      BY <2>21 DEF BindI2c, boardVars
    <3>5. \A j \in Pads : dev'[p][j] \in {"muxed", "on"} =>
                            dev[p][j] \in {"muxed", "on"} \/ pad'[j] = "pwm"
      BY <2>21 DEF BindI2c, SetDev, NoDevices, ProcOK
    <3>6. \A j \in Pads : pulse'[j] # "off" =>
            /\ pulse[j] # "off"
            /\ dev[p][j] = "on" => dev'[p][j] = "on" \/ owner' # p
            /\ pc[p] \in Driving => pc'[p] \in Driving \/ owner' # p
      BY <2>21 DEF BindI2c, At, Using, Goto, SetDev, NoDevices, ProcOK, BoardOK, Driving,
         Serving, boardVars, Excuse
    <3>. QED
      BY <1>0, <2>0, <3>1, <3>2, <3>3, <3>4, <3>5, <3>6, PulseFrame
  <2>22. CASE Unlock(p)
    <3>1. \A r \in Procs \ {p} : owner' = r => owner = r
      BY <2>22, PinLeaseAssumption DEF Unlock, kernelVars, Drop
    <3>2. owner' # p
      BY <2>22, PinLeaseAssumption DEF Unlock, Drop
    <3>3. core' = "ready" => core = "ready"
      BY <2>22 DEF Unlock, boardVars
    <3>4. \A j \in Pads : pad[j] = "pwm" => pad'[j] = "pwm"
      BY <2>22 DEF Unlock, boardVars
    <3>5. \A j \in Pads : dev'[p][j] \in {"muxed", "on"} =>
                            dev[p][j] \in {"muxed", "on"} \/ pad'[j] = "pwm"
      BY <2>22 DEF Unlock, SetDev, NoDevices, ProcOK, Gone
    <3>6. \A j \in Pads : pulse'[j] # "off" =>
            /\ pulse[j] # "off"
            /\ dev[p][j] = "on" => dev'[p][j] = "on" \/ owner' # p
            /\ pc[p] \in Driving => pc'[p] \in Driving \/ owner' # p
      BY <2>22, <3>2 DEF Unlock, At, Using, Goto, SetDev, NoDevices, ProcOK, BoardOK, Driving,
         Serving, boardVars, Excuse, Gone
    <3>. QED
      BY <1>0, <2>0, <3>1, <3>2, <3>3, <3>4, <3>5, <3>6, PulseFrame
  <2>23. CASE Kill(p)
    <3>1. \A r \in Procs \ {p} : owner' = r => owner = r
      BY <2>23, PinLeaseAssumption DEF Kill, kernelVars, Drop
    <3>2. owner' # p
      BY <2>23, PinLeaseAssumption DEF Kill, Drop
    <3>3. core' = "ready" => core = "ready"
      BY <2>23 DEF Kill, boardVars
    <3>4. \A j \in Pads : pad[j] = "pwm" => pad'[j] = "pwm"
      BY <2>23 DEF Kill, boardVars
    <3>5. \A j \in Pads : dev'[p][j] \in {"muxed", "on"} =>
                            dev[p][j] \in {"muxed", "on"} \/ pad'[j] = "pwm"
      BY <2>23 DEF Kill, SetDev, NoDevices, ProcOK, Gone
    <3>6. \A j \in Pads : pulse'[j] # "off" =>
            /\ pulse[j] # "off"
            /\ dev[p][j] = "on" => dev'[p][j] = "on" \/ owner' # p
            /\ pc[p] \in Driving => pc'[p] \in Driving \/ owner' # p
      BY <2>23, <3>2 DEF Kill, At, Using, Goto, SetDev, NoDevices, ProcOK, BoardOK, Driving,
         Serving, boardVars, Excuse, Gone
    <3>. QED
      BY <1>0, <2>0, <3>1, <3>2, <3>3, <3>4, <3>5, <3>6, PulseFrame
  <2>. QED
    BY <1>1, <2>1, <2>2, <2>3, <2>4, <2>5, <2>6, <2>7, <2>8, <2>9, <2>10, <2>11, <2>12, <2>13, <2>14, <2>15, <2>16, <2>17, <2>18, <2>19, <2>20, <2>21, <2>22, <2>23 DEF Move, Step
<1>2. CASE CoreInit
  <2>1. PICK q \in Procs : pc[q] \in Serving
    BY <1>2 DEF CoreInit, Excuse, Stray, Serving
  <2>2. owner = q
    BY <2>1 DEF HolderInv, Before, Serving
  <2>3. UNCHANGED <<pc, saved, old, dev, owner, pulse>>
    BY <1>2 DEF CoreInit, procVars, kernelVars
  <2>. SUFFICES ASSUME NEW i \in Pads PROVE Switched(i)' /\ Silences(q, i)'
    BY <2>2, <2>3 DEF PulseInv
  <2>4. Switched(i)'
    BY <1>2 DEF CoreInit, Switched
  <2>5. Silences(q, i)'
    BY <1>0, <2>1, <2>2, <2>3 DEF PulseInv, Silences
  <2>. QED
    BY <2>4, <2>5
<1>3. ASSUME NEW i \in Pads, CorePulse(i) PROVE PulseInv'
  <2>1. UNCHANGED <<pc, saved, old, dev, owner, core, pad>> /\ core = "ready"
    BY <1>3 DEF CorePulse, procVars, kernelVars
  <2>2. \A j \in Pads : Switched(j)'
    BY <1>0, <2>1 DEF PulseInv, Switched
  <2>3. ASSUME NEW r \in Procs, owner = r, NEW j \in Pads PROVE Silences(r, j)'
    BY <1>0, <2>1, <2>3 DEF PulseInv, Silences, Driving
  <2>. QED
    BY <2>1, <2>2, <2>3 DEF PulseInv
<1>4. CASE UNCHANGED vars
  BY <1>4 DEF vars, procVars, kernelVars, boardVars, ghostVars, PulseInv, Switched,
     Silences
<1>. QED
  BY <1>1, <1>2, <1>3, <1>4 DEF Next, Move
-----------------------------------------------------------------------------
(* The invariant.                                                          *)
LEMMA InitInv == Init => IInv
<1>. SUFFICES ASSUME Init PROVE IInv
  OBVIOUS
<1>1. TypeOK
  BY InitType
<1>2. HolderInv
  BY PinLeaseAssumption DEF Init, HolderInv, Before
<1>3. LocalInv
  <2>1. ASSUME NEW p \in Procs PROVE Local(p)
    BY <2>1 DEF Init, Local, NoDevices, Unsaved, Before, Apart, LoaderPoints, Serving
  <2>. QED
    BY <2>1 DEF Init, LocalInv, OneLoader
<1>4. CoreInv
  <2>1. ASSUME NEW p \in Procs PROVE CoreOf(p)
    BY <2>1 DEF Init, CoreOf, LoaderPoints, Serving
  <2>. QED
    BY <2>1 DEF Init, CoreInv, CoreAlone
<1>5. BoardInv
  BY PinLeaseAssumption DEF Init, BoardInv, NoConflict, Leased
<1>6. PulseInv
  BY PinLeaseAssumption DEF Init, PulseInv, Switched, NoDevices
<1>. QED
  BY <1>1, <1>2, <1>3, <1>4, <1>5, <1>6 DEF IInv

LEMMA NextInv == IInv /\ [Next]_vars => IInv'
BY NextType, NextHolder, NextLocal, NextCore, NextBoard, NextPulse
   DEF IInv, CoreStep, BoardStep, PulseStep

LEMMA AlwaysInv == Spec => []IInv
BY InitInv, NextInv, PTL DEF Spec

(* Every variable keeps its type.                                          *)
THEOREM TypeCorrect == Spec => []TypeOK
<1>1. IInv => TypeOK
  BY DEF IInv
<1>. QED
  BY <1>1, AlwaysInv, PTL

(* No pad has both the I2C0 driver and a PWM on it, and no servo both the  *)
(* core and the bench (servo_pins_acquire, servo_pins_release and the two  *)
(* programs around them).                                                  *)
THEOREM NothingHasTwoMasters == Spec => []OneMaster
<1>1. IInv => OneMaster
  BY DEF IInv, OneMaster, I2cOwnsPads, BoardInv, NoConflict, CoreInv
<1>. QED
  BY <1>1, AlwaysInv, PTL

(* Only servo_pins_release takes a pad off its PWM.                        *)
LEMMA OnlyRestoresMoveBack ==
  ASSUME TypeOK, [Next]_vars, NEW i \in Pads, pad[i] = "pwm", pad'[i] = "board"
  PROVE  \E p \in Procs : RestorePad(p, i) /\ old[p][i] = "board"
<1>1. ASSUME NEW p \in Procs, NEW j \in Pads, RestorePad(p, j)
      PROVE  j = i /\ old[p][i] = "board"
  BY <1>1 DEF RestorePad, TypeOK, BoardOK
<1>2. ASSUME NEW p \in Procs, NEW j \in Pads, MuxPad(p, j) PROVE FALSE
  BY <1>2 DEF MuxPad, TypeOK, BoardOK
<1>3. ASSUME NEW p \in Procs, Move(p),
             \A j \in Pads : ~RestorePad(p, j) /\ ~MuxPad(p, j)
      PROVE  pad' = pad
  BY <1>3 DEF Move, Step, Start, Kill, CheckGroups, TakeLock, CheckClients,
     SavePads, UnbindI2c, RequestLines, RequestChannel, EnableChannel, EndBench,
     DisableChannel, ClearDevices, UnbindGroups, ReleaseCore, HoldCore,
     RestoreRegisters, BindGroups, CloseLines, BindI2c, Unlock, boardVars
<1>4. ~CoreInit /\ ~(\E j \in Pads : CorePulse(j)) /\ ~UNCHANGED vars
  BY DEF CoreInit, CorePulse, vars, boardVars
<1>5. PICK p \in Procs : Move(p)
  BY <1>4 DEF Next, Move
<1>6. PICK j \in Pads : RestorePad(p, j)
  BY <1>2, <1>3, <1>5
<1>. QED
  BY <1>1, <1>6

(* A pad leaves its PWM only after the channel has been switched off, as   *)
(* the destructor of the bench and the exit of the loader see to.          *)
THEOREM PadsMoveQuietly == Spec => PadsMoveWhenQuiet
<1>1. ASSUME IInv, [Next]_vars, NEW i \in Pads, pad[i] = "pwm", pad'[i] = "board",
             ~excused
      PROVE  pulse[i] = "off"
  <2>1. PICK p \in Procs : RestorePad(p, i) /\ old[p][i] = "board"
    BY <1>1, OnlyRestoresMoveBack DEF IInv
  <2>2. pc[p] = "pads back" /\ saved[p] /\ owner = p
    BY <1>1, <2>1 DEF IInv, RestorePad, At, LocalInv, Local, HolderInv, Before
  <2>3. dev[p][i] = "none"
    BY <1>1, <2>2 DEF IInv, LocalInv, Local
  <2>. QED
    BY <1>1, <2>1, <2>2, <2>3 DEF IInv, PulseInv, Silences, Driving, Serving
<1>2. IInv /\ [Next]_vars =>
        [\A i \in Pads : pad[i] = "pwm" /\ pad'[i] = "board" /\ ~excused
            => pulse[i] = "off"]_vars
  BY <1>1
<1>. QED
  BY <1>2, AlwaysInv, PTL DEF Spec, PadsMoveWhenQuiet
-----------------------------------------------------------------------------
(* The refinement.                                                         *)
LEMMA HoldersStay ==
  ASSUME NEW p \in Procs, \A r \in Procs \ {p} : Kept(r),
         pc'[p] \in Before <=> pc[p] \in Before
  PROVE  Holders' = Holders
BY DEF Holders, Before, Kept

LEMMA OutsiderStutters ==
  ASSUME NEW p \in Procs, \A r \in Procs \ {p} : Kept(r),
         pc[p] \in Before, pc'[p] \in Before,
         UNCHANGED <<abandoned, pad, driver, found, excused>>
  PROVE  UNCHANGED Lease!leaseVars
BY HoldersStay DEF Lease!leaseVars, Leased

LEMMA HolderUses ==
  ASSUME NEW p \in Procs, \A r \in Procs \ {p} : Kept(r),
         pc[p] \notin Before, pc'[p] \notin Before,
         UNCHANGED <<abandoned, found>>, excused => excused'
  PROVE  Lease!LeaseNext
<1>1. Holders' = Holders /\ p \in Holders
  BY HoldersStay DEF Holders, Before
<1>. QED
  BY <1>1 DEF Lease!LeaseNext, Lease!Use

LEMMA HoldersEmpty ==
  ASSUME HolderInv, \A r \in Procs : owner # r
  PROVE  Holders = {}
BY DEF HolderInv, Holders, Before

LEMMA StepRefines == IInv /\ [Next]_vars => [Lease!LeaseNext]_Lease!leaseVars
<1>. SUFFICES ASSUME IInv, [Next]_vars
              PROVE  Lease!LeaseNext \/ UNCHANGED Lease!leaseVars
  OBVIOUS
<1>0. HolderInv'
  BY NextInv DEF IInv
<1>. USE DEF IInv, TypeOK
<1>1. ASSUME NEW p \in Procs, Move(p)
      PROVE  Lease!LeaseNext \/ UNCHANGED Lease!leaseVars
  <2>0. \A r \in Procs \ {p} : Kept(r)
    BY <1>1, OthersKept
  <2>1. ASSUME NEW k \in {"loader", "bench"}, Start(p, k)
        PROVE  Lease!LeaseNext \/ UNCHANGED Lease!leaseVars
    <3>1. pc[p] \in Before /\ pc'[p] \in Before
      BY <2>1 DEF Start, At, Goto, ProcOK, Before
    <3>2. UNCHANGED <<abandoned, pad, driver, found, excused>>
      BY <2>1 DEF Start, kernelVars, boardVars, ghostVars
    <3>. QED
      BY <2>0, <3>1, <3>2, OutsiderStutters
  <2>2. CASE CheckGroups(p)
    <3>1. pc[p] \in Before /\ pc'[p] \in Before
      BY <2>2 DEF CheckGroups, At, Goto, ProcOK, Before, Gone
    <3>2. UNCHANGED <<abandoned, pad, driver, found, excused>>
      BY <2>2 DEF CheckGroups, kernelVars, boardVars, ghostVars
    <3>. QED
      BY <2>0, <3>1, <3>2, OutsiderStutters
  <2>3. CASE TakeLock(p)
    <3>1. CASE Gone(p) /\ UNCHANGED <<owner, ghostVars>>
      <4>1. pc[p] \in Before /\ pc'[p] \in Before
        BY <2>3, <3>1 DEF TakeLock, At, Goto, ProcOK, Before, Gone
      <4>. QED
        BY <2>0, <2>3, <3>1, <4>1, OutsiderStutters DEF TakeLock, boardVars, ghostVars
    <3>2. CASE owner = Nobody /\ owner' = p /\ found' = Leased /\ abandoned' = FALSE
               /\ UNCHANGED excused
      <4>1. Holders = {} /\ Holders' = {p}
        BY <1>0, <3>2, PinLeaseAssumption DEF HolderInv, Holders, Before
      <4>2. Leased' = Leased
        BY <2>3 DEF TakeLock, boardVars, Leased
      <4>. QED
        BY <3>2, <4>1, <4>2 DEF Lease!LeaseNext, Lease!Take
    <3>. QED
      BY <2>3, <3>1, <3>2 DEF TakeLock
  <2>4. CASE CheckClients(p)
    <3>1. pc[p] \notin Before /\ pc'[p] \notin Before
      BY <2>4 DEF CheckClients, At, Using, Goto, ProcOK, Before
    <3>2. UNCHANGED <<abandoned, found>> /\ (excused => excused')
      BY <2>4 DEF CheckClients, ghostVars, Excuse
    <3>. QED
      BY <2>0, <3>1, <3>2, HolderUses
  <2>5. CASE SavePads(p)
    <3>1. pc[p] \notin Before /\ pc'[p] \notin Before
      BY <2>5 DEF SavePads, At, Using, Goto, ProcOK, Before
    <3>2. UNCHANGED <<abandoned, found>> /\ (excused => excused')
      BY <2>5 DEF SavePads, ghostVars, Excuse
    <3>. QED
      BY <2>0, <3>1, <3>2, HolderUses
  <2>6. CASE UnbindI2c(p)
    <3>1. pc[p] \notin Before /\ pc'[p] \notin Before
      BY <2>6 DEF UnbindI2c, At, Using, Goto, ProcOK, Before
    <3>2. UNCHANGED <<abandoned, found>> /\ (excused => excused')
      BY <2>6 DEF UnbindI2c, ghostVars, Excuse
    <3>. QED
      BY <2>0, <3>1, <3>2, HolderUses
  <2>7. CASE RequestLines(p)
    <3>1. pc[p] \notin Before /\ pc'[p] \notin Before
      BY <2>7 DEF RequestLines, At, Using, Goto, ProcOK, Before
    <3>2. UNCHANGED <<abandoned, found>> /\ (excused => excused')
      BY <2>7 DEF RequestLines, ghostVars, Excuse
    <3>. QED
      BY <2>0, <3>1, <3>2, HolderUses
  <2>8. ASSUME NEW i \in Pads, RequestChannel(p, i)
        PROVE  Lease!LeaseNext \/ UNCHANGED Lease!leaseVars
    <3>1. pc[p] \notin Before /\ pc'[p] \notin Before
      BY <2>8 DEF RequestChannel, At, Using, Goto, ProcOK, Before
    <3>2. UNCHANGED <<abandoned, found>> /\ (excused => excused')
      BY <2>8 DEF RequestChannel, ghostVars, Excuse
    <3>. QED
      BY <2>0, <3>1, <3>2, HolderUses
  <2>9. ASSUME NEW i \in Pads, MuxPad(p, i)
        PROVE  Lease!LeaseNext \/ UNCHANGED Lease!leaseVars
    <3>1. pc[p] \notin Before /\ pc'[p] \notin Before
      BY <2>9 DEF MuxPad, At, Using, Goto, ProcOK, Before
    <3>2. UNCHANGED <<abandoned, found>> /\ (excused => excused')
      BY <2>9 DEF MuxPad, ghostVars, Excuse
    <3>. QED
      BY <2>0, <3>1, <3>2, HolderUses
  <2>10. ASSUME NEW i \in Pads, EnableChannel(p, i)
        PROVE  Lease!LeaseNext \/ UNCHANGED Lease!leaseVars
    <3>1. pc[p] \notin Before /\ pc'[p] \notin Before
      BY <2>10 DEF EnableChannel, At, Using, Goto, ProcOK, Before
    <3>2. UNCHANGED <<abandoned, found>> /\ (excused => excused')
      BY <2>10 DEF EnableChannel, ghostVars, Excuse
    <3>. QED
      BY <2>0, <3>1, <3>2, HolderUses
  <2>11. CASE EndBench(p)
    <3>1. pc[p] \notin Before /\ pc'[p] \notin Before
      BY <2>11 DEF EndBench, At, Using, Goto, ProcOK, Before
    <3>2. UNCHANGED <<abandoned, found>> /\ (excused => excused')
      BY <2>11 DEF EndBench, ghostVars, Excuse
    <3>. QED
      BY <2>0, <3>1, <3>2, HolderUses
  <2>12. ASSUME NEW i \in Pads, DisableChannel(p, i)
        PROVE  Lease!LeaseNext \/ UNCHANGED Lease!leaseVars
    <3>1. pc[p] \notin Before /\ pc'[p] \notin Before
      BY <2>12 DEF DisableChannel, At, Using, Goto, ProcOK, Before
    <3>2. UNCHANGED <<abandoned, found>> /\ (excused => excused')
      BY <2>12 DEF DisableChannel, ghostVars, Excuse
    <3>. QED
      BY <2>0, <3>1, <3>2, HolderUses
  <2>13. CASE ClearDevices(p)
    <3>1. pc[p] \notin Before /\ pc'[p] \notin Before
      BY <2>13 DEF ClearDevices, At, Using, Goto, ProcOK, Before
    <3>2. UNCHANGED <<abandoned, found>> /\ (excused => excused')
      BY <2>13 DEF ClearDevices, ghostVars, Excuse
    <3>. QED
      BY <2>0, <3>1, <3>2, HolderUses
  <2>14. CASE UnbindGroups(p)
    <3>1. pc[p] \notin Before /\ pc'[p] \notin Before
      BY <2>14 DEF UnbindGroups, At, Using, Goto, ProcOK, Before
    <3>2. UNCHANGED <<abandoned, found>> /\ (excused => excused')
      BY <2>14 DEF UnbindGroups, ghostVars, Excuse
    <3>. QED
      BY <2>0, <3>1, <3>2, HolderUses
  <2>15. CASE ReleaseCore(p)
    <3>1. pc[p] \notin Before /\ pc'[p] \notin Before
      BY <2>15 DEF ReleaseCore, At, Using, Goto, ProcOK, Before
    <3>2. UNCHANGED <<abandoned, found>> /\ (excused => excused')
      BY <2>15 DEF ReleaseCore, ghostVars, Excuse
    <3>. QED
      BY <2>0, <3>1, <3>2, HolderUses
  <2>16. CASE HoldCore(p)
    <3>1. pc[p] \notin Before /\ pc'[p] \notin Before
      BY <2>16 DEF HoldCore, At, Using, Goto, ProcOK, Before
    <3>2. UNCHANGED <<abandoned, found>> /\ (excused => excused')
      BY <2>16 DEF HoldCore, ghostVars, Excuse
    <3>. QED
      BY <2>0, <3>1, <3>2, HolderUses
  <2>17. CASE RestoreRegisters(p)
    <3>1. pc[p] \notin Before /\ pc'[p] \notin Before
      BY <2>17 DEF RestoreRegisters, At, Using, Goto, ProcOK, Before
    <3>2. UNCHANGED <<abandoned, found>> /\ (excused => excused')
      BY <2>17 DEF RestoreRegisters, ghostVars, Excuse
    <3>. QED
      BY <2>0, <3>1, <3>2, HolderUses
  <2>18. CASE BindGroups(p)
    <3>1. pc[p] \notin Before /\ pc'[p] \notin Before
      BY <2>18 DEF BindGroups, At, Using, Goto, ProcOK, Before
    <3>2. UNCHANGED <<abandoned, found>> /\ (excused => excused')
      BY <2>18 DEF BindGroups, ghostVars, Excuse
    <3>. QED
      BY <2>0, <3>1, <3>2, HolderUses
  <2>19. CASE CloseLines(p)
    <3>1. pc[p] \notin Before /\ pc'[p] \notin Before
      BY <2>19 DEF CloseLines, At, Using, Goto, ProcOK, Before
    <3>2. UNCHANGED <<abandoned, found>> /\ (excused => excused')
      BY <2>19 DEF CloseLines, ghostVars, Excuse
    <3>. QED
      BY <2>0, <3>1, <3>2, HolderUses
  <2>20. ASSUME NEW i \in Pads, RestorePad(p, i)
        PROVE  Lease!LeaseNext \/ UNCHANGED Lease!leaseVars
    <3>1. pc[p] \notin Before /\ pc'[p] \notin Before
      BY <2>20 DEF RestorePad, At, Using, Goto, ProcOK, Before
    <3>2. UNCHANGED <<abandoned, found>> /\ (excused => excused')
      BY <2>20 DEF RestorePad, ghostVars, Excuse
    <3>. QED
      BY <2>0, <3>1, <3>2, HolderUses
  <2>21. CASE BindI2c(p)
    <3>1. pc[p] \notin Before /\ pc'[p] \notin Before
      BY <2>21 DEF BindI2c, At, Using, Goto, ProcOK, Before
    <3>2. UNCHANGED <<abandoned, found>> /\ (excused => excused')
      BY <2>21 DEF BindI2c, ghostVars, Excuse
    <3>. QED
      BY <2>0, <3>1, <3>2, HolderUses
  <2>22. CASE Unlock(p)
    <3>1. owner = p /\ pc[p] = "unlock"
      BY <2>22 DEF Unlock, At, HolderInv, Before
    <3>2. Leased = found \/ excused
      BY <3>1 DEF BoardInv, Restorable, Leased, GhostOK
    <3>3. \A r \in Procs : owner' # r
      BY <2>22, <3>1, PinLeaseAssumption DEF Unlock, Drop
    <3>4. Holders # {} /\ Holders' = {}
      BY <1>0, <3>1, <3>3 DEF HolderInv, Holders, Before
    <3>5. UNCHANGED <<abandoned, Leased, found, excused>>
      BY <2>22 DEF Unlock, boardVars, ghostVars, Leased
    <3>. QED
      BY <3>2, <3>4, <3>5 DEF Lease!LeaseNext, Lease!Return
  <2>23. CASE Kill(p)
    <3>1. UNCHANGED <<pad, driver, found, excused>>
      BY <2>23 DEF Kill, boardVars
    <3>2. CASE owner = p
      <4>1. \A r \in Procs : owner' # r
        BY <2>23, <3>2, PinLeaseAssumption DEF Kill, Drop
      <4>2. Holders # {} /\ Holders' = {}
        BY <1>0, <3>2, <4>1 DEF HolderInv, Holders, Before
      <4>3. abandoned'
        BY <2>23, <3>2 DEF Kill
      <4>. QED
        BY <2>23, <3>1, <3>2, <4>2, <4>3 DEF Kill, Lease!LeaseNext, Lease!Die, Leased
    <3>3. CASE owner # p
      <4>1. pc[p] \in Before /\ pc'[p] \in Before
        BY <2>23, <3>3 DEF Kill, Gone, Goto, ProcOK, HolderInv, Before
      <4>2. abandoned' = abandoned
        BY <2>23, <3>3 DEF Kill, GhostOK
      <4>. QED
        BY <2>0, <3>1, <4>1, <4>2, OutsiderStutters
    <3>. QED
      BY <3>2, <3>3
  <2>. QED
    BY <1>1, <2>1, <2>2, <2>3, <2>4, <2>5, <2>6, <2>7, <2>8, <2>9, <2>10, <2>11, <2>12, <2>13, <2>14, <2>15, <2>16, <2>17, <2>18, <2>19, <2>20, <2>21, <2>22, <2>23 DEF Move, Step
<1>2. CASE CoreInit
  <2>1. Holders' = Holders /\ UNCHANGED <<abandoned, found>>
    BY <1>2 DEF CoreInit, procVars, Holders, Excuse
  <2>2. CASE Stray
    BY <1>2, <2>1, <2>2 DEF CoreInit, Excuse, Lease!LeaseNext, Lease!Disturb
  <2>3. CASE ~Stray
    <3>1. Holders # {}
      BY <2>3 DEF Stray, Holders
    <3>. QED
      BY <1>2, <2>1, <3>1 DEF CoreInit, Excuse, Lease!LeaseNext, Lease!Use
  <2>. QED
    BY <2>2, <2>3
<1>3. ASSUME NEW i \in Pads, CorePulse(i) PROVE UNCHANGED Lease!leaseVars
  BY <1>3 DEF CorePulse, procVars, kernelVars, ghostVars, Lease!leaseVars, Holders, Leased
<1>4. CASE UNCHANGED vars
  BY <1>4 DEF vars, procVars, kernelVars, boardVars, ghostVars, Lease!leaseVars,
     Holders, Leased
<1>. QED
  BY <1>1, <1>2, <1>3, <1>4 DEF Next, Move

(* The two programs lease the pads and the I2C0 driver as BoardLease       *)
(* promises, wherever one of them fails or is killed.                      *)
THEOREM ImplementsBoardLease == Spec => ImplementsLease
<1>1. Init => Lease!LeaseInit
  BY DEF Init, Lease!LeaseInit, Holders, Leased
<1>. QED
  BY <1>1, StepRefines, AlwaysInv, PTL DEF Spec, ImplementsLease, Lease!LeaseSpec
=============================================================================
