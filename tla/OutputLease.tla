----------------------------- MODULE OutputLease ----------------------------
(***************************************************************************)
(* What the servo service promises about its outputs, whoever commands it  *)
(* and however its timer wraps: an output is switched only while a setting *)
(* is carried out, a setting is over in one pass, and time does not pass   *)
(* beyond Limit over an output that nobody has renewed: it goes off. A     *)
(* core that died promises nothing.                                        *)
(***************************************************************************)
EXTENDS Integers

CONSTANTS
  Channels,
  Pass,    \* most ticks a setting takes
  Limit    \* most ticks an output stays on without a renewal

VARIABLES
  on,       \* channels that are switched on
  setting,  \* a setting is being carried out
  age,      \* ticks since its pass began, or since the last renewal
  alive

outputVars == <<on, setting, age, alive>>

OutputInit == on = {} /\ setting = FALSE /\ age = 0 /\ alive = TRUE

BeginSetting ==
  /\ alive /\ ~setting /\ setting' = TRUE /\ age' \in 0 .. Pass
  /\ UNCHANGED <<on, alive>>

Switch(c) ==
  /\ setting /\ on' \in {on \ {c}, on \cup {c}}
  /\ UNCHANGED <<setting, age, alive>>

(* The setting is complete: every output that is on has been renewed.      *)
Renew == setting /\ setting' = FALSE /\ UNCHANGED <<on, age, alive>>

AllOff ==
  /\ on' = {} /\ setting' = FALSE /\ alive' = alive
  /\ age' \in 0 .. Limit + 1

TimePasses ==
  /\ age < (IF setting THEN Pass ELSE IF alive /\ on # {} THEN Limit ELSE age + 1)
  /\ age' = age + 1 /\ UNCHANGED <<on, setting, alive>>

CoreDies == alive' = FALSE /\ setting' = FALSE /\ on' = on /\ age' \in 0 .. Limit + 1

OutputNext ==
  \/ BeginSetting \/ (\E c \in Channels : Switch(c)) \/ Renew \/ AllOff
  \/ TimePasses \/ CoreDies

OutputSpec == OutputInit /\ [][OutputNext]_outputVars

-----------------------------------------------------------------------------
(* No output is on longer than its lease.                                  *)
Leased == alive /\ on # {} => age <= (IF setting THEN Pass ELSE Limit)

(* An output may come on at any time of a setting, so its age counts even  *)
(* while everything is off.                                                *)
LeasedInv == Leased /\ age \in Nat /\ (setting => age <= Pass)
=============================================================================
