--------------------------- MODULE BenchLinkProofs ---------------------------
(***************************************************************************)
(* Proofs about the core and its host together: the sequence, the hold and *)
(* the self-test, for every number of channels, every script of widths,    *)
(* every timer and every patience.                                         *)
(*                                                                         *)
(* The host of ServoService writes any word at any time, this one is one   *)
(* of them, so the invariant of ServoServiceProofs holds here too. The     *)
(* parts below say what this host adds: whether a request is pending at    *)
(* each of its points, which command the core can have latched, what is    *)
(* driven, and how long each side can have been waiting.                   *)
(***************************************************************************)
EXTENDS SelfTest, ServoServiceProofs

Scripted == benchMode = "test"
Commanding == {"command", "submit", "poll", "judge", "verify"}
Asking == {"poll", "judge"}
\* A request has been read, command and mask included.
Latched == pc \in Processing \ {"decode"}
Off == Enabled = {} /\ active = {}

(* The host's variables.                                                   *)
HostType ==
  /\ hpc \in Commanding \cup {"boot", "lease", "group", "returned"}
               \cup (IF Scripted THEN {"watch", "verdict"} ELSE {"set", "keep"})
  /\ oper \in {"set", "after", "park"}
               \cup (IF Scripted THEN {"before", "status"} ELSE {"before", "failed"})
  /\ benchMode \in BenchModes /\ cancelled \in BOOLEAN
  /\ cycle \in Nat /\ chan \in Nat /\ repeats \in Nat /\ waited \in Nat
  /\ step \in 1 .. (IF Scripted THEN Len(Script) ELSE Len(Pulses))
  /\ rc \in {"none", "failed", "passed"} /\ (rc = "none" <=> hpc # "returned")

(* The core alone, beyond what its own properties need.                    *)
CoreInv ==
  /\ pc \in {"publish", "ack"} /\ req.cmd = "stop" => active = {}
  /\ pc \in {"trip", "tripMark"} => active # {}
  /\ pc = "tripCount" => mode = "tripped"
  /\ ~initialized => \A c \in Channels : ~shown[c].en
  /\ magic = "servo" <=> pc \notin {"boot", "trapped"}

(* One request at a time, as long as nothing has failed; what is latched   *)
(* is what the host is waiting for; after PARK nothing is sent.            *)
TalkInv ==
  /\ hpc \in {"boot", "lease", "group", "set", "keep", "verify", "watch", "verdict"}
       => ack = seq
  /\ hpc \in {"command", "submit"} /\ oper # "failed" => ack = seq
  /\ hpc \notin {"boot", "returned"} => pc # "boot"
  /\ hpc \in {"submit"} \cup Asking => op = CommandOf(oper)
  /\ hpc \in Asking /\ oper # "failed" =>
       seq <= ack + 1 /\ (Latched => req.cmd = op)
  /\ oper # "park" => op # "park" /\ ~(Latched /\ req.cmd = "park")
  /\ hpc \in {"boot", "lease", "group", "set", "keep", "verify", "watch", "verdict"}
       => oper # "park"
  /\ pc = "parked" => oper = "park" /\ hpc \in Asking \cup {"returned"}
  /\ pc = "parked" /\ hpc \in Asking => ack = seq
  /\ hpc \in Asking /\ oper = "park" /\ ack = seq => pc \in {"parked", "trapped"}

(* The sequence and the hold: only the group is ever addressed, and the    *)
(* group changes while nothing is driven.                                  *)
GroupInv ==
  ~Scripted =>
    /\ active \subseteq Group /\ Enabled \subseteq Group
    /\ pc \in Driving \cup {"check", "init"} => req.mask = Group
    /\ ack # seq /\ op = "set" => mask = Group
    /\ hpc \in {"command", "submit"} /\ oper = "set" => mask = Group
    /\ hpc \in {"boot", "lease", "group"} => Off
    /\ hpc \in Commanding /\ oper \in {"before", "park"} => Off
    /\ hpc \in Asking \cup {"verify"} /\ oper = "after" /\ ack = seq => Off
    /\ hpc \in {"set", "keep"} => Group # {}
    /\ hpc \in Commanding /\ oper \in {"before", "set"} => Group # {}

(* Between two commands of the sequence the core renews nothing.           *)
KeepInv ==
  ~Scripted /\ hpc = "keep" =>
    /\ Enabled \in {Group, {}}
    /\ \A c \in Enabled : Running(pwm[c], Pulse)
    /\ Enabled = {} => trips > 0 \/ pc \in {"tripMark", "tripCount", "trapped"}

(* Since the submission at most the rest of one pass and the whole of the  *)
(* next one have gone by.                                                  *)
PatienceInv ==
  /\ hpc = "poll" /\ ack # seq /\ pc # "trapped" =>
       /\ seq = ack + 1 /\ waited <= MaxLoop + elapsed
       /\ pc = "sample" => waited <= elapsed
  /\ hpc \in {"judge", "command"} /\ ~cancelled /\ ack # seq => pc = "trapped"
  /\ hpc = "submit" /\ ack # seq => pc = "trapped"

(* The silence of the self-test, by what the watchdog has done so far.     *)
Guarded ==
  /\ active # {} /\ mode = "driving"
  /\ pc \in {"sample", "fetch", "trip", "tripMark"}
Fired ==
  /\ active = {} /\ mode = "tripped" /\ shownActive = {}
  /\ pc = "tripCount" \/ (pc \in {"sample", "fetch"} /\ trips > 0)

SilenceLine == Len(Steps) + 6

ScriptInv ==
  Scripted =>
    /\ hpc \in Commanding \cup {"watch", "verdict"} => oper = Now.oper
    /\ hpc \in {"watch", "verdict"} => step = SilenceLine
    /\ hpc \in {"watch", "verdict"} => Guarded \/ Fired \/ pc = "trapped"
    /\ step > SilenceLine =>
         /\ active = {} /\ trips \in {1, 2} /\ (pc = "tripCount" => trips = 1)
         /\ ack # seq => op # "set" /\ ~(Latched /\ req.cmd = "set")

(* The silence is no longer than the outputs have been on.                 *)
SilenceInv ==
  Scripted =>
    /\ hpc = "watch" /\ Guarded => waited <= age
    /\ hpc = "verdict" /\ ~cancelled => Fired \/ pc = "trapped"

(* What "passed" says.                                                     *)
PassInv ==
  rc = "passed" /\ benchMode # "hold" =>
    /\ Enabled = {} /\ pc \in {"parked", "trapped"}
    /\ Scripted => step > SilenceLine

(* A live core is never two requests behind.                               *)
MailInv == pc # "trapped" => seq <= ack + 1

LinkInv ==
  IInv /\ HostType /\ CoreInv /\ TalkInv /\ GroupInv /\ KeepInv /\ ScriptInv
    /\ PassInv

-----------------------------------------------------------------------------
(* The script, line by line: the silence is asked for once, only a status  *)
(* and the PARK follow it, and the PARK is the last line.                  *)
Widths == [Channels -> Targets \cup {0}]
Lines == [oper : {"set", "after", "status", "park"}, mask : SUBSET MaskBits,
          target : Widths, want : {"ok", "lease", "range"},
          check : {"none", "widths", "shown", "watch", "off"}]

LEMMA Retarget ==
  ASSUME NEW f \in Widths, NEW us \in Targets
  PROVE  [f EXCEPT ![0] = us] \in Widths
BY DEF Widths

LEMMA AllAlike == ASSUME NEW us \in Targets \cup {0} PROVE All(us) \in Widths
BY DEF All, Widths

LEMMA LineIsLine ==
  ASSUME NEW purpose \in {"set", "after", "status", "park"},
         NEW m \in SUBSET MaskBits, NEW t \in Widths,
         NEW want \in {"ok", "lease", "range"},
         NEW check \in {"none", "widths", "shown", "watch", "off"}
  PROVE  /\ Line(purpose, m, t, want, check) \in Lines
         /\ Line(purpose, m, t, want, check).oper = purpose
         /\ Line(purpose, m, t, want, check).check = check
BY DEF Line, Lines

LEMMA MasksAreMasks ==
  /\ Channels \in SUBSET MaskBits /\ {NumChannels} \in SUBSET MaskBits
  /\ {Lone} \in SUBSET MaskBits
BY ServiceAssumption, SelfTestAssumption DEF Channels, MaskBits

LEMMA SetAllIsLine ==
  ASSUME NEW t \in Widths
  PROVE  SetAll(t) \in Lines /\ SetAll(t).oper = "set" /\ SetAll(t).check = "widths"
BY LineIsLine, MasksAreMasks DEF SetAll

LEMMA Joined ==
  ASSUME NEW S, NEW s \in Seq(S), NEW t \in Seq(S)
  PROVE  /\ s \o t \in Seq(S) /\ Len(s \o t) = Len(s) + Len(t)
         /\ \A n \in 1 .. Len(s) : (s \o t)[n] = s[n]
         /\ \A n \in 1 .. Len(t) : (s \o t)[Len(s) + n] = t[n]
BY SMT

Requests ==
  << Line("set", {NumChannels}, All(0), "lease", "none"),
     Line("set", Channels, [All(1500) EXCEPT ![0] = MinPulse - 1], "range", "none"),
     Line("set", Channels, [All(1500) EXCEPT ![0] = MaxPulse + 1], "range", "none") >>
Widenings == [n \in 1 .. Len(Steps) |-> SetAll(All(Steps[n]))]
Endings ==
  << SetAll(Mixed),
     Line("after", Channels, Mixed, "ok", "shown"),
     Line("set", {Lone}, Mixed, "ok", "watch"),
     Line("status", {Lone}, Mixed, "ok", "off"),
     Line("park", {Lone}, Mixed, "ok", "none") >>

LEMMA RequestLines ==
  /\ Requests \in Seq(Lines) /\ Len(Requests) = 3
  /\ \A n \in 1 .. 3 : Requests[n].oper = "set" /\ Requests[n].check = "none"
<1> DEFINE low == MinPulse - 1
           high == MaxPulse + 1
           narrow == [All(1500) EXCEPT ![0] = low]
           wide == [All(1500) EXCEPT ![0] = high]
           a == Line("set", {NumChannels}, All(0), "lease", "none")
           b == Line("set", Channels, narrow, "range", "none")
           c == Line("set", Channels, wide, "range", "none")
<1>1. Requests = <<a, b, c>>
  BY DEF Requests
<1>2. low \in Targets /\ high \in Targets /\ 1500 \in Targets
  BY SelfTestAssumption
<1> HIDE DEF low, high
<1>3. All(1500) \in Widths /\ All(0) \in Widths
  BY <1>2, AllAlike
<1>4. narrow \in Widths /\ wide \in Widths
  BY <1>2, <1>3, Retarget
<1> HIDE DEF narrow, wide
<1>5. a \in Lines /\ a.oper = "set" /\ a.check = "none"
  BY <1>3, LineIsLine, MasksAreMasks
<1>6. b \in Lines /\ b.oper = "set" /\ b.check = "none"
  BY <1>4, LineIsLine, MasksAreMasks
<1>7. c \in Lines /\ c.oper = "set" /\ c.check = "none"
  BY <1>4, LineIsLine, MasksAreMasks
<1> HIDE DEF a, b, c
<1>8. Requests \in Seq(Lines)
  BY <1>1, <1>5, <1>6, <1>7
<1>9. Len(Requests) = 3 /\ Requests[1] = a /\ Requests[2] = b /\ Requests[3] = c
  BY <1>1
<1> QED
  BY <1>5, <1>6, <1>7, <1>8, <1>9

LEMMA WideningLines ==
  /\ Widenings \in Seq(Lines) /\ Len(Widenings) = Len(Steps) /\ Len(Steps) \in Nat
  /\ \A n \in 1 .. Len(Steps) :
       Widenings[n].oper = "set" /\ Widenings[n].check = "widths"
<1>1. Len(Steps) \in Nat
  BY SelfTestAssumption
<1>2. ASSUME NEW n \in 1 .. Len(Steps)
      PROVE  /\ SetAll(All(Steps[n])) \in Lines
             /\ SetAll(All(Steps[n])).oper = "set"
             /\ SetAll(All(Steps[n])).check = "widths"
  <2>1. Steps[n] \in Targets \cup {0}
    BY SelfTestAssumption
  <2>2. All(Steps[n]) \in Widths
    BY <2>1, AllAlike
  <2> QED
    BY <2>2, SetAllIsLine
<1>3. Widenings \in Seq(Lines) /\ Len(Widenings) = Len(Steps)
  BY <1>1, <1>2 DEF Widenings
<1> QED
  BY <1>1, <1>2, <1>3 DEF Widenings

LEMMA EndingLines ==
  /\ Endings \in Seq(Lines) /\ Len(Endings) = 5
  /\ Endings[1].oper = "set" /\ Endings[1].check = "widths"
  /\ Endings[2].oper = "after" /\ Endings[2].check = "shown"
  /\ Endings[3].oper = "set" /\ Endings[3].check = "watch"
  /\ Endings[4].oper = "status" /\ Endings[4].check = "off"
  /\ Endings[5].oper = "park" /\ Endings[5].check = "none"
<1> DEFINE a == SetAll(Mixed)
           b == Line("after", Channels, Mixed, "ok", "shown")
           c == Line("set", {Lone}, Mixed, "ok", "watch")
           d == Line("status", {Lone}, Mixed, "ok", "off")
           e == Line("park", {Lone}, Mixed, "ok", "none")
<1>0. Mixed \in Widths
  BY SelfTestAssumption DEF Widths
<1>1. a \in Lines /\ a.oper = "set" /\ a.check = "widths"
  BY <1>0, SetAllIsLine
<1>2. b \in Lines /\ b.oper = "after" /\ b.check = "shown"
  BY <1>0, LineIsLine, MasksAreMasks
<1>3. c \in Lines /\ c.oper = "set" /\ c.check = "watch"
  BY <1>0, LineIsLine, MasksAreMasks
<1>4. d \in Lines /\ d.oper = "status" /\ d.check = "off"
  BY <1>0, LineIsLine, MasksAreMasks
<1>5. e \in Lines /\ e.oper = "park" /\ e.check = "none"
  BY <1>0, LineIsLine, MasksAreMasks
<1>6. Endings = <<a, b, c, d, e>>
  BY DEF Endings
<1> HIDE DEF a, b, c, d, e
<1>7. Endings \in Seq(Lines)
  BY <1>1, <1>2, <1>3, <1>4, <1>5, <1>6
<1>8. /\ Len(Endings) = 5 /\ Endings[1] = a /\ Endings[2] = b /\ Endings[3] = c
      /\ Endings[4] = d /\ Endings[5] = e
  BY <1>6
<1> QED
  BY <1>1, <1>2, <1>3, <1>4, <1>5, <1>7, <1>8

LEMMA ScriptLines ==
  /\ Len(Script) = Len(Steps) + 8 /\ Len(Steps) \in Nat
  /\ \A n \in 1 .. Len(Script) :
       /\ Script[n] \in Lines
       /\ Script[n].oper = "park" <=> n = Len(Script)
       /\ Script[n].check = "watch" <=> n = SilenceLine
       /\ n > SilenceLine => Script[n].oper \in {"status", "park"}
<1> DEFINE first == Requests \o Widenings
<1>1. Script = first \o Endings
  BY DEF Script, Requests, Widenings, Endings
<1>2. /\ first \in Seq(Lines) /\ Len(first) = 3 + Len(Steps)
      /\ \A n \in 1 .. 3 : first[n] = Requests[n]
      /\ \A n \in 1 .. Len(Steps) : first[3 + n] = Widenings[n]
  <2>1. Requests \in Seq(Lines) /\ Widenings \in Seq(Lines)
    BY RequestLines, WideningLines
  <2>2. /\ first \in Seq(Lines) /\ Len(first) = Len(Requests) + Len(Widenings)
        /\ \A n \in 1 .. Len(Requests) : first[n] = Requests[n]
        /\ \A n \in 1 .. Len(Widenings) : first[Len(Requests) + n] = Widenings[n]
    BY <2>1, Joined
  <2> QED
    BY <2>2, RequestLines, WideningLines
<1> HIDE DEF first
<1>3. /\ Script \in Seq(Lines) /\ Len(Script) = 3 + Len(Steps) + 5
      /\ \A n \in 1 .. 3 + Len(Steps) : Script[n] = first[n]
      /\ \A n \in 1 .. 5 : Script[3 + Len(Steps) + n] = Endings[n]
  <2>1. first \in Seq(Lines) /\ Endings \in Seq(Lines)
    BY <1>2, EndingLines
  <2>2. /\ Script \in Seq(Lines) /\ Len(Script) = Len(first) + Len(Endings)
        /\ \A n \in 1 .. Len(first) : Script[n] = first[n]
        /\ \A n \in 1 .. Len(Endings) : Script[Len(first) + n] = Endings[n]
    BY <1>1, <2>1, Joined
  <2> QED
    BY <1>2, <2>2, EndingLines
<1>4. ASSUME NEW n \in 1 .. Len(Script)
      PROVE  /\ Script[n] \in Lines
             /\ Script[n].oper = "park" <=> n = Len(Script)
             /\ Script[n].check = "watch" <=> n = SilenceLine
             /\ n > SilenceLine => Script[n].oper \in {"status", "park"}
  <2>0. Script[n] \in Lines
    BY <1>3
  <2>1. CASE n \in 1 .. 3
    <3>1. Script[n] = Requests[n]
      BY <1>2, <1>3, <2>1, WideningLines
    <3> QED
      BY <1>3, <2>0, <2>1, <3>1, RequestLines, WideningLines DEF SilenceLine
  <2>2. CASE n \in 4 .. 3 + Len(Steps)
    <3> DEFINE k == n - 3
    <3>1. k \in 1 .. Len(Steps) /\ n = 3 + k
      BY <2>2, WideningLines
    <3> HIDE DEF k
    <3>2. Script[n] = Widenings[k]
      BY <1>2, <1>3, <3>1, WideningLines
    <3> QED
      BY <1>3, <2>0, <3>1, <3>2, WideningLines DEF SilenceLine
  <2>3. CASE n \in 4 + Len(Steps) .. 8 + Len(Steps)
    <3> DEFINE k == n - (3 + Len(Steps))
    <3>1. k \in {1, 2, 3, 4, 5} /\ n = 3 + Len(Steps) + k
      BY <2>3, WideningLines
    <3> HIDE DEF k
    <3>2. Script[n] = Endings[k]
      BY <1>3, <3>1
    <3>4. /\ n = Len(Script) <=> k = 5
          /\ n = SilenceLine <=> k = 3
          /\ n > SilenceLine <=> k \in {4, 5}
      BY <1>3, <3>1, WideningLines DEF SilenceLine
    <3>5. /\ Endings[k].oper = "park" <=> k = 5
          /\ Endings[k].check = "watch" <=> k = 3
          /\ k \in {4, 5} => Endings[k].oper \in {"status", "park"}
      BY <3>1, EndingLines
    <3> QED
      BY <2>0, <3>2, <3>4, <3>5
  <2> QED
    BY <1>3, <2>1, <2>2, <2>3, WideningLines
<1> QED
  BY <1>3, <1>4, WideningLines

-----------------------------------------------------------------------------
(* What the host writes, and what it leaves alone.                         *)
LEMMA PulseType == LinkInv /\ ~Scripted => Pulse \in Targets
<1> SUFFICES ASSUME LinkInv, ~Scripted PROVE Pulse \in Targets
  OBVIOUS
<1>1. step \in 1 .. Len(Pulses)
  BY DEF LinkInv, HostType
<1> QED
  BY <1>1, LinkAssumption DEF Pulse

Writes ==
  /\ op' \in Ops /\ seq' \in 0 .. MaxSeq /\ seq <= seq'
  /\ mask' \in SUBSET MaskBits /\ target' \in Widths /\ lease' \in BOOLEAN

LEMMA HostWrites ==
  ASSUME LinkInv, LoaderHost \/ Cancel
  PROVE  UNCHANGED CoreSide /\ Writes
<1>0. /\ op \in Ops /\ seq \in 0 .. MaxSeq /\ mask \in SUBSET MaskBits
      /\ target \in Widths /\ lease \in BOOLEAN
  BY DEF LinkInv, IInv, TypeOK, Widths
<1>1. CASE UNCHANGED NoWrite
  BY <1>0, <1>1, ServiceAssumption DEF NoWrite, hostVars, Writes
<1>2. CASE GrantLease
  BY <1>0, <1>2, ServiceAssumption DEF GrantLease, HostLease, Writes
<1>3. CASE WriteCommand
  <2>1. CommandOf(oper) \in Ops
    BY DEF LinkInv, HostType, CommandOf, Ops
  <2> QED
    BY <1>0, <1>3, <2>1, ServiceAssumption DEF WriteCommand, HostOp, Writes
<1>4. CASE Submit
  BY <1>0, <1>4, ServiceAssumption DEF Submit, HostSubmit, Writes
<1>5. ASSUME ~Scripted, PrepareSet PROVE UNCHANGED CoreSide /\ Writes
  <2>1. Pulse \in Targets
    BY <1>5, PulseType
  <2>2. Group \in SUBSET MaskBits
    BY LinkAssumption, MasksAreMasks DEF Group
  <2> QED
    BY <1>0, <1>5, <2>1, <2>2, ServiceAssumption DEF PrepareSet, Writes, Widths
<1>6. ASSUME Scripted, TestPrepare PROVE UNCHANGED CoreSide /\ Writes
  <2>1. Now \in Lines
    BY <1>6, ScriptLines DEF LinkInv, HostType, Now
  <2>2. Now.mask \in SUBSET MaskBits /\ Now.target \in Widths
    BY <2>1 DEF Lines
  <2> QED
    BY <1>0, <1>6, <2>2, ServiceAssumption DEF TestPrepare, Writes
<1>7. CASE Cancel
  BY <1>1, <1>7 DEF Cancel
<1>8. ASSUME ~Scripted, Host PROVE UNCHANGED CoreSide /\ Writes
  BY <1>1, <1>2, <1>3, <1>4, <1>5, <1>8
     DEF Host, SeeMagic, MissMagic, NextGroup, RefuseSet, SkipCommand, EndPoll,
         Accept, Reject, Verify, Mismatch, Repeat, PauseCancelled, EndHold,
         NextStep
<1>9. ASSUME Scripted, TestHost PROVE UNCHANGED CoreSide /\ Writes
  BY <1>1, <1>2, <1>3, <1>4, <1>6, <1>9
     DEF TestHost, SeeMagic, MissMagic, EndPoll, TestAccept, TestVerify,
         EndWatch, TestWatchdog, TestReject
<1> QED
  BY <1>7, <1>8, <1>9 DEF LoaderHost, Scripted

(* It is one of the hosts ServoService is proved for.                      *)
LEMMA HostKeepsIInv ==
  ASSUME IInv, UNCHANGED CoreSide, Writes
  PROVE  IInv'
<1> USE DEF CoreSide, pageVars, coreVars, timeVars, Enabled
<1>1. TypeOK'
  BY DEF IInv, TypeOK, Writes, Widths
<1>2. WaveformInv'
  BY DEF IInv, WaveformInv, SafeWaveform
<1>3. OutputInv'
  BY DEF IInv, OutputInv
<1>4. CommandInv' /\ PublishInv' /\ TimeInv'
  BY DEF IInv, CommandInv, PublishInv, TimeInv
<1>5. SequenceInv'
  <2>1. /\ ack \in Nat /\ seq \in Nat /\ seq' \in Nat /\ req.seq \in Nat /\ seq <= seq'
        /\ SequenceInv
    BY ServiceAssumption DEF IInv, TypeOK, Writes
  <2> QED
    BY <2>1 DEF SequenceInv
<1> QED
  BY <1>1, <1>2, <1>3, <1>4, <1>5 DEF IInv

LEMMA LinkKeepsIInv == LinkInv /\ [TestNext]_linkVars => IInv'
<1> SUFFICES ASSUME LinkInv, [TestNext]_linkVars PROVE IInv'
  OBVIOUS
<1>0. IInv
  BY DEF LinkInv
<1>1. CASE LoaderHost \/ Cancel
  BY <1>0, <1>1, HostWrites, HostKeepsIInv
<1>2. CASE CoreStep \/ TestTick
  BY <1>0, <1>2, NextIInv DEF CoreStep, TestTick, Next
<1>3. CASE UNCHANGED linkVars
  BY <1>0, <1>3, NextIInv DEF linkVars
<1> QED
  BY <1>1, <1>2, <1>3 DEF TestNext

(* Types. *)
LEMMA HostTypeStep ==
  ASSUME LinkInv, [TestNext]_linkVars
  PROVE  HostType'
<1>0. /\ HostType /\ Patience \in Nat /\ WatchPatience \in Nat
      /\ Len(Pulses) \in Nat \ {0} /\ Len(Script) \in Nat \ {0}
      /\ Scripted' = Scripted
      /\ Scripted => /\ Now.oper \in {"set", "after", "status", "park"}
                     /\ Now.oper = "park" <=> step = Len(Script)
      /\ Scripted /\ hpc \in Commanding => oper = Now.oper
      /\ Scripted /\ hpc \in {"verify", "watch", "verdict"} => step < Len(Script)
  <2>1. HostType
    BY DEF LinkInv
  <2>2. benchMode' = benchMode
    BY DEF TestNext, LoaderHost, Host, TestHost, CoreStep, TestTick, linkVars,
       benchVars, SeeMagic, MissMagic, GrantLease, WriteCommand, Submit,
       EndPoll, NextGroup, PrepareSet, RefuseSet, SkipCommand, Accept, Reject,
       Verify, Mismatch, Repeat, PauseCancelled, EndHold, NextStep,
       TestPrepare, TestAccept, TestVerify, EndWatch, TestWatchdog,
       TestReject, Cancel, Return, Begin, Go, Advance, Fail
  <2>3. Pulses # <<>> => Len(Pulses) # 0
    BY LinkAssumption
  <2>4. Scripted => step \in 1 .. Len(Script)
    BY <2>1 DEF HostType
  <2>5. Scripted => Now \in Lines /\ (Now.oper = "park" <=> step = Len(Script))
    BY <2>4, ScriptLines DEF Now
  <2>6. Scripted => Now.oper \in {"set", "after", "status", "park"}
    BY <2>5 DEF Lines
  <2>7. Scripted /\ hpc \in Commanding => oper = Now.oper
    BY DEF LinkInv, ScriptInv
  <2>8. Scripted /\ hpc \in {"verify", "watch", "verdict"} => step < Len(Script)
    BY <2>4, <2>5, <2>7, ScriptLines
       DEF LinkInv, ScriptInv, TalkInv, SilenceLine, Commanding
  <2> QED
    BY <2>1, <2>2, <2>3, <2>5, <2>6, <2>7, <2>8, LinkAssumption,
       SelfTestAssumption, ScriptLines DEF Scripted
<1> USE DEF HostType, Commanding, Min
<1>1. CASE SeeMagic
  BY <1>0, <1>1 DEF SeeMagic, Return, Begin, Go, NoWrite, CoreSide,
     hostVars, Advance
<1>2. CASE MissMagic
  BY <1>0, <1>2 DEF MissMagic, Return, Begin, Go, NoWrite, CoreSide,
     hostVars, Advance
<1>3. CASE GrantLease
  BY <1>0, <1>3 DEF GrantLease, HostLease, Return, Begin, Go, NoWrite,
     CoreSide, hostVars, Advance
<1>4. CASE WriteCommand
  BY <1>0, <1>4 DEF WriteCommand, HostOp, Return, Begin, Go, NoWrite,
     CoreSide, hostVars, Advance
<1>5. CASE Submit
  BY <1>0, <1>5 DEF Submit, HostSubmit, Return, Begin, Go, NoWrite,
     CoreSide, hostVars, Advance
<1>6. CASE EndPoll
  BY <1>0, <1>6 DEF EndPoll, Return, Begin, Go, NoWrite, CoreSide, hostVars,
     Advance
<1>7. ASSUME ~Scripted, NextGroup
      PROVE  HostType'
  BY <1>0, <1>7 DEF NextGroup, Return, Begin, Go, NoWrite, CoreSide,
     hostVars, Advance
<1>8. ASSUME ~Scripted, PrepareSet
      PROVE  HostType'
  BY <1>0, <1>8 DEF PrepareSet, Return, Begin, Go, NoWrite, CoreSide,
     hostVars, Advance
<1>9. ASSUME ~Scripted, RefuseSet
      PROVE  HostType'
  BY <1>0, <1>9 DEF RefuseSet, Fail, Return, Begin, Go, NoWrite, CoreSide,
     hostVars, Advance
<1>10. ASSUME ~Scripted, SkipCommand
      PROVE  HostType'
  BY <1>0, <1>10 DEF SkipCommand, Fail, Return, Begin, Go, NoWrite,
     CoreSide, hostVars, Advance
<1>11. ASSUME ~Scripted, Accept
      PROVE  HostType'
  BY <1>0, <1>11 DEF Accept, Answered, Return, Begin, Go, NoWrite, CoreSide,
     hostVars, Advance
<1>12. ASSUME ~Scripted, Reject
      PROVE  HostType'
  BY <1>0, <1>12 DEF Reject, Fail, Answered, Return, Begin, Go, NoWrite,
     CoreSide, hostVars, Advance
<1>13. ASSUME ~Scripted, Verify
      PROVE  HostType'
  BY <1>0, <1>13 DEF Verify, Return, Begin, Go, NoWrite, CoreSide, hostVars,
     Advance
<1>14. ASSUME ~Scripted, Mismatch
      PROVE  HostType'
  BY <1>0, <1>14 DEF Mismatch, Fail, Return, Begin, Go, NoWrite, CoreSide,
     hostVars, Advance
<1>15. ASSUME ~Scripted, Repeat
      PROVE  HostType'
  BY <1>0, <1>15 DEF Repeat, Return, Begin, Go, NoWrite, CoreSide, hostVars,
     Advance
<1>16. ASSUME ~Scripted, PauseCancelled
      PROVE  HostType'
  BY <1>0, <1>16 DEF PauseCancelled, Return, Begin, Go, NoWrite, CoreSide,
     hostVars, Advance
<1>17. ASSUME ~Scripted, NextStep
      PROVE  HostType'
  BY <1>0, <1>17 DEF NextStep, Return, Begin, Go, NoWrite, CoreSide,
     hostVars, Advance
<1>18. ASSUME Scripted, TestPrepare
      PROVE  HostType'
  BY <1>0, <1>18 DEF TestPrepare, Return, Begin, Go, NoWrite, CoreSide,
     hostVars, Advance
<1>19. ASSUME Scripted, TestAccept
      PROVE  HostType'
  BY <1>0, <1>19 DEF TestAccept, TestAnswered, Return, Begin, Go, NoWrite,
     CoreSide, hostVars, Advance
<1>20. ASSUME Scripted, TestVerify
      PROVE  HostType'
  BY <1>0, <1>20 DEF TestVerify, Return, Begin, Go, NoWrite, CoreSide,
     hostVars, Advance
<1>21. ASSUME Scripted, EndWatch
      PROVE  HostType'
  BY <1>0, <1>21 DEF EndWatch, Return, Begin, Go, NoWrite, CoreSide,
     hostVars, Advance
<1>22. ASSUME Scripted, TestWatchdog
      PROVE  HostType'
  BY <1>0, <1>22 DEF TestWatchdog, WatchdogFired, Return, Begin, Go,
     NoWrite, CoreSide, hostVars, Advance
<1>23. ASSUME Scripted, TestReject
      PROVE  HostType'
  BY <1>0, <1>23 DEF TestReject, TestAnswered, Return, Begin, Go, NoWrite,
     CoreSide, hostVars, Advance
<1>24. CASE Cancel
  BY <1>0, <1>24 DEF Cancel, Return, Begin, Go, NoWrite, CoreSide, hostVars,
     Advance
<1>25. ASSUME Boot, UNCHANGED benchVars
      PROVE  HostType'
  BY <1>0, <1>25 DEF Boot, benchVars
<1>26. ASSUME Sample, UNCHANGED benchVars
      PROVE  HostType'
  BY <1>0, <1>26 DEF Sample, benchVars
<1>27. ASSUME TripStop, UNCHANGED benchVars
      PROVE  HostType'
  BY <1>0, <1>27 DEF TripStop, benchVars
<1>28. ASSUME TripMark, UNCHANGED benchVars
      PROVE  HostType'
  BY <1>0, <1>28 DEF TripMark, benchVars
<1>29. ASSUME TripCount, UNCHANGED benchVars
      PROVE  HostType'
  BY <1>0, <1>29 DEF TripCount, benchVars
<1>30. ASSUME Fetch, UNCHANGED benchVars
      PROVE  HostType'
  BY <1>0, <1>30 DEF Fetch, benchVars
<1>31. ASSUME Decode, UNCHANGED benchVars
      PROVE  HostType'
  BY <1>0, <1>31 DEF Decode, benchVars
<1>32. ASSUME Check, UNCHANGED benchVars
      PROVE  HostType'
  BY <1>0, <1>32 DEF Check, benchVars
<1>33. ASSUME InitOutputs, UNCHANGED benchVars
      PROVE  HostType'
  BY <1>0, <1>33 DEF InitOutputs, benchVars
<1>34. ASSUME DriveChannel, UNCHANGED benchVars
      PROVE  HostType'
  BY <1>0, <1>34 DEF DriveChannel, benchVars
<1>35. ASSUME LoadLow, UNCHANGED benchVars
      PROVE  HostType'
  BY <1>0, <1>35 DEF LoadLow, benchVars
<1>36. ASSUME LoadHigh, UNCHANGED benchVars
      PROVE  HostType'
  BY <1>0, <1>36 DEF LoadHigh, benchVars
<1>37. ASSUME StartChannel, UNCHANGED benchVars
      PROVE  HostType'
  BY <1>0, <1>37 DEF StartChannel, benchVars
<1>38. ASSUME DriveDone, UNCHANGED benchVars
      PROVE  HostType'
  BY <1>0, <1>38 DEF DriveDone, benchVars
<1>39. ASSUME DriveFailed, UNCHANGED benchVars
      PROVE  HostType'
  BY <1>0, <1>39 DEF DriveFailed, benchVars
<1>40. ASSUME StopOutputs, UNCHANGED benchVars
      PROVE  HostType'
  BY <1>0, <1>40 DEF StopOutputs, benchVars
<1>41. ASSUME Publish, UNCHANGED benchVars
      PROVE  HostType'
  BY <1>0, <1>41 DEF Publish, benchVars
<1>42. ASSUME Acknowledge, UNCHANGED benchVars
      PROVE  HostType'
  BY <1>0, <1>42 DEF Acknowledge, benchVars
<1>43. ASSUME Trap, UNCHANGED benchVars
      PROVE  HostType'
  BY <1>0, <1>43 DEF Trap, benchVars
<1>44. CASE TestTick
  BY <1>0, <1>44 DEF TestTick, Tick
<1>45. CASE UNCHANGED linkVars
  BY <1>0, <1>45 DEF linkVars, vars, benchVars
<1>46. ASSUME ~Scripted, EndHold
      PROVE  HostType'
  BY <1>0, <1>46 DEF EndHold, Return, Begin, Go, NoWrite, CoreSide,
     hostVars, Advance
<1> HIDE DEF HostType, Commanding, Min
<1> QED
  BY <1>1, <1>2, <1>3, <1>4, <1>5, <1>6, <1>7, <1>8, <1>9, <1>10, <1>11,
     <1>12, <1>13, <1>14, <1>15, <1>16, <1>17, <1>18, <1>19, <1>20, <1>21,
     <1>22, <1>23, <1>24, <1>25, <1>26, <1>27, <1>28, <1>29, <1>30, <1>31,
     <1>32, <1>33, <1>34, <1>35, <1>36, <1>37, <1>38, <1>39, <1>40, <1>41,
     <1>42, <1>43, <1>44, <1>45, <1>46 DEF TestNext, LoaderHost, Host,
     TestHost, CoreStep, Core, Scripted

(* The core. *)
LEMMA CoreInvStep ==
  ASSUME LinkInv, [TestNext]_linkVars
  PROVE  CoreInv'
<1>0. CoreInv /\ TypeOK /\ OutputInv /\ CommandInv /\ PublishInv
  BY DEF LinkInv, IInv
<1> USE DEF CoreInv, Tripping, Driving, Reloading, pageVars, coreVars,
        timeVars
<1>1. CASE LoaderHost \/ Cancel
  <2>1. UNCHANGED CoreSide
    BY <1>1, HostWrites
  <2> QED
    BY <1>0, <2>1 DEF CoreSide
<1>2. ASSUME Boot, UNCHANGED benchVars
      PROVE  CoreInv'
  BY <1>0, <1>2 DEF Boot, OutputInv, CommandInv, PublishInv, TypeOK, Enabled
<1>3. ASSUME Sample, UNCHANGED benchVars
      PROVE  CoreInv'
  BY <1>0, <1>3 DEF Sample, OutputInv, CommandInv, PublishInv, TypeOK,
     Enabled
<1>4. ASSUME TripStop, UNCHANGED benchVars
      PROVE  CoreInv'
  BY <1>0, <1>4 DEF TripStop, OutputInv, CommandInv, PublishInv, TypeOK,
     Enabled
<1>5. ASSUME TripMark, UNCHANGED benchVars
      PROVE  CoreInv'
  BY <1>0, <1>5 DEF TripMark, OutputInv, CommandInv, PublishInv, TypeOK,
     Enabled
<1>6. ASSUME TripCount, UNCHANGED benchVars
      PROVE  CoreInv'
  BY <1>0, <1>6 DEF TripCount, OutputInv, CommandInv, PublishInv, TypeOK,
     Enabled
<1>7. ASSUME Fetch, UNCHANGED benchVars
      PROVE  CoreInv'
  BY <1>0, <1>7 DEF Fetch, OutputInv, CommandInv, PublishInv, TypeOK,
     Enabled
<1>8. ASSUME Decode, UNCHANGED benchVars
      PROVE  CoreInv'
  BY <1>0, <1>8 DEF Decode, OutputInv, CommandInv, PublishInv, TypeOK,
     Enabled
<1>9. ASSUME Check, UNCHANGED benchVars
      PROVE  CoreInv'
  BY <1>0, <1>9 DEF Check, OutputInv, CommandInv, PublishInv, TypeOK,
     Enabled
<1>10. ASSUME InitOutputs, UNCHANGED benchVars
      PROVE  CoreInv'
  BY <1>0, <1>10 DEF InitOutputs, OutputInv, CommandInv, PublishInv, TypeOK,
     Enabled
<1>11. ASSUME DriveChannel, UNCHANGED benchVars
      PROVE  CoreInv'
  BY <1>0, <1>11 DEF DriveChannel, OutputInv, CommandInv, PublishInv,
     TypeOK, Enabled
<1>12. ASSUME LoadLow, UNCHANGED benchVars
      PROVE  CoreInv'
  BY <1>0, <1>12 DEF LoadLow, OutputInv, CommandInv, PublishInv, TypeOK,
     Enabled
<1>13. ASSUME LoadHigh, UNCHANGED benchVars
      PROVE  CoreInv'
  BY <1>0, <1>13 DEF LoadHigh, OutputInv, CommandInv, PublishInv, TypeOK,
     Enabled
<1>14. ASSUME StartChannel, UNCHANGED benchVars
      PROVE  CoreInv'
  BY <1>0, <1>14 DEF StartChannel, OutputInv, CommandInv, PublishInv,
     TypeOK, Enabled
<1>15. ASSUME DriveDone, UNCHANGED benchVars
      PROVE  CoreInv'
  BY <1>0, <1>15 DEF DriveDone, OutputInv, CommandInv, PublishInv, TypeOK,
     Enabled
<1>16. ASSUME DriveFailed, UNCHANGED benchVars
      PROVE  CoreInv'
  BY <1>0, <1>16 DEF DriveFailed, OutputInv, CommandInv, PublishInv, TypeOK,
     Enabled
<1>17. ASSUME StopOutputs, UNCHANGED benchVars
      PROVE  CoreInv'
  BY <1>0, <1>17 DEF StopOutputs, OutputInv, CommandInv, PublishInv, TypeOK,
     Enabled
<1>18. ASSUME Publish, UNCHANGED benchVars
      PROVE  CoreInv'
  BY <1>0, <1>18 DEF Publish, OutputInv, CommandInv, PublishInv, TypeOK,
     Enabled
<1>19. ASSUME Acknowledge, UNCHANGED benchVars
      PROVE  CoreInv'
  BY <1>0, <1>19 DEF Acknowledge, OutputInv, CommandInv, PublishInv, TypeOK,
     Enabled
<1>20. ASSUME Trap, UNCHANGED benchVars
      PROVE  CoreInv'
  BY <1>0, <1>20 DEF Trap, OutputInv, CommandInv, PublishInv, TypeOK,
     Enabled
<1>21. CASE TestTick
  BY <1>0, <1>21 DEF TestTick, Tick
<1>22. CASE UNCHANGED linkVars
  BY <1>0, <1>22 DEF linkVars, vars
<1> HIDE DEF CoreInv, Tripping, Driving, Reloading, pageVars, coreVars,
        timeVars
<1> QED
  BY <1>1, <1>2, <1>3, <1>4, <1>5, <1>6, <1>7, <1>8, <1>9, <1>10, <1>11,
     <1>12, <1>13, <1>14, <1>15, <1>16, <1>17, <1>18, <1>19, <1>20, <1>21,
     <1>22 DEF TestNext, CoreStep, Core

(* Who is waiting for whom. *)
LEMMA TalkInvStep ==
  ASSUME LinkInv, [TestNext]_linkVars
  PROVE  TalkInv'
<1>0. /\ TalkInv /\ HostType /\ HostType' /\ CommandInv
      /\ ack \in Nat /\ seq \in Nat /\ req.seq \in Nat
      /\ ack <= seq /\ (pc \in Processing => ack < req.seq /\ req.seq <= seq)
      /\ Scripted /\ hpc \in Commanding \cup {"watch", "verdict"} => oper = Now.oper
      /\ magic = "servo" => pc # "boot"
  <2>1. /\ ack \in Nat /\ seq \in Nat /\ req.seq \in Nat
    BY ServiceAssumption DEF LinkInv, IInv, TypeOK
  <2> QED
    BY <2>1, HostTypeStep DEF LinkInv, IInv, SequenceInv, ScriptInv, CoreInv
<1> USE DEF TalkInv, HostType, Commanding, Asking, Latched, CommandOf,
        Processing, Reloading, CommandInv, Driving
<1>1. CASE SeeMagic
  BY <1>0, <1>1 DEF SeeMagic, Return, Begin, Go, NoWrite, CoreSide,
     hostVars, Advance, pageVars, coreVars, timeVars
<1>2. CASE MissMagic
  BY <1>0, <1>2 DEF MissMagic, Return, Begin, Go, NoWrite, CoreSide,
     hostVars, Advance, pageVars, coreVars, timeVars
<1>3. CASE GrantLease
  BY <1>0, <1>3 DEF GrantLease, HostLease, Return, Begin, Go, NoWrite,
     CoreSide, hostVars, Advance, pageVars, coreVars, timeVars
<1>4. CASE WriteCommand
  BY <1>0, <1>4 DEF WriteCommand, HostOp, Return, Begin, Go, NoWrite,
     CoreSide, hostVars, Advance, pageVars, coreVars, timeVars
<1>5. CASE Submit
  BY <1>0, <1>5 DEF Submit, HostSubmit, Return, Begin, Go, NoWrite,
     CoreSide, hostVars, Advance, pageVars, coreVars, timeVars
<1>6. CASE EndPoll
  BY <1>0, <1>6 DEF EndPoll, Return, Begin, Go, NoWrite, CoreSide, hostVars,
     Advance, pageVars, coreVars, timeVars
<1>7. ASSUME ~Scripted, NextGroup
      PROVE  TalkInv'
  BY <1>0, <1>7 DEF NextGroup, Return, Begin, Go, NoWrite, CoreSide,
     hostVars, Advance, pageVars, coreVars, timeVars
<1>8. ASSUME ~Scripted, PrepareSet
      PROVE  TalkInv'
  BY <1>0, <1>8 DEF PrepareSet, Return, Begin, Go, NoWrite, CoreSide,
     hostVars, Advance, pageVars, coreVars, timeVars
<1>9. ASSUME ~Scripted, RefuseSet
      PROVE  TalkInv'
  BY <1>0, <1>9 DEF RefuseSet, Fail, Return, Begin, Go, NoWrite, CoreSide,
     hostVars, Advance, pageVars, coreVars, timeVars
<1>10. ASSUME ~Scripted, SkipCommand
      PROVE  TalkInv'
  BY <1>0, <1>10 DEF SkipCommand, Fail, Return, Begin, Go, NoWrite,
     CoreSide, hostVars, Advance, pageVars, coreVars, timeVars
<1>11. ASSUME ~Scripted, Accept
      PROVE  TalkInv'
  BY <1>0, <1>11 DEF Accept, Answered, Return, Begin, Go, NoWrite, CoreSide,
     hostVars, Advance, pageVars, coreVars, timeVars
<1>12. ASSUME ~Scripted, Reject
      PROVE  TalkInv'
  BY <1>0, <1>12 DEF Reject, Fail, Answered, Return, Begin, Go, NoWrite,
     CoreSide, hostVars, Advance, pageVars, coreVars, timeVars
<1>13. ASSUME ~Scripted, Verify
      PROVE  TalkInv'
  BY <1>0, <1>13 DEF Verify, Return, Begin, Go, NoWrite, CoreSide, hostVars,
     Advance, pageVars, coreVars, timeVars
<1>14. ASSUME ~Scripted, Mismatch
      PROVE  TalkInv'
  BY <1>0, <1>14 DEF Mismatch, Fail, Return, Begin, Go, NoWrite, CoreSide,
     hostVars, Advance, pageVars, coreVars, timeVars
<1>15. ASSUME ~Scripted, Repeat
      PROVE  TalkInv'
  BY <1>0, <1>15 DEF Repeat, Return, Begin, Go, NoWrite, CoreSide, hostVars,
     Advance, pageVars, coreVars, timeVars
<1>16. ASSUME ~Scripted, PauseCancelled
      PROVE  TalkInv'
  BY <1>0, <1>16 DEF PauseCancelled, Return, Begin, Go, NoWrite, CoreSide,
     hostVars, Advance, pageVars, coreVars, timeVars
<1>17. ASSUME ~Scripted, NextStep
      PROVE  TalkInv'
  BY <1>0, <1>17 DEF NextStep, Return, Begin, Go, NoWrite, CoreSide,
     hostVars, Advance, pageVars, coreVars, timeVars
<1>18. ASSUME Scripted, TestPrepare
      PROVE  TalkInv'
  BY <1>0, <1>18 DEF TestPrepare, Return, Begin, Go, NoWrite, CoreSide,
     hostVars, Advance, pageVars, coreVars, timeVars
<1>19. ASSUME Scripted, TestAccept
      PROVE  TalkInv'
  BY <1>0, <1>19 DEF TestAccept, TestAnswered, Return, Begin, Go, NoWrite,
     CoreSide, hostVars, Advance, pageVars, coreVars, timeVars
<1>20. ASSUME Scripted, TestVerify
      PROVE  TalkInv'
  BY <1>0, <1>20 DEF TestVerify, Return, Begin, Go, NoWrite, CoreSide,
     hostVars, Advance, pageVars, coreVars, timeVars
<1>21. ASSUME Scripted, EndWatch
      PROVE  TalkInv'
  BY <1>0, <1>21 DEF EndWatch, Return, Begin, Go, NoWrite, CoreSide,
     hostVars, Advance, pageVars, coreVars, timeVars
<1>22. ASSUME Scripted, TestWatchdog
      PROVE  TalkInv'
  BY <1>0, <1>22 DEF TestWatchdog, WatchdogFired, Return, Begin, Go,
     NoWrite, CoreSide, hostVars, Advance, pageVars, coreVars, timeVars
<1>23. ASSUME Scripted, TestReject
      PROVE  TalkInv'
  BY <1>0, <1>23 DEF TestReject, TestAnswered, Return, Begin, Go, NoWrite,
     CoreSide, hostVars, Advance, pageVars, coreVars, timeVars
<1>24. CASE Cancel
  BY <1>0, <1>24 DEF Cancel, Return, Begin, Go, NoWrite, CoreSide, hostVars,
     Advance, pageVars, coreVars, timeVars
<1>25. ASSUME Boot, UNCHANGED benchVars
      PROVE  TalkInv'
  BY <1>0, <1>25 DEF Boot, benchVars, pageVars, coreVars, timeVars, hostVars
<1>26. ASSUME Sample, UNCHANGED benchVars
      PROVE  TalkInv'
  BY <1>0, <1>26 DEF Sample, benchVars, pageVars, coreVars, timeVars,
     hostVars, Tripping
<1>27. ASSUME TripStop, UNCHANGED benchVars
      PROVE  TalkInv'
  BY <1>0, <1>27 DEF TripStop, benchVars, pageVars, coreVars, timeVars,
     hostVars
<1>28. ASSUME TripMark, UNCHANGED benchVars
      PROVE  TalkInv'
  BY <1>0, <1>28 DEF TripMark, benchVars, pageVars, coreVars, timeVars,
     hostVars
<1>29. ASSUME TripCount, UNCHANGED benchVars
      PROVE  TalkInv'
  BY <1>0, <1>29 DEF TripCount, benchVars, pageVars, coreVars, timeVars,
     hostVars
<1>30. ASSUME Fetch, UNCHANGED benchVars
      PROVE  TalkInv'
  BY <1>0, <1>30 DEF Fetch, benchVars, pageVars, coreVars, timeVars,
     hostVars
<1>31. ASSUME Decode, UNCHANGED benchVars
      PROVE  TalkInv'
  BY <1>0, <1>31 DEF Decode, benchVars, pageVars, coreVars, timeVars,
     hostVars
<1>32. ASSUME Check, UNCHANGED benchVars
      PROVE  TalkInv'
  BY <1>0, <1>32 DEF Check, benchVars, pageVars, coreVars, timeVars,
     hostVars
<1>33. ASSUME InitOutputs, UNCHANGED benchVars
      PROVE  TalkInv'
  BY <1>0, <1>33 DEF InitOutputs, benchVars, pageVars, coreVars, timeVars,
     hostVars
<1>34. ASSUME DriveChannel, UNCHANGED benchVars
      PROVE  TalkInv'
  BY <1>0, <1>34 DEF DriveChannel, benchVars, pageVars, coreVars, timeVars,
     hostVars
<1>35. ASSUME LoadLow, UNCHANGED benchVars
      PROVE  TalkInv'
  BY <1>0, <1>35 DEF LoadLow, benchVars, pageVars, coreVars, timeVars,
     hostVars
<1>36. ASSUME LoadHigh, UNCHANGED benchVars
      PROVE  TalkInv'
  BY <1>0, <1>36 DEF LoadHigh, benchVars, pageVars, coreVars, timeVars,
     hostVars
<1>37. ASSUME StartChannel, UNCHANGED benchVars
      PROVE  TalkInv'
  BY <1>0, <1>37 DEF StartChannel, benchVars, pageVars, coreVars, timeVars,
     hostVars
<1>38. ASSUME DriveDone, UNCHANGED benchVars
      PROVE  TalkInv'
  BY <1>0, <1>38 DEF DriveDone, benchVars, pageVars, coreVars, timeVars,
     hostVars
<1>39. ASSUME DriveFailed, UNCHANGED benchVars
      PROVE  TalkInv'
  BY <1>0, <1>39 DEF DriveFailed, benchVars, pageVars, coreVars, timeVars,
     hostVars
<1>40. ASSUME StopOutputs, UNCHANGED benchVars
      PROVE  TalkInv'
  BY <1>0, <1>40 DEF StopOutputs, benchVars, pageVars, coreVars, timeVars,
     hostVars
<1>41. ASSUME Publish, UNCHANGED benchVars
      PROVE  TalkInv'
  BY <1>0, <1>41 DEF Publish, benchVars, pageVars, coreVars, timeVars,
     hostVars
<1>42. ASSUME Acknowledge, UNCHANGED benchVars
      PROVE  TalkInv'
  BY <1>0, <1>42 DEF Acknowledge, benchVars, pageVars, coreVars, timeVars,
     hostVars
<1>43. ASSUME Trap, UNCHANGED benchVars
      PROVE  TalkInv'
  BY <1>0, <1>43 DEF Trap, benchVars, pageVars, coreVars, timeVars, hostVars
<1>44. CASE TestTick
  BY <1>0, <1>44 DEF TestTick, Tick, benchVars, pageVars, coreVars,
     timeVars, hostVars
<1>45. CASE UNCHANGED linkVars
  BY <1>0, <1>45 DEF linkVars, vars, benchVars, pageVars, coreVars,
     timeVars, hostVars
<1>46. ASSUME ~Scripted, EndHold
      PROVE  TalkInv'
  BY <1>0, <1>46 DEF EndHold, Return, Begin, Go, NoWrite, CoreSide,
     hostVars, Advance, pageVars, coreVars, timeVars
<1> HIDE DEF TalkInv, HostType, Commanding, Asking, Latched, CommandOf,
        Processing, Reloading, CommandInv, Driving
<1> QED
  BY <1>1, <1>2, <1>3, <1>4, <1>5, <1>6, <1>7, <1>8, <1>9, <1>10, <1>11,
     <1>12, <1>13, <1>14, <1>15, <1>16, <1>17, <1>18, <1>19, <1>20, <1>21,
     <1>22, <1>23, <1>24, <1>25, <1>26, <1>27, <1>28, <1>29, <1>30, <1>31,
     <1>32, <1>33, <1>34, <1>35, <1>36, <1>37, <1>38, <1>39, <1>40, <1>41,
     <1>42, <1>43, <1>44, <1>45, <1>46 DEF TestNext, LoaderHost, Host,
     TestHost, CoreStep, Core, Scripted

(* What is driven. *)
LEMMA GroupInvStep ==
  ASSUME LinkInv, [TestNext]_linkVars
  PROVE  GroupInv'
<1>0. /\ GroupInv /\ TalkInv /\ HostType /\ CommandInv /\ OutputInv /\ OutputInv'
      /\ CommandInv' /\ CoreInv
      /\ ack \in Nat /\ seq \in Nat /\ req.seq \in Nat
      /\ ack <= seq /\ (pc \in Processing => ack < req.seq /\ req.seq <= seq)
  <2>1. /\ ack \in Nat /\ seq \in Nat /\ req.seq \in Nat
    BY ServiceAssumption DEF LinkInv, IInv, TypeOK
  <2> QED
    BY <2>1, LinkKeepsIInv DEF LinkInv, IInv, SequenceInv
<1> USE DEF GroupInv, TalkInv, HostType, Commanding, Asking, Latched,
        CommandOf, Processing, Reloading, CommandInv, OutputInv, CoreInv,
        Driving, Off, Group, LastChan, Tripping
<1>1. CASE SeeMagic
  BY <1>0, <1>1 DEF SeeMagic, Return, Begin, Go, NoWrite, CoreSide,
     hostVars, Advance, pageVars, coreVars, timeVars, Enabled, Scripted
<1>2. CASE MissMagic
  BY <1>0, <1>2 DEF MissMagic, Return, Begin, Go, NoWrite, CoreSide,
     hostVars, Advance, pageVars, coreVars, timeVars, Enabled, Scripted
<1>3. CASE GrantLease
  BY <1>0, <1>3 DEF GrantLease, HostLease, Return, Begin, Go, NoWrite,
     CoreSide, hostVars, Advance, pageVars, coreVars, timeVars, Enabled,
     Scripted
<1>4. CASE WriteCommand
  BY <1>0, <1>4 DEF WriteCommand, HostOp, Return, Begin, Go, NoWrite,
     CoreSide, hostVars, Advance, pageVars, coreVars, timeVars, Enabled,
     Scripted
<1>5. CASE Submit
  BY <1>0, <1>5 DEF Submit, HostSubmit, Return, Begin, Go, NoWrite,
     CoreSide, hostVars, Advance, pageVars, coreVars, timeVars, Enabled,
     Scripted
<1>6. CASE EndPoll
  BY <1>0, <1>6 DEF EndPoll, Return, Begin, Go, NoWrite, CoreSide, hostVars,
     Advance, pageVars, coreVars, timeVars, Enabled, Scripted
<1>7. ASSUME ~Scripted, NextGroup
      PROVE  GroupInv'
  BY <1>0, <1>7 DEF NextGroup, Return, Begin, Go, NoWrite, CoreSide,
     hostVars, Advance, pageVars, coreVars, timeVars, Enabled, Scripted
<1>8. ASSUME ~Scripted, PrepareSet
      PROVE  GroupInv'
  BY <1>0, <1>8 DEF PrepareSet, Return, Begin, Go, NoWrite, CoreSide,
     hostVars, Advance, pageVars, coreVars, timeVars, Enabled, Scripted
<1>9. ASSUME ~Scripted, RefuseSet
      PROVE  GroupInv'
  BY <1>0, <1>9 DEF RefuseSet, Fail, Return, Begin, Go, NoWrite, CoreSide,
     hostVars, Advance, pageVars, coreVars, timeVars, Enabled, Scripted
<1>10. ASSUME ~Scripted, SkipCommand
      PROVE  GroupInv'
  BY <1>0, <1>10 DEF SkipCommand, Fail, Return, Begin, Go, NoWrite,
     CoreSide, hostVars, Advance, pageVars, coreVars, timeVars, Enabled,
     Scripted
<1>11. ASSUME ~Scripted, Accept
      PROVE  GroupInv'
  BY <1>0, <1>11 DEF Accept, Answered, Return, Begin, Go, NoWrite, CoreSide,
     hostVars, Advance, pageVars, coreVars, timeVars, Enabled, Scripted
<1>12. ASSUME ~Scripted, Reject
      PROVE  GroupInv'
  BY <1>0, <1>12 DEF Reject, Fail, Answered, Return, Begin, Go, NoWrite,
     CoreSide, hostVars, Advance, pageVars, coreVars, timeVars, Enabled,
     Scripted
<1>13. ASSUME ~Scripted, Verify
      PROVE  GroupInv'
  BY <1>0, <1>13 DEF Verify, Return, Begin, Go, NoWrite, CoreSide, hostVars,
     Advance, pageVars, coreVars, timeVars, Enabled, Scripted
<1>14. ASSUME ~Scripted, Mismatch
      PROVE  GroupInv'
  BY <1>0, <1>14 DEF Mismatch, Fail, Return, Begin, Go, NoWrite, CoreSide,
     hostVars, Advance, pageVars, coreVars, timeVars, Enabled, Scripted
<1>15. ASSUME ~Scripted, Repeat
      PROVE  GroupInv'
  BY <1>0, <1>15 DEF Repeat, Return, Begin, Go, NoWrite, CoreSide, hostVars,
     Advance, pageVars, coreVars, timeVars, Enabled, Scripted
<1>16. ASSUME ~Scripted, PauseCancelled
      PROVE  GroupInv'
  BY <1>0, <1>16 DEF PauseCancelled, Return, Begin, Go, NoWrite, CoreSide,
     hostVars, Advance, pageVars, coreVars, timeVars, Enabled, Scripted
<1>17. ASSUME ~Scripted, NextStep
      PROVE  GroupInv'
  BY <1>0, <1>17 DEF NextStep, Return, Begin, Go, NoWrite, CoreSide,
     hostVars, Advance, pageVars, coreVars, timeVars, Enabled, Scripted
<1>18. ASSUME Scripted, TestPrepare
      PROVE  GroupInv'
  BY <1>0, <1>18 DEF TestPrepare, Return, Begin, Go, NoWrite, CoreSide,
     hostVars, Advance, pageVars, coreVars, timeVars, Enabled, Scripted
<1>19. ASSUME Scripted, TestAccept
      PROVE  GroupInv'
  BY <1>0, <1>19 DEF TestAccept, TestAnswered, Return, Begin, Go, NoWrite,
     CoreSide, hostVars, Advance, pageVars, coreVars, timeVars, Enabled,
     Scripted
<1>20. ASSUME Scripted, TestVerify
      PROVE  GroupInv'
  BY <1>0, <1>20 DEF TestVerify, Return, Begin, Go, NoWrite, CoreSide,
     hostVars, Advance, pageVars, coreVars, timeVars, Enabled, Scripted
<1>21. ASSUME Scripted, EndWatch
      PROVE  GroupInv'
  BY <1>0, <1>21 DEF EndWatch, Return, Begin, Go, NoWrite, CoreSide,
     hostVars, Advance, pageVars, coreVars, timeVars, Enabled, Scripted
<1>22. ASSUME Scripted, TestWatchdog
      PROVE  GroupInv'
  BY <1>0, <1>22 DEF TestWatchdog, WatchdogFired, Return, Begin, Go,
     NoWrite, CoreSide, hostVars, Advance, pageVars, coreVars, timeVars,
     Enabled, Scripted
<1>23. ASSUME Scripted, TestReject
      PROVE  GroupInv'
  BY <1>0, <1>23 DEF TestReject, TestAnswered, Return, Begin, Go, NoWrite,
     CoreSide, hostVars, Advance, pageVars, coreVars, timeVars, Enabled,
     Scripted
<1>24. CASE Cancel
  BY <1>0, <1>24 DEF Cancel, Return, Begin, Go, NoWrite, CoreSide, hostVars,
     Advance, pageVars, coreVars, timeVars, Enabled, Scripted
<1>25. ASSUME Boot, UNCHANGED benchVars
      PROVE  GroupInv'
  BY <1>0, <1>25 DEF Boot, benchVars, pageVars, coreVars, timeVars,
     hostVars, Enabled, Scripted
<1>26. ASSUME Sample, UNCHANGED benchVars
      PROVE  GroupInv'
  BY <1>0, <1>26 DEF Sample, benchVars, pageVars, coreVars, timeVars,
     hostVars, Enabled, Scripted
<1>27. ASSUME TripStop, UNCHANGED benchVars
      PROVE  GroupInv'
  BY <1>0, <1>27 DEF TripStop, benchVars, pageVars, coreVars, timeVars,
     hostVars, Enabled, Scripted
<1>28. ASSUME TripMark, UNCHANGED benchVars
      PROVE  GroupInv'
  BY <1>0, <1>28 DEF TripMark, benchVars, pageVars, coreVars, timeVars,
     hostVars, Enabled, Scripted
<1>29. ASSUME TripCount, UNCHANGED benchVars
      PROVE  GroupInv'
  BY <1>0, <1>29 DEF TripCount, benchVars, pageVars, coreVars, timeVars,
     hostVars, Enabled, Scripted
<1>30. ASSUME Fetch, UNCHANGED benchVars
      PROVE  GroupInv'
  BY <1>0, <1>30 DEF Fetch, benchVars, pageVars, coreVars, timeVars,
     hostVars, Enabled, Scripted
<1>31. ASSUME Decode, UNCHANGED benchVars
      PROVE  GroupInv'
  BY <1>0, <1>31 DEF Decode, benchVars, pageVars, coreVars, timeVars,
     hostVars, Enabled, Scripted
<1>32. ASSUME Check, UNCHANGED benchVars
      PROVE  GroupInv'
  BY <1>0, <1>32 DEF Check, benchVars, pageVars, coreVars, timeVars,
     hostVars, Enabled, Scripted
<1>33. ASSUME InitOutputs, UNCHANGED benchVars
      PROVE  GroupInv'
  BY <1>0, <1>33 DEF InitOutputs, benchVars, pageVars, coreVars, timeVars,
     hostVars, Enabled, Scripted
<1>34. ASSUME DriveChannel, UNCHANGED benchVars
      PROVE  GroupInv'
  BY <1>0, <1>34 DEF DriveChannel, benchVars, pageVars, coreVars, timeVars,
     hostVars, Scripted
<1>35. ASSUME LoadLow, UNCHANGED benchVars
      PROVE  GroupInv'
  BY <1>0, <1>35 DEF LoadLow, benchVars, pageVars, coreVars, timeVars,
     hostVars, Scripted
<1>36. ASSUME LoadHigh, UNCHANGED benchVars
      PROVE  GroupInv'
  BY <1>0, <1>36 DEF LoadHigh, benchVars, pageVars, coreVars, timeVars,
     hostVars, Scripted
<1>37. ASSUME StartChannel, UNCHANGED benchVars
      PROVE  GroupInv'
  BY <1>0, <1>37 DEF StartChannel, benchVars, pageVars, coreVars, timeVars,
     hostVars, Scripted
<1>38. ASSUME DriveDone, UNCHANGED benchVars
      PROVE  GroupInv'
  BY <1>0, <1>38 DEF DriveDone, benchVars, pageVars, coreVars, timeVars,
     hostVars, Enabled, Scripted
<1>39. ASSUME DriveFailed, UNCHANGED benchVars
      PROVE  GroupInv'
  BY <1>0, <1>39 DEF DriveFailed, benchVars, pageVars, coreVars, timeVars,
     hostVars, Enabled, Scripted
<1>40. ASSUME StopOutputs, UNCHANGED benchVars
      PROVE  GroupInv'
  BY <1>0, <1>40 DEF StopOutputs, benchVars, pageVars, coreVars, timeVars,
     hostVars, Enabled, Scripted
<1>41. ASSUME Publish, UNCHANGED benchVars
      PROVE  GroupInv'
  BY <1>0, <1>41 DEF Publish, benchVars, pageVars, coreVars, timeVars,
     hostVars, Enabled, Scripted
<1>42. ASSUME Acknowledge, UNCHANGED benchVars
      PROVE  GroupInv'
  BY <1>0, <1>42 DEF Acknowledge, benchVars, pageVars, coreVars, timeVars,
     hostVars, Enabled, Scripted
<1>43. ASSUME Trap, UNCHANGED benchVars
      PROVE  GroupInv'
  BY <1>0, <1>43 DEF Trap, benchVars, pageVars, coreVars, timeVars,
     hostVars, Enabled, Scripted
<1>44. CASE TestTick
  BY <1>0, <1>44 DEF TestTick, Tick, benchVars, pageVars, coreVars,
     timeVars, hostVars, Enabled, Scripted
<1>45. CASE UNCHANGED linkVars
  BY <1>0, <1>45 DEF linkVars, vars, benchVars, pageVars, coreVars,
     timeVars, hostVars, Enabled, Scripted
<1>46. ASSUME ~Scripted, EndHold
      PROVE  GroupInv'
  BY <1>0, <1>46 DEF EndHold, Return, Begin, Go, NoWrite, CoreSide,
     hostVars, Advance, pageVars, coreVars, timeVars, Enabled, Scripted
<1> HIDE DEF GroupInv, TalkInv, HostType, Commanding, Asking, Latched,
        CommandOf, Processing, Reloading, CommandInv, OutputInv, CoreInv,
        Driving, Off, Group, LastChan, Tripping
<1> QED
  BY <1>1, <1>2, <1>3, <1>4, <1>5, <1>6, <1>7, <1>8, <1>9, <1>10, <1>11,
     <1>12, <1>13, <1>14, <1>15, <1>16, <1>17, <1>18, <1>19, <1>20, <1>21,
     <1>22, <1>23, <1>24, <1>25, <1>26, <1>27, <1>28, <1>29, <1>30, <1>31,
     <1>32, <1>33, <1>34, <1>35, <1>36, <1>37, <1>38, <1>39, <1>40, <1>41,
     <1>42, <1>43, <1>44, <1>45, <1>46 DEF TestNext, LoaderHost, Host,
     TestHost, CoreStep, Core, Scripted

(* What was checked stays. *)
LEMMA KeepInvStep ==
  ASSUME LinkInv, [TestNext]_linkVars
  PROVE  KeepInv'
<1>0. /\ KeepInv /\ HostType /\ Selected \subseteq Channels /\ trips \in Nat
      /\ hpc = "keep" => ack = seq
      /\ pc \in Processing => ack # seq
      /\ hpc = "keep" => pc # "boot" /\ pc # "parked"
      /\ ~Scripted /\ hpc = "verify" /\ oper = "set" => Group # {}
  <2>1. /\ ack \in Nat /\ seq \in Nat /\ req.seq \in Nat /\ trips \in Nat
        /\ pc \in Processing => ack < req.seq /\ req.seq <= seq
    BY ServiceAssumption DEF LinkInv, IInv, TypeOK, SequenceInv
  <2> QED
    BY <2>1, LinkAssumption DEF LinkInv, TalkInv, GroupInv, Commanding, Asking
<1> USE DEF KeepInv, HostType, Commanding, Processing, Reloading, Tripping,
        Scripted
<1>1. CASE SeeMagic
  BY <1>0, <1>1 DEF SeeMagic, Return, Begin, Go, NoWrite, CoreSide,
     hostVars, Advance, pageVars, coreVars, timeVars, Group, Enabled, Pulse
<1>2. CASE MissMagic
  BY <1>0, <1>2 DEF MissMagic, Return, Begin, Go, NoWrite, CoreSide,
     hostVars, Advance, pageVars, coreVars, timeVars, Group, Enabled, Pulse
<1>3. CASE GrantLease
  BY <1>0, <1>3 DEF GrantLease, HostLease, Return, Begin, Go, NoWrite,
     CoreSide, hostVars, Advance, pageVars, coreVars, timeVars, Group,
     Enabled, Pulse
<1>4. CASE WriteCommand
  BY <1>0, <1>4 DEF WriteCommand, HostOp, Return, Begin, Go, NoWrite,
     CoreSide, hostVars, Advance, pageVars, coreVars, timeVars, Group,
     Enabled, Pulse
<1>5. CASE Submit
  BY <1>0, <1>5 DEF Submit, HostSubmit, Return, Begin, Go, NoWrite,
     CoreSide, hostVars, Advance, pageVars, coreVars, timeVars, Group,
     Enabled, Pulse
<1>6. CASE EndPoll
  BY <1>0, <1>6 DEF EndPoll, Return, Begin, Go, NoWrite, CoreSide, hostVars,
     Advance, pageVars, coreVars, timeVars, Group, Enabled, Pulse
<1>7. ASSUME ~Scripted, NextGroup
      PROVE  KeepInv'
  BY <1>0, <1>7 DEF NextGroup, Return, Begin, Go, NoWrite, CoreSide,
     hostVars, Advance, pageVars, coreVars, timeVars, Group, Enabled, Pulse
<1>8. ASSUME ~Scripted, PrepareSet
      PROVE  KeepInv'
  BY <1>0, <1>8 DEF PrepareSet, Return, Begin, Go, NoWrite, CoreSide,
     hostVars, Advance, pageVars, coreVars, timeVars, Group, Enabled, Pulse
<1>9. ASSUME ~Scripted, RefuseSet
      PROVE  KeepInv'
  BY <1>0, <1>9 DEF RefuseSet, Fail, Return, Begin, Go, NoWrite, CoreSide,
     hostVars, Advance, pageVars, coreVars, timeVars, Group, Enabled, Pulse
<1>10. ASSUME ~Scripted, SkipCommand
      PROVE  KeepInv'
  BY <1>0, <1>10 DEF SkipCommand, Fail, Return, Begin, Go, NoWrite,
     CoreSide, hostVars, Advance, pageVars, coreVars, timeVars, Group,
     Enabled, Pulse
<1>11. ASSUME ~Scripted, Accept
      PROVE  KeepInv'
  BY <1>0, <1>11 DEF Accept, Answered, Return, Begin, Go, NoWrite, CoreSide,
     hostVars, Advance, pageVars, coreVars, timeVars, Group, Enabled, Pulse
<1>12. ASSUME ~Scripted, Reject
      PROVE  KeepInv'
  BY <1>0, <1>12 DEF Reject, Fail, Answered, Return, Begin, Go, NoWrite,
     CoreSide, hostVars, Advance, pageVars, coreVars, timeVars, Group,
     Enabled, Pulse
<1>13. ASSUME ~Scripted, Verify
      PROVE  KeepInv'
  <2>1. UNCHANGED CoreSide /\ UNCHANGED benchMode /\ hpc = "verify" /\ Verified
    BY <1>13 DEF Verify, NoWrite, Return, Go
  <2>2. hpc' = "keep" => oper = "set" /\ UNCHANGED <<chan, step>>
    BY <1>13 DEF Verify, Return, Go
  <2>3. ASSUME hpc' = "keep"
        PROVE  /\ Enabled = Group /\ Group # {}
               /\ \A c \in Enabled : Running(pwm[c], Pulse)
    <3>1. \A c \in Channels : ChannelVerified(c)
      BY <2>1, <2>2, <2>3 DEF Verified
    <3>2. Group \subseteq Channels
      BY <1>0 DEF Group
    <3>3. \A c \in Channels :
            IF c \in Group THEN pwm[c].en /\ Running(pwm[c], Pulse) ELSE ~pwm[c].en
      BY <3>1 DEF ChannelVerified, Running
    <3> QED
      BY <1>0, <1>13, <2>1, <2>2, <2>3, <3>2, <3>3 DEF Enabled
  <2>4. ASSUME hpc' = "keep"
        PROVE  /\ UNCHANGED <<Enabled, pwm, Group, Pulse>>
    BY <2>1, <2>2, <2>4 DEF CoreSide, Enabled, Group, Pulse
  <2> QED
    BY <2>3, <2>4
<1>14. ASSUME ~Scripted, Mismatch
      PROVE  KeepInv'
  BY <1>0, <1>14 DEF Mismatch, Fail, Return, Begin, Go, NoWrite, CoreSide,
     hostVars, Advance, pageVars, coreVars, timeVars, Group, Enabled, Pulse
<1>15. ASSUME ~Scripted, Repeat
      PROVE  KeepInv'
  BY <1>0, <1>15 DEF Repeat, Return, Begin, Go, NoWrite, CoreSide, hostVars,
     Advance, pageVars, coreVars, timeVars, Group, Enabled, Pulse
<1>16. ASSUME ~Scripted, PauseCancelled
      PROVE  KeepInv'
  BY <1>0, <1>16 DEF PauseCancelled, Return, Begin, Go, NoWrite, CoreSide,
     hostVars, Advance, pageVars, coreVars, timeVars, Group, Enabled, Pulse
<1>17. ASSUME ~Scripted, NextStep
      PROVE  KeepInv'
  BY <1>0, <1>17 DEF NextStep, Return, Begin, Go, NoWrite, CoreSide,
     hostVars, Advance, pageVars, coreVars, timeVars, Group, Enabled, Pulse
<1>18. ASSUME Scripted, TestPrepare
      PROVE  KeepInv'
  BY <1>0, <1>18 DEF TestPrepare, Return, Begin, Go, NoWrite, CoreSide,
     hostVars, Advance, pageVars, coreVars, timeVars, Group, Enabled, Pulse
<1>19. ASSUME Scripted, TestAccept
      PROVE  KeepInv'
  BY <1>0, <1>19 DEF TestAccept, TestAnswered, Return, Begin, Go, NoWrite,
     CoreSide, hostVars, Advance, pageVars, coreVars, timeVars, Group,
     Enabled, Pulse
<1>20. ASSUME Scripted, TestVerify
      PROVE  KeepInv'
  BY <1>0, <1>20 DEF TestVerify, Return, Begin, Go, NoWrite, CoreSide,
     hostVars, Advance, pageVars, coreVars, timeVars, Group, Enabled, Pulse
<1>21. ASSUME Scripted, EndWatch
      PROVE  KeepInv'
  BY <1>0, <1>21 DEF EndWatch, Return, Begin, Go, NoWrite, CoreSide,
     hostVars, Advance, pageVars, coreVars, timeVars, Group, Enabled, Pulse
<1>22. ASSUME Scripted, TestWatchdog
      PROVE  KeepInv'
  BY <1>0, <1>22 DEF TestWatchdog, WatchdogFired, Return, Begin, Go,
     NoWrite, CoreSide, hostVars, Advance, pageVars, coreVars, timeVars,
     Group, Enabled, Pulse
<1>23. ASSUME Scripted, TestReject
      PROVE  KeepInv'
  BY <1>0, <1>23 DEF TestReject, TestAnswered, Return, Begin, Go, NoWrite,
     CoreSide, hostVars, Advance, pageVars, coreVars, timeVars, Group,
     Enabled, Pulse
<1>24. CASE Cancel
  BY <1>0, <1>24 DEF Cancel, Return, Begin, Go, NoWrite, CoreSide, hostVars,
     Advance, pageVars, coreVars, timeVars, Group, Enabled, Pulse
<1>25. ASSUME Boot, UNCHANGED benchVars
      PROVE  KeepInv'
  BY <1>0, <1>25 DEF Boot, benchVars, pageVars, coreVars, timeVars,
     hostVars, Group, Enabled, Pulse
<1>26. ASSUME Sample, UNCHANGED benchVars
      PROVE  KeepInv'
  BY <1>0, <1>26 DEF Sample, benchVars, pageVars, coreVars, timeVars,
     hostVars, Group, Enabled, Pulse
<1>27. ASSUME TripStop, UNCHANGED benchVars
      PROVE  KeepInv'
  <2>1. Enabled' = {} /\ pc' = "tripMark"
    BY <1>27, StopAll DEF TripStop, LinkInv, IInv
  <2> QED
    BY <2>1
<1>28. ASSUME TripMark, UNCHANGED benchVars
      PROVE  KeepInv'
  BY <1>0, <1>28 DEF TripMark, benchVars, pageVars, coreVars, timeVars,
     hostVars, Group, Enabled, Pulse
<1>29. ASSUME TripCount, UNCHANGED benchVars
      PROVE  KeepInv'
  BY <1>0, <1>29 DEF TripCount, benchVars, pageVars, coreVars, timeVars,
     hostVars, Group, Enabled, Pulse
<1>30. ASSUME Fetch, UNCHANGED benchVars
      PROVE  KeepInv'
  BY <1>0, <1>30 DEF Fetch, benchVars, pageVars, coreVars, timeVars,
     hostVars, Group, Enabled, Pulse
<1>31. ASSUME Decode, UNCHANGED benchVars
      PROVE  KeepInv'
  BY <1>0, <1>31 DEF Decode, benchVars, pageVars, coreVars, timeVars,
     hostVars, Group, Enabled, Pulse
<1>32. ASSUME Check, UNCHANGED benchVars
      PROVE  KeepInv'
  BY <1>0, <1>32 DEF Check, benchVars, pageVars, coreVars, timeVars,
     hostVars, Group, Enabled, Pulse
<1>33. ASSUME InitOutputs, UNCHANGED benchVars
      PROVE  KeepInv'
  BY <1>0, <1>33 DEF InitOutputs, benchVars, pageVars, coreVars, timeVars,
     hostVars, Group, Enabled, Pulse
<1>34. ASSUME DriveChannel, UNCHANGED benchVars
      PROVE  KeepInv'
  BY <1>0, <1>34 DEF DriveChannel, benchVars, pageVars, coreVars, timeVars,
     hostVars, Group, Enabled, Pulse
<1>35. ASSUME LoadLow, UNCHANGED benchVars
      PROVE  KeepInv'
  BY <1>0, <1>35 DEF LoadLow, benchVars, pageVars, coreVars, timeVars,
     hostVars, Group, Enabled, Pulse
<1>36. ASSUME LoadHigh, UNCHANGED benchVars
      PROVE  KeepInv'
  BY <1>0, <1>36 DEF LoadHigh, benchVars, pageVars, coreVars, timeVars,
     hostVars, Group, Enabled, Pulse
<1>37. ASSUME StartChannel, UNCHANGED benchVars
      PROVE  KeepInv'
  BY <1>0, <1>37 DEF StartChannel, benchVars, pageVars, coreVars, timeVars,
     hostVars, Group, Enabled, Pulse
<1>38. ASSUME DriveDone, UNCHANGED benchVars
      PROVE  KeepInv'
  BY <1>0, <1>38 DEF DriveDone, benchVars, pageVars, coreVars, timeVars,
     hostVars, Group, Enabled, Pulse
<1>39. ASSUME DriveFailed, UNCHANGED benchVars
      PROVE  KeepInv'
  BY <1>0, <1>39 DEF DriveFailed, benchVars, pageVars, coreVars, timeVars,
     hostVars, Group, Enabled, Pulse
<1>40. ASSUME StopOutputs, UNCHANGED benchVars
      PROVE  KeepInv'
  BY <1>0, <1>40 DEF StopOutputs, benchVars, pageVars, coreVars, timeVars,
     hostVars, Group, Enabled, Pulse
<1>41. ASSUME Publish, UNCHANGED benchVars
      PROVE  KeepInv'
  BY <1>0, <1>41 DEF Publish, benchVars, pageVars, coreVars, timeVars,
     hostVars, Group, Enabled, Pulse
<1>42. ASSUME Acknowledge, UNCHANGED benchVars
      PROVE  KeepInv'
  BY <1>0, <1>42 DEF Acknowledge, benchVars, pageVars, coreVars, timeVars,
     hostVars, Group, Enabled, Pulse
<1>43. ASSUME Trap, UNCHANGED benchVars
      PROVE  KeepInv'
  BY <1>0, <1>43 DEF Trap, benchVars, pageVars, coreVars, timeVars,
     hostVars, Group, Enabled, Pulse
<1>44. CASE TestTick
  BY <1>0, <1>44 DEF TestTick, Tick, benchVars, pageVars, coreVars,
     timeVars, hostVars, Group, Enabled, Pulse
<1>45. CASE UNCHANGED linkVars
  BY <1>0, <1>45 DEF linkVars, vars, benchVars, pageVars, coreVars,
     timeVars, hostVars, Group, Enabled, Pulse
<1>46. ASSUME ~Scripted, EndHold
      PROVE  KeepInv'
  BY <1>0, <1>46 DEF EndHold, Return, Begin, Go, NoWrite, CoreSide,
     hostVars, Advance, pageVars, coreVars, timeVars, Group, Enabled, Pulse
<1> HIDE DEF KeepInv, HostType, Commanding, Processing, Reloading, Tripping,
        Scripted
<1> QED
  BY <1>1, <1>2, <1>3, <1>4, <1>5, <1>6, <1>7, <1>8, <1>9, <1>10, <1>11,
     <1>12, <1>13, <1>14, <1>15, <1>16, <1>17, <1>18, <1>19, <1>20, <1>21,
     <1>22, <1>23, <1>24, <1>25, <1>26, <1>27, <1>28, <1>29, <1>30, <1>31,
     <1>32, <1>33, <1>34, <1>35, <1>36, <1>37, <1>38, <1>39, <1>40, <1>41,
     <1>42, <1>43, <1>44, <1>45, <1>46 DEF TestNext, LoaderHost, Host,
     TestHost, CoreStep, Core, Scripted

(* How long the host has waited. *)
LEMMA PatienceInvStep ==
  ASSUME LinkInv, PatienceInv, 2 * MaxLoop < Patience, [TestNext]_linkVars
  PROVE  PatienceInv'
<1>0. /\ PatienceInv /\ TalkInv /\ HostType /\ MaxLoop \in Nat /\ Patience \in Nat
      /\ 2 * MaxLoop < Patience /\ elapsed \in Nat /\ elapsed <= MaxLoop
      /\ ack \in Nat /\ seq \in Nat /\ req.seq \in Nat /\ waited \in Nat
      /\ ack <= seq /\ (pc \in Processing => ack < req.seq /\ req.seq <= seq)
  <2>1. /\ ack \in Nat /\ seq \in Nat /\ req.seq \in Nat /\ elapsed \in 0 .. MaxLoop
    BY ServiceAssumption DEF LinkInv, IInv, TypeOK
  <2> QED
    BY <2>1, ServiceAssumption, LinkAssumption
       DEF LinkInv, IInv, SequenceInv, HostType
<1> USE DEF PatienceInv, TalkInv, HostType, Commanding, Asking, Processing,
        Reloading, Tripping, Halted, Min
<1>1. CASE SeeMagic
  BY <1>0, <1>1 DEF SeeMagic, Return, Begin, Go, NoWrite, CoreSide,
     hostVars, Advance, pageVars, coreVars, timeVars
<1>2. CASE MissMagic
  BY <1>0, <1>2 DEF MissMagic, Return, Begin, Go, NoWrite, CoreSide,
     hostVars, Advance, pageVars, coreVars, timeVars
<1>3. CASE GrantLease
  BY <1>0, <1>3 DEF GrantLease, HostLease, Return, Begin, Go, NoWrite,
     CoreSide, hostVars, Advance, pageVars, coreVars, timeVars
<1>4. CASE WriteCommand
  BY <1>0, <1>4 DEF WriteCommand, HostOp, Return, Begin, Go, NoWrite,
     CoreSide, hostVars, Advance, pageVars, coreVars, timeVars
<1>5. CASE Submit
  BY <1>0, <1>5 DEF Submit, HostSubmit, Return, Begin, Go, NoWrite,
     CoreSide, hostVars, Advance, pageVars, coreVars, timeVars
<1>6. CASE EndPoll
  BY <1>0, <1>6 DEF EndPoll, Return, Begin, Go, NoWrite, CoreSide, hostVars,
     Advance, pageVars, coreVars, timeVars
<1>7. ASSUME ~Scripted, NextGroup
      PROVE  PatienceInv'
  BY <1>0, <1>7 DEF NextGroup, Return, Begin, Go, NoWrite, CoreSide,
     hostVars, Advance, pageVars, coreVars, timeVars
<1>8. ASSUME ~Scripted, PrepareSet
      PROVE  PatienceInv'
  BY <1>0, <1>8 DEF PrepareSet, Return, Begin, Go, NoWrite, CoreSide,
     hostVars, Advance, pageVars, coreVars, timeVars
<1>9. ASSUME ~Scripted, RefuseSet
      PROVE  PatienceInv'
  BY <1>0, <1>9 DEF RefuseSet, Fail, Return, Begin, Go, NoWrite, CoreSide,
     hostVars, Advance, pageVars, coreVars, timeVars
<1>10. ASSUME ~Scripted, SkipCommand
      PROVE  PatienceInv'
  BY <1>0, <1>10 DEF SkipCommand, Fail, Return, Begin, Go, NoWrite,
     CoreSide, hostVars, Advance, pageVars, coreVars, timeVars
<1>11. ASSUME ~Scripted, Accept
      PROVE  PatienceInv'
  BY <1>0, <1>11 DEF Accept, Answered, Return, Begin, Go, NoWrite, CoreSide,
     hostVars, Advance, pageVars, coreVars, timeVars
<1>12. ASSUME ~Scripted, Reject
      PROVE  PatienceInv'
  BY <1>0, <1>12 DEF Reject, Fail, Answered, Return, Begin, Go, NoWrite,
     CoreSide, hostVars, Advance, pageVars, coreVars, timeVars
<1>13. ASSUME ~Scripted, Verify
      PROVE  PatienceInv'
  BY <1>0, <1>13 DEF Verify, Return, Begin, Go, NoWrite, CoreSide, hostVars,
     Advance, pageVars, coreVars, timeVars
<1>14. ASSUME ~Scripted, Mismatch
      PROVE  PatienceInv'
  BY <1>0, <1>14 DEF Mismatch, Fail, Return, Begin, Go, NoWrite, CoreSide,
     hostVars, Advance, pageVars, coreVars, timeVars
<1>15. ASSUME ~Scripted, Repeat
      PROVE  PatienceInv'
  BY <1>0, <1>15 DEF Repeat, Return, Begin, Go, NoWrite, CoreSide, hostVars,
     Advance, pageVars, coreVars, timeVars
<1>16. ASSUME ~Scripted, PauseCancelled
      PROVE  PatienceInv'
  BY <1>0, <1>16 DEF PauseCancelled, Return, Begin, Go, NoWrite, CoreSide,
     hostVars, Advance, pageVars, coreVars, timeVars
<1>17. ASSUME ~Scripted, NextStep
      PROVE  PatienceInv'
  BY <1>0, <1>17 DEF NextStep, Return, Begin, Go, NoWrite, CoreSide,
     hostVars, Advance, pageVars, coreVars, timeVars
<1>18. ASSUME Scripted, TestPrepare
      PROVE  PatienceInv'
  BY <1>0, <1>18 DEF TestPrepare, Return, Begin, Go, NoWrite, CoreSide,
     hostVars, Advance, pageVars, coreVars, timeVars
<1>19. ASSUME Scripted, TestAccept
      PROVE  PatienceInv'
  BY <1>0, <1>19 DEF TestAccept, TestAnswered, Return, Begin, Go, NoWrite,
     CoreSide, hostVars, Advance, pageVars, coreVars, timeVars
<1>20. ASSUME Scripted, TestVerify
      PROVE  PatienceInv'
  BY <1>0, <1>20 DEF TestVerify, Return, Begin, Go, NoWrite, CoreSide,
     hostVars, Advance, pageVars, coreVars, timeVars
<1>21. ASSUME Scripted, EndWatch
      PROVE  PatienceInv'
  BY <1>0, <1>21 DEF EndWatch, Return, Begin, Go, NoWrite, CoreSide,
     hostVars, Advance, pageVars, coreVars, timeVars
<1>22. ASSUME Scripted, TestWatchdog
      PROVE  PatienceInv'
  BY <1>0, <1>22 DEF TestWatchdog, WatchdogFired, Return, Begin, Go,
     NoWrite, CoreSide, hostVars, Advance, pageVars, coreVars, timeVars
<1>23. ASSUME Scripted, TestReject
      PROVE  PatienceInv'
  BY <1>0, <1>23 DEF TestReject, TestAnswered, Return, Begin, Go, NoWrite,
     CoreSide, hostVars, Advance, pageVars, coreVars, timeVars
<1>24. CASE Cancel
  BY <1>0, <1>24 DEF Cancel, Return, Begin, Go, NoWrite, CoreSide, hostVars,
     Advance, pageVars, coreVars, timeVars
<1>25. ASSUME Boot, UNCHANGED benchVars
      PROVE  PatienceInv'
  BY <1>0, <1>25 DEF Boot, benchVars, pageVars, coreVars, timeVars, hostVars
<1>26. ASSUME Sample, UNCHANGED benchVars
      PROVE  PatienceInv'
  BY <1>0, <1>26 DEF Sample, benchVars, pageVars, coreVars, timeVars,
     hostVars
<1>27. ASSUME TripStop, UNCHANGED benchVars
      PROVE  PatienceInv'
  BY <1>0, <1>27 DEF TripStop, benchVars, pageVars, coreVars, timeVars,
     hostVars
<1>28. ASSUME TripMark, UNCHANGED benchVars
      PROVE  PatienceInv'
  BY <1>0, <1>28 DEF TripMark, benchVars, pageVars, coreVars, timeVars,
     hostVars
<1>29. ASSUME TripCount, UNCHANGED benchVars
      PROVE  PatienceInv'
  BY <1>0, <1>29 DEF TripCount, benchVars, pageVars, coreVars, timeVars,
     hostVars
<1>30. ASSUME Fetch, UNCHANGED benchVars
      PROVE  PatienceInv'
  BY <1>0, <1>30 DEF Fetch, benchVars, pageVars, coreVars, timeVars,
     hostVars
<1>31. ASSUME Decode, UNCHANGED benchVars
      PROVE  PatienceInv'
  BY <1>0, <1>31 DEF Decode, benchVars, pageVars, coreVars, timeVars,
     hostVars
<1>32. ASSUME Check, UNCHANGED benchVars
      PROVE  PatienceInv'
  BY <1>0, <1>32 DEF Check, benchVars, pageVars, coreVars, timeVars,
     hostVars
<1>33. ASSUME InitOutputs, UNCHANGED benchVars
      PROVE  PatienceInv'
  BY <1>0, <1>33 DEF InitOutputs, benchVars, pageVars, coreVars, timeVars,
     hostVars
<1>34. ASSUME DriveChannel, UNCHANGED benchVars
      PROVE  PatienceInv'
  BY <1>0, <1>34 DEF DriveChannel, benchVars, pageVars, coreVars, timeVars,
     hostVars
<1>35. ASSUME LoadLow, UNCHANGED benchVars
      PROVE  PatienceInv'
  BY <1>0, <1>35 DEF LoadLow, benchVars, pageVars, coreVars, timeVars,
     hostVars
<1>36. ASSUME LoadHigh, UNCHANGED benchVars
      PROVE  PatienceInv'
  BY <1>0, <1>36 DEF LoadHigh, benchVars, pageVars, coreVars, timeVars,
     hostVars
<1>37. ASSUME StartChannel, UNCHANGED benchVars
      PROVE  PatienceInv'
  BY <1>0, <1>37 DEF StartChannel, benchVars, pageVars, coreVars, timeVars,
     hostVars
<1>38. ASSUME DriveDone, UNCHANGED benchVars
      PROVE  PatienceInv'
  BY <1>0, <1>38 DEF DriveDone, benchVars, pageVars, coreVars, timeVars,
     hostVars
<1>39. ASSUME DriveFailed, UNCHANGED benchVars
      PROVE  PatienceInv'
  BY <1>0, <1>39 DEF DriveFailed, benchVars, pageVars, coreVars, timeVars,
     hostVars
<1>40. ASSUME StopOutputs, UNCHANGED benchVars
      PROVE  PatienceInv'
  BY <1>0, <1>40 DEF StopOutputs, benchVars, pageVars, coreVars, timeVars,
     hostVars
<1>41. ASSUME Publish, UNCHANGED benchVars
      PROVE  PatienceInv'
  BY <1>0, <1>41 DEF Publish, benchVars, pageVars, coreVars, timeVars,
     hostVars
<1>42. ASSUME Acknowledge, UNCHANGED benchVars
      PROVE  PatienceInv'
  BY <1>0, <1>42 DEF Acknowledge, benchVars, pageVars, coreVars, timeVars,
     hostVars
<1>43. ASSUME Trap, UNCHANGED benchVars
      PROVE  PatienceInv'
  BY <1>0, <1>43 DEF Trap, benchVars, pageVars, coreVars, timeVars, hostVars
<1>44. CASE TestTick
  <2>1. /\ UNCHANGED <<hpc, cancelled, ack, seq>> /\ pc' = pc
        /\ pc \notin Halted => elapsed' = elapsed + 1
    BY <1>44 DEF TestTick, Tick, pageVars, hostVars
  <2>2. hpc = "poll" => waited' <= waited + 1 /\ waited' \in Nat
    <3>1. waited \in Nat /\ Patience \in Nat
      BY <1>0
    <3>2. hpc = "poll" => waited' = Min(waited + 1, Patience)
      BY <1>44 DEF TestTick
    <3> QED
      BY <3>1, <3>2
  <2>3. hpc = "poll" /\ ack # seq /\ pc # "trapped" => pc \notin Halted
    BY <1>0
  <2>4. hpc = "poll" /\ ack # seq /\ pc # "trapped" =>
          /\ seq' = ack' + 1 /\ waited' <= MaxLoop + elapsed'
          /\ pc = "sample" => waited' <= elapsed'
    BY <1>0, <2>1, <2>2, <2>3
  <2> QED
    BY <1>0, <2>1, <2>4
<1>45. CASE UNCHANGED linkVars
  BY <1>0, <1>45 DEF linkVars, vars, benchVars, pageVars, coreVars,
     timeVars, hostVars
<1>46. ASSUME ~Scripted, EndHold
      PROVE  PatienceInv'
  BY <1>0, <1>46 DEF EndHold, Return, Begin, Go, NoWrite, CoreSide,
     hostVars, Advance, pageVars, coreVars, timeVars
<1> HIDE DEF PatienceInv, TalkInv, HostType, Commanding, Asking, Processing,
        Reloading, Tripping, Halted, Min
<1> QED
  BY <1>1, <1>2, <1>3, <1>4, <1>5, <1>6, <1>7, <1>8, <1>9, <1>10, <1>11,
     <1>12, <1>13, <1>14, <1>15, <1>16, <1>17, <1>18, <1>19, <1>20, <1>21,
     <1>22, <1>23, <1>24, <1>25, <1>26, <1>27, <1>28, <1>29, <1>30, <1>31,
     <1>32, <1>33, <1>34, <1>35, <1>36, <1>37, <1>38, <1>39, <1>40, <1>41,
     <1>42, <1>43, <1>44, <1>45, <1>46 DEF TestNext, LoaderHost, Host,
     TestHost, CoreStep, Core, Scripted

(* The self-test, line by line. *)
LEMMA ScriptInvStep ==
  ASSUME LinkInv, [TestNext]_linkVars
  PROVE  ScriptInv'
<1>0. /\ ScriptInv /\ TalkInv /\ HostType /\ HostType' /\ CoreInv /\ CommandInv
      /\ trips \in Nat /\ ack \in Nat /\ seq \in Nat
      /\ ack <= seq /\ (pc \in Processing => ack # seq)
      /\ Scripted /\ step > SilenceLine => Now.oper \in {"status", "park"}
      /\ Scripted => (Now.check = "watch" <=> step = SilenceLine)
      /\ mode = "driving" <=> active # {}
      /\ pc = "tripCount" => active = {} /\ shownActive = {}
      /\ SilenceLine \in Nat
  <2>1. /\ ack \in Nat /\ seq \in Nat /\ req.seq \in Nat /\ trips \in Nat
        /\ pc \in Processing => ack < req.seq /\ req.seq <= seq
    BY ServiceAssumption DEF LinkInv, IInv, TypeOK, SequenceInv
  <2>2. Scripted => step \in 1 .. Len(Script)
    BY DEF LinkInv, HostType
  <2>3. SilenceLine \in Nat
    BY ScriptLines DEF SilenceLine
  <2> QED
    BY <2>1, <2>2, <2>3, ScriptLines, HostTypeStep
       DEF LinkInv, IInv, SequenceInv, OutputInv, PublishInv, Driving,
       Reloading, Now
<1> USE DEF ScriptInv, TalkInv, HostType, Commanding, Asking, Latched,
        CommandOf, CommandInv, Processing, Reloading, Tripping, Driving,
        Guarded, Fired, CoreInv
<1>1. CASE SeeMagic
  BY <1>0, <1>1 DEF SeeMagic, Return, Begin, Go, NoWrite, CoreSide,
     hostVars, Advance, pageVars, coreVars, timeVars, Scripted, Now
<1>2. CASE MissMagic
  BY <1>0, <1>2 DEF MissMagic, Return, Begin, Go, NoWrite, CoreSide,
     hostVars, Advance, pageVars, coreVars, timeVars, Scripted, Now
<1>3. CASE GrantLease
  BY <1>0, <1>3 DEF GrantLease, HostLease, Return, Begin, Go, NoWrite,
     CoreSide, hostVars, Advance, pageVars, coreVars, timeVars, Scripted,
     Now
<1>4. CASE WriteCommand
  BY <1>0, <1>4 DEF WriteCommand, HostOp, Return, Begin, Go, NoWrite,
     CoreSide, hostVars, Advance, pageVars, coreVars, timeVars, Scripted,
     Now
<1>5. CASE Submit
  BY <1>0, <1>5 DEF Submit, HostSubmit, Return, Begin, Go, NoWrite,
     CoreSide, hostVars, Advance, pageVars, coreVars, timeVars, Scripted,
     Now
<1>6. CASE EndPoll
  BY <1>0, <1>6 DEF EndPoll, Return, Begin, Go, NoWrite, CoreSide, hostVars,
     Advance, pageVars, coreVars, timeVars, Scripted, Now
<1>7. ASSUME ~Scripted, NextGroup
      PROVE  ScriptInv'
  BY <1>0, <1>7 DEF NextGroup, Return, Begin, Go, NoWrite, CoreSide,
     hostVars, Advance, pageVars, coreVars, timeVars, Scripted, Now
<1>8. ASSUME ~Scripted, PrepareSet
      PROVE  ScriptInv'
  BY <1>0, <1>8 DEF PrepareSet, Return, Begin, Go, NoWrite, CoreSide,
     hostVars, Advance, pageVars, coreVars, timeVars, Scripted, Now
<1>9. ASSUME ~Scripted, RefuseSet
      PROVE  ScriptInv'
  BY <1>0, <1>9 DEF RefuseSet, Fail, Return, Begin, Go, NoWrite, CoreSide,
     hostVars, Advance, pageVars, coreVars, timeVars, Scripted, Now
<1>10. ASSUME ~Scripted, SkipCommand
      PROVE  ScriptInv'
  BY <1>0, <1>10 DEF SkipCommand, Fail, Return, Begin, Go, NoWrite,
     CoreSide, hostVars, Advance, pageVars, coreVars, timeVars, Scripted,
     Now
<1>11. ASSUME ~Scripted, Accept
      PROVE  ScriptInv'
  BY <1>0, <1>11 DEF Accept, Answered, Return, Begin, Go, NoWrite, CoreSide,
     hostVars, Advance, pageVars, coreVars, timeVars, Scripted, Now
<1>12. ASSUME ~Scripted, Reject
      PROVE  ScriptInv'
  BY <1>0, <1>12 DEF Reject, Fail, Answered, Return, Begin, Go, NoWrite,
     CoreSide, hostVars, Advance, pageVars, coreVars, timeVars, Scripted,
     Now
<1>13. ASSUME ~Scripted, Verify
      PROVE  ScriptInv'
  BY <1>0, <1>13 DEF Verify, Return, Begin, Go, NoWrite, CoreSide, hostVars,
     Advance, pageVars, coreVars, timeVars, Scripted, Now
<1>14. ASSUME ~Scripted, Mismatch
      PROVE  ScriptInv'
  BY <1>0, <1>14 DEF Mismatch, Fail, Return, Begin, Go, NoWrite, CoreSide,
     hostVars, Advance, pageVars, coreVars, timeVars, Scripted, Now
<1>15. ASSUME ~Scripted, Repeat
      PROVE  ScriptInv'
  BY <1>0, <1>15 DEF Repeat, Return, Begin, Go, NoWrite, CoreSide, hostVars,
     Advance, pageVars, coreVars, timeVars, Scripted, Now
<1>16. ASSUME ~Scripted, PauseCancelled
      PROVE  ScriptInv'
  BY <1>0, <1>16 DEF PauseCancelled, Return, Begin, Go, NoWrite, CoreSide,
     hostVars, Advance, pageVars, coreVars, timeVars, Scripted, Now
<1>17. ASSUME ~Scripted, NextStep
      PROVE  ScriptInv'
  BY <1>0, <1>17 DEF NextStep, Return, Begin, Go, NoWrite, CoreSide,
     hostVars, Advance, pageVars, coreVars, timeVars, Scripted, Now
<1>18. ASSUME Scripted, TestPrepare
      PROVE  ScriptInv'
  BY <1>0, <1>18 DEF TestPrepare, Return, Begin, Go, NoWrite, CoreSide,
     hostVars, Advance, pageVars, coreVars, timeVars, Scripted, Now
<1>19. ASSUME Scripted, TestAccept
      PROVE  ScriptInv'
  <2>1. /\ hpc = "judge" /\ ack = seq /\ UNCHANGED CoreSide /\ UNCHANGED hostVars
        /\ UNCHANGED <<oper, benchMode>>
    BY <1>19 DEF TestAccept, TestAnswered, Return, Advance, Go, NoWrite
  <2>2. /\ step \in Nat /\ step' \in {step, step + 1}
        /\ step' # step => hpc' = "group" /\ step # SilenceLine
    <3>1. step \in Nat
      BY <1>19, ScriptLines DEF LinkInv, Scripted
    <3>2. \/ hpc' # "group" /\ step' = step
          \/ hpc' = "group" /\ step' = step + 1 /\ Now.check = "none"
      BY <1>19 DEF TestAccept, Return, Advance, Go
    <3>3. Now.check = "none" => step # SilenceLine
      BY <1>0, <1>19 DEF Scripted
    <3> QED
      BY <3>1, <3>2, <3>3
  <2>3. /\ hpc' \in {"group", "verify", "returned"}
        /\ hpc' = "verify" => step' = step
    BY <1>19 DEF TestAccept, Return, Advance, Go
  <2>4. step' > SilenceLine => step > SilenceLine
    BY <1>0, <2>2
  <2>5. Scripted' /\ SilenceLine' = SilenceLine
    BY <2>1, <1>19 DEF Scripted, SilenceLine
  <2>6. step > SilenceLine =>
          (/\ active = {} /\ trips \in {1, 2}
           /\ pc = "tripCount" => trips = 1
           /\ ack # seq => op # "set" /\ ~(Latched /\ req.cmd = "set"))'
    BY <1>0, <2>1, <1>19 DEF CoreSide, hostVars, pageVars, coreVars
  <2>7. hpc' = "verify" => oper' = Now'.oper
    BY <1>0, <2>1, <2>3, <1>19 DEF Now
  <2> QED
    BY <2>3, <2>4, <2>5, <2>6, <2>7
<1>20. ASSUME Scripted, TestVerify
      PROVE  ScriptInv'
  <2>1. /\ hpc = "verify" /\ oper = Now.oper /\ ReadBack /\ UNCHANGED NoWrite
        /\ ack = seq
        /\ pc \in {"sample", "fetch", "trip", "tripMark", "tripCount", "trapped"}
    <3>1. pc \in PCs
      BY DEF LinkInv, IInv, TypeOK
    <3> QED
      BY <1>0, <3>1, <1>20 DEF TestVerify, PCs, Halted, Scripted
  <2>2. CASE Now.check = "watch"
    <3>1. Lone \in Channels /\ shown[Lone].en
      BY <2>1, <2>2, SelfTestAssumption DEF ReadBack
    <3>2. initialized
      BY <1>0, <3>1
    <3>3. pc \in {"sample", "fetch"} => Lone \in active
      <4>1. pc \in {"sample", "fetch"} => shown = pwm /\ Enabled = active
        BY <3>2 DEF LinkInv, IInv, PublishInv, OutputInv
      <4> QED
        BY <3>1, <4>1 DEF Enabled
    <3>4. Guarded \/ Fired \/ pc = "trapped"
      BY <1>0, <2>1, <3>3
    <3>5. /\ hpc' = "watch" /\ UNCHANGED <<step, oper, benchMode>>
      BY <1>20, <2>2 DEF TestVerify
    <3>6. step = SilenceLine
      BY <1>0, <2>2, <1>20
    <3>7. (Guarded \/ Fired \/ pc = "trapped")'
      BY <2>1, <3>4 DEF NoWrite, CoreSide, pageVars, coreVars
    <3>8. SilenceLine' = SilenceLine /\ ~(SilenceLine > SilenceLine)
      BY <1>0 DEF SilenceLine
    <3> QED
      BY <2>1, <3>5, <3>6, <3>7, <3>8 DEF Now, Scripted
  <2>3. CASE Now.check # "watch"
    <3>1. step # SilenceLine
      BY <1>0, <2>3, <1>20
    <3>2. step \in Nat
      BY <1>20, ScriptLines DEF LinkInv, Scripted
    <3>3. /\ hpc' = "group" /\ step' = step + 1 /\ UNCHANGED NoWrite
      BY <1>20, <2>3 DEF TestVerify, Advance
    <3>4. step' > SilenceLine => step > SilenceLine
      BY <1>0, <3>1, <3>2, <3>3
    <3> QED
      BY <1>0, <1>20, <3>3, <3>4
         DEF NoWrite, CoreSide, hostVars, pageVars, coreVars, Scripted
  <2> QED
    BY <2>2, <2>3
<1>21. ASSUME Scripted, EndWatch
      PROVE  ScriptInv'
  BY <1>0, <1>21 DEF EndWatch, Return, Begin, Go, NoWrite, CoreSide,
     hostVars, Advance, pageVars, coreVars, timeVars, Scripted, Now
<1>22. ASSUME Scripted, TestWatchdog
      PROVE  ScriptInv'
  BY <1>0, <1>22 DEF TestWatchdog, WatchdogFired, Return, Begin, Go,
     NoWrite, CoreSide, hostVars, Advance, pageVars, coreVars, timeVars,
     Scripted, Now
<1>23. ASSUME Scripted, TestReject
      PROVE  ScriptInv'
  BY <1>0, <1>23 DEF TestReject, TestAnswered, Return, Begin, Go, NoWrite,
     CoreSide, hostVars, Advance, pageVars, coreVars, timeVars, Scripted,
     Now
<1>24. CASE Cancel
  BY <1>0, <1>24 DEF Cancel, Return, Begin, Go, NoWrite, CoreSide, hostVars,
     Advance, pageVars, coreVars, timeVars, Scripted, Now
<1>25. ASSUME Boot, UNCHANGED benchVars
      PROVE  ScriptInv'
  BY <1>0, <1>25 DEF Boot, benchVars, pageVars, coreVars, timeVars,
     hostVars, Scripted, Now
<1>26. ASSUME Sample, UNCHANGED benchVars
      PROVE  ScriptInv'
  BY <1>0, <1>26 DEF Sample, benchVars, pageVars, coreVars, timeVars,
     hostVars, Scripted, Now
<1>27. ASSUME TripStop, UNCHANGED benchVars
      PROVE  ScriptInv'
  BY <1>0, <1>27 DEF TripStop, benchVars, pageVars, coreVars, timeVars,
     hostVars, Scripted, Now
<1>28. ASSUME TripMark, UNCHANGED benchVars
      PROVE  ScriptInv'
  BY <1>0, <1>28 DEF TripMark, benchVars, pageVars, coreVars, timeVars,
     hostVars, Scripted, Now
<1>29. ASSUME TripCount, UNCHANGED benchVars
      PROVE  ScriptInv'
  BY <1>0, <1>29 DEF TripCount, benchVars, pageVars, coreVars, timeVars,
     hostVars, Scripted, Now
<1>30. ASSUME Fetch, UNCHANGED benchVars
      PROVE  ScriptInv'
  BY <1>0, <1>30 DEF Fetch, benchVars, pageVars, coreVars, timeVars,
     hostVars, Scripted, Now
<1>31. ASSUME Decode, UNCHANGED benchVars
      PROVE  ScriptInv'
  BY <1>0, <1>31 DEF Decode, benchVars, pageVars, coreVars, timeVars,
     hostVars, Scripted, Now
<1>32. ASSUME Check, UNCHANGED benchVars
      PROVE  ScriptInv'
  BY <1>0, <1>32 DEF Check, benchVars, pageVars, coreVars, timeVars,
     hostVars, Scripted, Now
<1>33. ASSUME InitOutputs, UNCHANGED benchVars
      PROVE  ScriptInv'
  BY <1>0, <1>33 DEF InitOutputs, benchVars, pageVars, coreVars, timeVars,
     hostVars, Scripted, Now
<1>34. ASSUME DriveChannel, UNCHANGED benchVars
      PROVE  ScriptInv'
  BY <1>0, <1>34 DEF DriveChannel, benchVars, pageVars, coreVars, timeVars,
     hostVars, Scripted, Now
<1>35. ASSUME LoadLow, UNCHANGED benchVars
      PROVE  ScriptInv'
  BY <1>0, <1>35 DEF LoadLow, benchVars, pageVars, coreVars, timeVars,
     hostVars, Scripted, Now
<1>36. ASSUME LoadHigh, UNCHANGED benchVars
      PROVE  ScriptInv'
  BY <1>0, <1>36 DEF LoadHigh, benchVars, pageVars, coreVars, timeVars,
     hostVars, Scripted, Now
<1>37. ASSUME StartChannel, UNCHANGED benchVars
      PROVE  ScriptInv'
  BY <1>0, <1>37 DEF StartChannel, benchVars, pageVars, coreVars, timeVars,
     hostVars, Scripted, Now
<1>38. ASSUME DriveDone, UNCHANGED benchVars
      PROVE  ScriptInv'
  BY <1>0, <1>38 DEF DriveDone, benchVars, pageVars, coreVars, timeVars,
     hostVars, Scripted, Now
<1>39. ASSUME DriveFailed, UNCHANGED benchVars
      PROVE  ScriptInv'
  BY <1>0, <1>39 DEF DriveFailed, benchVars, pageVars, coreVars, timeVars,
     hostVars, Scripted, Now
<1>40. ASSUME StopOutputs, UNCHANGED benchVars
      PROVE  ScriptInv'
  BY <1>0, <1>40 DEF StopOutputs, benchVars, pageVars, coreVars, timeVars,
     hostVars, Scripted, Now
<1>41. ASSUME Publish, UNCHANGED benchVars
      PROVE  ScriptInv'
  BY <1>0, <1>41 DEF Publish, benchVars, pageVars, coreVars, timeVars,
     hostVars, Scripted, Now
<1>42. ASSUME Acknowledge, UNCHANGED benchVars
      PROVE  ScriptInv'
  BY <1>0, <1>42 DEF Acknowledge, benchVars, pageVars, coreVars, timeVars,
     hostVars, Scripted, Now
<1>43. ASSUME Trap, UNCHANGED benchVars
      PROVE  ScriptInv'
  BY <1>0, <1>43 DEF Trap, benchVars, pageVars, coreVars, timeVars,
     hostVars, Scripted, Now
<1>44. CASE TestTick
  BY <1>0, <1>44 DEF TestTick, Tick, benchVars, pageVars, coreVars,
     timeVars, hostVars, Scripted, Now
<1>45. CASE UNCHANGED linkVars
  BY <1>0, <1>45 DEF linkVars, vars, benchVars, pageVars, coreVars,
     timeVars, hostVars, Scripted, Now
<1>46. ASSUME ~Scripted, EndHold
      PROVE  ScriptInv'
  BY <1>0, <1>46 DEF EndHold, Return, Begin, Go, NoWrite, CoreSide,
     hostVars, Advance, pageVars, coreVars, timeVars, Scripted, Now
<1> HIDE DEF ScriptInv, TalkInv, HostType, Commanding, Asking, Latched,
        CommandOf, CommandInv, Processing, Reloading, Tripping, Driving,
        Guarded, Fired, CoreInv
<1> QED
  BY <1>1, <1>2, <1>3, <1>4, <1>5, <1>6, <1>7, <1>8, <1>9, <1>10, <1>11,
     <1>12, <1>13, <1>14, <1>15, <1>16, <1>17, <1>18, <1>19, <1>20, <1>21,
     <1>22, <1>23, <1>24, <1>25, <1>26, <1>27, <1>28, <1>29, <1>30, <1>31,
     <1>32, <1>33, <1>34, <1>35, <1>36, <1>37, <1>38, <1>39, <1>40, <1>41,
     <1>42, <1>43, <1>44, <1>45, <1>46 DEF TestNext, LoaderHost, Host,
     TestHost, CoreStep, Core, Scripted

(* How long the silence is. *)
LEMMA SilenceInvStep ==
  ASSUME LinkInv, SilenceInv, Timeout - 1 + 2 * MaxLoop < WatchPatience,
         [TestNext]_linkVars
  PROVE  SilenceInv'
<1>0. /\ SilenceInv /\ ScriptInv /\ HostType /\ HostType' /\ CoreInv /\ TimeInv
      /\ Timeout \in Nat \ {0} /\ MaxLoop \in Nat /\ WatchPatience \in Nat
      /\ Timeout - 1 + 2 * MaxLoop < WatchPatience /\ AgeCap = Timeout + 2 * MaxLoop
      /\ elapsed \in Nat /\ elapsed <= MaxLoop /\ age \in Nat /\ age <= AgeCap
      /\ waited \in Nat /\ trips \in Nat /\ (pc \in Processing => ack # seq)
      /\ hpc \in {"watch", "verdict"} => ack = seq /\ pc # "boot" /\ pc # "parked"
  <2>1. /\ ack \in Nat /\ seq \in Nat /\ req.seq \in Nat /\ trips \in Nat
        /\ elapsed \in 0 .. MaxLoop /\ age \in 0 .. AgeCap
        /\ pc \in Processing => ack < req.seq /\ req.seq <= seq
    BY ServiceAssumption DEF LinkInv, IInv, TypeOK, SequenceInv
  <2>2. /\ SilenceInv /\ ScriptInv /\ HostType /\ CoreInv /\ TimeInv /\ TalkInv
    BY DEF LinkInv, IInv
  <2>3. /\ Timeout \in Nat \ {0} /\ MaxLoop \in Nat /\ WatchPatience \in Nat
        /\ AgeCap = Timeout + 2 * MaxLoop /\ AgeCap \in Nat
    BY ServiceAssumption, SelfTestAssumption DEF AgeCap
  <2>4. elapsed \in Nat /\ elapsed <= MaxLoop /\ age \in Nat /\ age <= AgeCap
    BY <2>1, <2>3
  <2>5. hpc \in {"watch", "verdict"} => ack = seq /\ pc # "boot" /\ pc # "parked"
    BY <2>2 DEF TalkInv, Asking
  <2>6. waited \in Nat
    BY <2>2 DEF HostType
  <2> QED
    BY <2>1, <2>2, <2>3, <2>4, <2>5, <2>6, HostTypeStep
<1> USE DEF SilenceInv, ScriptInv, HostType, Commanding, Processing,
        Reloading, Tripping, Halted, TimeInv, Guarded, Fired, CoreInv, Min
<1>1. CASE SeeMagic
  BY <1>0, <1>1 DEF SeeMagic, Return, Begin, Go, NoWrite, CoreSide,
     hostVars, Advance, pageVars, coreVars, timeVars, Scripted
<1>2. CASE MissMagic
  BY <1>0, <1>2 DEF MissMagic, Return, Begin, Go, NoWrite, CoreSide,
     hostVars, Advance, pageVars, coreVars, timeVars, Scripted
<1>3. CASE GrantLease
  BY <1>0, <1>3 DEF GrantLease, HostLease, Return, Begin, Go, NoWrite,
     CoreSide, hostVars, Advance, pageVars, coreVars, timeVars, Scripted
<1>4. CASE WriteCommand
  BY <1>0, <1>4 DEF WriteCommand, HostOp, Return, Begin, Go, NoWrite,
     CoreSide, hostVars, Advance, pageVars, coreVars, timeVars, Scripted
<1>5. CASE Submit
  BY <1>0, <1>5 DEF Submit, HostSubmit, Return, Begin, Go, NoWrite,
     CoreSide, hostVars, Advance, pageVars, coreVars, timeVars, Scripted
<1>6. CASE EndPoll
  BY <1>0, <1>6 DEF EndPoll, Return, Begin, Go, NoWrite, CoreSide, hostVars,
     Advance, pageVars, coreVars, timeVars, Scripted
<1>7. ASSUME ~Scripted, NextGroup
      PROVE  SilenceInv'
  BY <1>0, <1>7 DEF NextGroup, Return, Begin, Go, NoWrite, CoreSide,
     hostVars, Advance, pageVars, coreVars, timeVars, Scripted
<1>8. ASSUME ~Scripted, PrepareSet
      PROVE  SilenceInv'
  BY <1>0, <1>8 DEF PrepareSet, Return, Begin, Go, NoWrite, CoreSide,
     hostVars, Advance, pageVars, coreVars, timeVars, Scripted
<1>9. ASSUME ~Scripted, RefuseSet
      PROVE  SilenceInv'
  BY <1>0, <1>9 DEF RefuseSet, Fail, Return, Begin, Go, NoWrite, CoreSide,
     hostVars, Advance, pageVars, coreVars, timeVars, Scripted
<1>10. ASSUME ~Scripted, SkipCommand
      PROVE  SilenceInv'
  BY <1>0, <1>10 DEF SkipCommand, Fail, Return, Begin, Go, NoWrite,
     CoreSide, hostVars, Advance, pageVars, coreVars, timeVars, Scripted
<1>11. ASSUME ~Scripted, Accept
      PROVE  SilenceInv'
  BY <1>0, <1>11 DEF Accept, Answered, Return, Begin, Go, NoWrite, CoreSide,
     hostVars, Advance, pageVars, coreVars, timeVars, Scripted
<1>12. ASSUME ~Scripted, Reject
      PROVE  SilenceInv'
  BY <1>0, <1>12 DEF Reject, Fail, Answered, Return, Begin, Go, NoWrite,
     CoreSide, hostVars, Advance, pageVars, coreVars, timeVars, Scripted
<1>13. ASSUME ~Scripted, Verify
      PROVE  SilenceInv'
  BY <1>0, <1>13 DEF Verify, Return, Begin, Go, NoWrite, CoreSide, hostVars,
     Advance, pageVars, coreVars, timeVars, Scripted
<1>14. ASSUME ~Scripted, Mismatch
      PROVE  SilenceInv'
  BY <1>0, <1>14 DEF Mismatch, Fail, Return, Begin, Go, NoWrite, CoreSide,
     hostVars, Advance, pageVars, coreVars, timeVars, Scripted
<1>15. ASSUME ~Scripted, Repeat
      PROVE  SilenceInv'
  BY <1>0, <1>15 DEF Repeat, Return, Begin, Go, NoWrite, CoreSide, hostVars,
     Advance, pageVars, coreVars, timeVars, Scripted
<1>16. ASSUME ~Scripted, PauseCancelled
      PROVE  SilenceInv'
  BY <1>0, <1>16 DEF PauseCancelled, Return, Begin, Go, NoWrite, CoreSide,
     hostVars, Advance, pageVars, coreVars, timeVars, Scripted
<1>17. ASSUME ~Scripted, NextStep
      PROVE  SilenceInv'
  BY <1>0, <1>17 DEF NextStep, Return, Begin, Go, NoWrite, CoreSide,
     hostVars, Advance, pageVars, coreVars, timeVars, Scripted
<1>18. ASSUME Scripted, TestPrepare
      PROVE  SilenceInv'
  BY <1>0, <1>18 DEF TestPrepare, Return, Begin, Go, NoWrite, CoreSide,
     hostVars, Advance, pageVars, coreVars, timeVars, Scripted
<1>19. ASSUME Scripted, TestAccept
      PROVE  SilenceInv'
  BY <1>0, <1>19 DEF TestAccept, TestAnswered, Return, Begin, Go, NoWrite,
     CoreSide, hostVars, Advance, pageVars, coreVars, timeVars, Scripted
<1>20. ASSUME Scripted, TestVerify
      PROVE  SilenceInv'
  BY <1>0, <1>20 DEF TestVerify, Return, Begin, Go, NoWrite, CoreSide,
     hostVars, Advance, pageVars, coreVars, timeVars, Scripted
<1>21. ASSUME Scripted, EndWatch
      PROVE  SilenceInv'
  BY <1>0, <1>21 DEF EndWatch, Return, Begin, Go, NoWrite, CoreSide,
     hostVars, Advance, pageVars, coreVars, timeVars, Scripted
<1>22. ASSUME Scripted, TestWatchdog
      PROVE  SilenceInv'
  BY <1>0, <1>22 DEF TestWatchdog, WatchdogFired, Return, Begin, Go,
     NoWrite, CoreSide, hostVars, Advance, pageVars, coreVars, timeVars,
     Scripted
<1>23. ASSUME Scripted, TestReject
      PROVE  SilenceInv'
  BY <1>0, <1>23 DEF TestReject, TestAnswered, Return, Begin, Go, NoWrite,
     CoreSide, hostVars, Advance, pageVars, coreVars, timeVars, Scripted
<1>24. CASE Cancel
  BY <1>0, <1>24 DEF Cancel, Return, Begin, Go, NoWrite, CoreSide, hostVars,
     Advance, pageVars, coreVars, timeVars, Scripted
<1>25. ASSUME Boot, UNCHANGED benchVars
      PROVE  SilenceInv'
  BY <1>0, <1>25 DEF Boot, benchVars, pageVars, coreVars, timeVars,
     hostVars, Scripted
<1>26. ASSUME Sample, UNCHANGED benchVars
      PROVE  SilenceInv'
  BY <1>0, <1>26 DEF Sample, benchVars, pageVars, coreVars, timeVars,
     hostVars, Scripted
<1>27. ASSUME TripStop, UNCHANGED benchVars
      PROVE  SilenceInv'
  BY <1>0, <1>27 DEF TripStop, benchVars, pageVars, coreVars, timeVars,
     hostVars, Scripted
<1>28. ASSUME TripMark, UNCHANGED benchVars
      PROVE  SilenceInv'
  BY <1>0, <1>28 DEF TripMark, benchVars, pageVars, coreVars, timeVars,
     hostVars, Scripted
<1>29. ASSUME TripCount, UNCHANGED benchVars
      PROVE  SilenceInv'
  BY <1>0, <1>29 DEF TripCount, benchVars, pageVars, coreVars, timeVars,
     hostVars, Scripted
<1>30. ASSUME Fetch, UNCHANGED benchVars
      PROVE  SilenceInv'
  BY <1>0, <1>30 DEF Fetch, benchVars, pageVars, coreVars, timeVars,
     hostVars, Scripted
<1>31. ASSUME Decode, UNCHANGED benchVars
      PROVE  SilenceInv'
  BY <1>0, <1>31 DEF Decode, benchVars, pageVars, coreVars, timeVars,
     hostVars, Scripted
<1>32. ASSUME Check, UNCHANGED benchVars
      PROVE  SilenceInv'
  BY <1>0, <1>32 DEF Check, benchVars, pageVars, coreVars, timeVars,
     hostVars, Scripted
<1>33. ASSUME InitOutputs, UNCHANGED benchVars
      PROVE  SilenceInv'
  BY <1>0, <1>33 DEF InitOutputs, benchVars, pageVars, coreVars, timeVars,
     hostVars, Scripted
<1>34. ASSUME DriveChannel, UNCHANGED benchVars
      PROVE  SilenceInv'
  BY <1>0, <1>34 DEF DriveChannel, benchVars, pageVars, coreVars, timeVars,
     hostVars, Scripted
<1>35. ASSUME LoadLow, UNCHANGED benchVars
      PROVE  SilenceInv'
  BY <1>0, <1>35 DEF LoadLow, benchVars, pageVars, coreVars, timeVars,
     hostVars, Scripted
<1>36. ASSUME LoadHigh, UNCHANGED benchVars
      PROVE  SilenceInv'
  BY <1>0, <1>36 DEF LoadHigh, benchVars, pageVars, coreVars, timeVars,
     hostVars, Scripted
<1>37. ASSUME StartChannel, UNCHANGED benchVars
      PROVE  SilenceInv'
  BY <1>0, <1>37 DEF StartChannel, benchVars, pageVars, coreVars, timeVars,
     hostVars, Scripted
<1>38. ASSUME DriveDone, UNCHANGED benchVars
      PROVE  SilenceInv'
  BY <1>0, <1>38 DEF DriveDone, benchVars, pageVars, coreVars, timeVars,
     hostVars, Scripted
<1>39. ASSUME DriveFailed, UNCHANGED benchVars
      PROVE  SilenceInv'
  BY <1>0, <1>39 DEF DriveFailed, benchVars, pageVars, coreVars, timeVars,
     hostVars, Scripted
<1>40. ASSUME StopOutputs, UNCHANGED benchVars
      PROVE  SilenceInv'
  BY <1>0, <1>40 DEF StopOutputs, benchVars, pageVars, coreVars, timeVars,
     hostVars, Scripted
<1>41. ASSUME Publish, UNCHANGED benchVars
      PROVE  SilenceInv'
  BY <1>0, <1>41 DEF Publish, benchVars, pageVars, coreVars, timeVars,
     hostVars, Scripted
<1>42. ASSUME Acknowledge, UNCHANGED benchVars
      PROVE  SilenceInv'
  BY <1>0, <1>42 DEF Acknowledge, benchVars, pageVars, coreVars, timeVars,
     hostVars, Scripted
<1>43. ASSUME Trap, UNCHANGED benchVars
      PROVE  SilenceInv'
  BY <1>0, <1>43 DEF Trap, benchVars, pageVars, coreVars, timeVars,
     hostVars, Scripted
<1>44. CASE TestTick
  <2>1. /\ UNCHANGED <<hpc, cancelled, benchMode, active, mode, shownActive, trips>>
        /\ pc' = pc /\ age' = Min(age + 1, AgeCap)
    BY <1>44 DEF TestTick, Tick, pageVars, coreVars
  <2>2. hpc = "watch" => waited' = Min(waited + 1, WatchPatience)
    BY <1>44 DEF TestTick
  <2>3. Scripted /\ hpc = "watch" /\ Guarded => age < AgeCap
    <3>1. Scripted /\ hpc = "watch" /\ Guarded =>
            age <= Timeout - 1 + elapsed \/ age <= Timeout - 1 + MaxLoop + elapsed
      BY <1>0
    <3> QED
      BY <1>0, <3>1
  <2>4. Scripted /\ hpc = "watch" /\ Guarded => waited' <= age'
    BY <1>0, <2>1, <2>2, <2>3
  <2> QED
    BY <1>0, <2>1, <2>4 DEF Scripted
<1>45. CASE UNCHANGED linkVars
  BY <1>0, <1>45 DEF linkVars, vars, benchVars, pageVars, coreVars,
     timeVars, hostVars, Scripted
<1>46. ASSUME ~Scripted, EndHold
      PROVE  SilenceInv'
  BY <1>0, <1>46 DEF EndHold, Return, Begin, Go, NoWrite, CoreSide,
     hostVars, Advance, pageVars, coreVars, timeVars, Scripted
<1> HIDE DEF SilenceInv, ScriptInv, HostType, Commanding, Processing,
        Reloading, Tripping, Halted, TimeInv, Guarded, Fired, CoreInv, Min
<1> QED
  BY <1>1, <1>2, <1>3, <1>4, <1>5, <1>6, <1>7, <1>8, <1>9, <1>10, <1>11,
     <1>12, <1>13, <1>14, <1>15, <1>16, <1>17, <1>18, <1>19, <1>20, <1>21,
     <1>22, <1>23, <1>24, <1>25, <1>26, <1>27, <1>28, <1>29, <1>30, <1>31,
     <1>32, <1>33, <1>34, <1>35, <1>36, <1>37, <1>38, <1>39, <1>40, <1>41,
     <1>42, <1>43, <1>44, <1>45, <1>46 DEF TestNext, LoaderHost, Host,
     TestHost, CoreStep, Core, Scripted

(* What the result says. *)
LEMMA PassInvStep ==
  ASSUME LinkInv, [TestNext]_linkVars
  PROVE  PassInv'
<1>0. /\ PassInv /\ HostType /\ HostType' /\ SilenceLine \in Nat
      /\ magic = "servo" => pc # "trapped"
      /\ hpc = "judge" /\ oper = "park" /\ ack = seq => pc \in {"parked", "trapped"}
      /\ pc = "parked" => Enabled = {}
      /\ Scripted /\ Now.oper = "park" => step > SilenceLine
      /\ Scripted /\ hpc = "judge" => oper = Now.oper
  <2>1. SilenceLine \in Nat /\ Len(Script) > SilenceLine
    BY ScriptLines DEF SilenceLine
  <2>2. Scripted /\ Now.oper = "park" => step = Len(Script)
    BY ScriptLines DEF LinkInv, HostType, Now
  <2>3. pc = "parked" => Enabled = {}
    BY DEF LinkInv, IInv, OutputInv, CommandInv, Driving, Reloading
  <2> QED
    BY <2>1, <2>2, <2>3, HostTypeStep
       DEF LinkInv, CoreInv, TalkInv, Asking, ScriptInv, Commanding
<1> USE DEF PassInv, HostType, Commanding
<1>1. CASE SeeMagic
  BY <1>0, <1>1 DEF SeeMagic, Return, Begin, Go, NoWrite, CoreSide,
     hostVars, Advance, pageVars, coreVars, timeVars, Scripted, Enabled
<1>2. CASE MissMagic
  BY <1>0, <1>2 DEF MissMagic, Return, Begin, Go, NoWrite, CoreSide,
     hostVars, Advance, pageVars, coreVars, timeVars, Scripted, Enabled
<1>3. CASE GrantLease
  BY <1>0, <1>3 DEF GrantLease, HostLease, Return, Begin, Go, NoWrite,
     CoreSide, hostVars, Advance, pageVars, coreVars, timeVars, Scripted,
     Enabled
<1>4. CASE WriteCommand
  BY <1>0, <1>4 DEF WriteCommand, HostOp, Return, Begin, Go, NoWrite,
     CoreSide, hostVars, Advance, pageVars, coreVars, timeVars, Scripted,
     Enabled
<1>5. CASE Submit
  BY <1>0, <1>5 DEF Submit, HostSubmit, Return, Begin, Go, NoWrite,
     CoreSide, hostVars, Advance, pageVars, coreVars, timeVars, Scripted,
     Enabled
<1>6. CASE EndPoll
  BY <1>0, <1>6 DEF EndPoll, Return, Begin, Go, NoWrite, CoreSide, hostVars,
     Advance, pageVars, coreVars, timeVars, Scripted, Enabled
<1>7. ASSUME ~Scripted, NextGroup
      PROVE  PassInv'
  BY <1>0, <1>7 DEF NextGroup, Return, Begin, Go, NoWrite, CoreSide,
     hostVars, Advance, pageVars, coreVars, timeVars, Scripted, Enabled
<1>8. ASSUME ~Scripted, PrepareSet
      PROVE  PassInv'
  BY <1>0, <1>8 DEF PrepareSet, Return, Begin, Go, NoWrite, CoreSide,
     hostVars, Advance, pageVars, coreVars, timeVars, Scripted, Enabled
<1>9. ASSUME ~Scripted, RefuseSet
      PROVE  PassInv'
  BY <1>0, <1>9 DEF RefuseSet, Fail, Return, Begin, Go, NoWrite, CoreSide,
     hostVars, Advance, pageVars, coreVars, timeVars, Scripted, Enabled
<1>10. ASSUME ~Scripted, SkipCommand
      PROVE  PassInv'
  BY <1>0, <1>10 DEF SkipCommand, Fail, Return, Begin, Go, NoWrite,
     CoreSide, hostVars, Advance, pageVars, coreVars, timeVars, Scripted,
     Enabled
<1>11. ASSUME ~Scripted, Accept
      PROVE  PassInv'
  BY <1>0, <1>11 DEF Accept, Answered, Return, Begin, Go, NoWrite, CoreSide,
     hostVars, Advance, pageVars, coreVars, timeVars, Scripted, Enabled
<1>12. ASSUME ~Scripted, Reject
      PROVE  PassInv'
  BY <1>0, <1>12 DEF Reject, Fail, Answered, Return, Begin, Go, NoWrite,
     CoreSide, hostVars, Advance, pageVars, coreVars, timeVars, Scripted,
     Enabled
<1>13. ASSUME ~Scripted, Verify
      PROVE  PassInv'
  BY <1>0, <1>13 DEF Verify, Return, Begin, Go, NoWrite, CoreSide, hostVars,
     Advance, pageVars, coreVars, timeVars, Scripted, Enabled
<1>14. ASSUME ~Scripted, Mismatch
      PROVE  PassInv'
  BY <1>0, <1>14 DEF Mismatch, Fail, Return, Begin, Go, NoWrite, CoreSide,
     hostVars, Advance, pageVars, coreVars, timeVars, Scripted, Enabled
<1>15. ASSUME ~Scripted, Repeat
      PROVE  PassInv'
  BY <1>0, <1>15 DEF Repeat, Return, Begin, Go, NoWrite, CoreSide, hostVars,
     Advance, pageVars, coreVars, timeVars, Scripted, Enabled
<1>16. ASSUME ~Scripted, PauseCancelled
      PROVE  PassInv'
  BY <1>0, <1>16 DEF PauseCancelled, Return, Begin, Go, NoWrite, CoreSide,
     hostVars, Advance, pageVars, coreVars, timeVars, Scripted, Enabled
<1>17. ASSUME ~Scripted, NextStep
      PROVE  PassInv'
  BY <1>0, <1>17 DEF NextStep, Return, Begin, Go, NoWrite, CoreSide,
     hostVars, Advance, pageVars, coreVars, timeVars, Scripted, Enabled
<1>18. ASSUME Scripted, TestPrepare
      PROVE  PassInv'
  BY <1>0, <1>18 DEF TestPrepare, Return, Begin, Go, NoWrite, CoreSide,
     hostVars, Advance, pageVars, coreVars, timeVars, Scripted, Enabled
<1>19. ASSUME Scripted, TestAccept
      PROVE  PassInv'
  BY <1>0, <1>19 DEF TestAccept, TestAnswered, Return, Begin, Go, NoWrite,
     CoreSide, hostVars, Advance, pageVars, coreVars, timeVars, Scripted,
     Enabled
<1>20. ASSUME Scripted, TestVerify
      PROVE  PassInv'
  BY <1>0, <1>20 DEF TestVerify, Return, Begin, Go, NoWrite, CoreSide,
     hostVars, Advance, pageVars, coreVars, timeVars, Scripted, Enabled
<1>21. ASSUME Scripted, EndWatch
      PROVE  PassInv'
  BY <1>0, <1>21 DEF EndWatch, Return, Begin, Go, NoWrite, CoreSide,
     hostVars, Advance, pageVars, coreVars, timeVars, Scripted, Enabled
<1>22. ASSUME Scripted, TestWatchdog
      PROVE  PassInv'
  BY <1>0, <1>22 DEF TestWatchdog, WatchdogFired, Return, Begin, Go,
     NoWrite, CoreSide, hostVars, Advance, pageVars, coreVars, timeVars,
     Scripted, Enabled
<1>23. ASSUME Scripted, TestReject
      PROVE  PassInv'
  BY <1>0, <1>23 DEF TestReject, TestAnswered, Return, Begin, Go, NoWrite,
     CoreSide, hostVars, Advance, pageVars, coreVars, timeVars, Scripted,
     Enabled
<1>24. CASE Cancel
  BY <1>0, <1>24 DEF Cancel, Return, Begin, Go, NoWrite, CoreSide, hostVars,
     Advance, pageVars, coreVars, timeVars, Scripted, Enabled
<1>25. ASSUME Boot, UNCHANGED benchVars
      PROVE  PassInv'
  BY <1>0, <1>25 DEF Boot, benchVars, pageVars, coreVars, timeVars,
     hostVars, Scripted, Enabled
<1>26. ASSUME Sample, UNCHANGED benchVars
      PROVE  PassInv'
  BY <1>0, <1>26 DEF Sample, benchVars, pageVars, coreVars, timeVars,
     hostVars, Scripted, Enabled
<1>27. ASSUME TripStop, UNCHANGED benchVars
      PROVE  PassInv'
  BY <1>0, <1>27 DEF TripStop, benchVars, pageVars, coreVars, timeVars,
     hostVars, Scripted, Enabled
<1>28. ASSUME TripMark, UNCHANGED benchVars
      PROVE  PassInv'
  BY <1>0, <1>28 DEF TripMark, benchVars, pageVars, coreVars, timeVars,
     hostVars, Scripted, Enabled
<1>29. ASSUME TripCount, UNCHANGED benchVars
      PROVE  PassInv'
  BY <1>0, <1>29 DEF TripCount, benchVars, pageVars, coreVars, timeVars,
     hostVars, Scripted, Enabled
<1>30. ASSUME Fetch, UNCHANGED benchVars
      PROVE  PassInv'
  BY <1>0, <1>30 DEF Fetch, benchVars, pageVars, coreVars, timeVars,
     hostVars, Scripted, Enabled
<1>31. ASSUME Decode, UNCHANGED benchVars
      PROVE  PassInv'
  BY <1>0, <1>31 DEF Decode, benchVars, pageVars, coreVars, timeVars,
     hostVars, Scripted, Enabled
<1>32. ASSUME Check, UNCHANGED benchVars
      PROVE  PassInv'
  BY <1>0, <1>32 DEF Check, benchVars, pageVars, coreVars, timeVars,
     hostVars, Scripted, Enabled
<1>33. ASSUME InitOutputs, UNCHANGED benchVars
      PROVE  PassInv'
  BY <1>0, <1>33 DEF InitOutputs, benchVars, pageVars, coreVars, timeVars,
     hostVars, Scripted, Enabled
<1>34. ASSUME DriveChannel, UNCHANGED benchVars
      PROVE  PassInv'
  BY <1>0, <1>34 DEF DriveChannel, benchVars, pageVars, coreVars, timeVars,
     hostVars, Scripted, Enabled
<1>35. ASSUME LoadLow, UNCHANGED benchVars
      PROVE  PassInv'
  BY <1>0, <1>35 DEF LoadLow, benchVars, pageVars, coreVars, timeVars,
     hostVars, Scripted, Enabled
<1>36. ASSUME LoadHigh, UNCHANGED benchVars
      PROVE  PassInv'
  BY <1>0, <1>36 DEF LoadHigh, benchVars, pageVars, coreVars, timeVars,
     hostVars, Scripted, Enabled
<1>37. ASSUME StartChannel, UNCHANGED benchVars
      PROVE  PassInv'
  BY <1>0, <1>37 DEF StartChannel, benchVars, pageVars, coreVars, timeVars,
     hostVars, Scripted, Enabled
<1>38. ASSUME DriveDone, UNCHANGED benchVars
      PROVE  PassInv'
  BY <1>0, <1>38 DEF DriveDone, benchVars, pageVars, coreVars, timeVars,
     hostVars, Scripted, Enabled
<1>39. ASSUME DriveFailed, UNCHANGED benchVars
      PROVE  PassInv'
  BY <1>0, <1>39 DEF DriveFailed, benchVars, pageVars, coreVars, timeVars,
     hostVars, Scripted, Enabled
<1>40. ASSUME StopOutputs, UNCHANGED benchVars
      PROVE  PassInv'
  BY <1>0, <1>40 DEF StopOutputs, benchVars, pageVars, coreVars, timeVars,
     hostVars, Scripted, Enabled
<1>41. ASSUME Publish, UNCHANGED benchVars
      PROVE  PassInv'
  BY <1>0, <1>41 DEF Publish, benchVars, pageVars, coreVars, timeVars,
     hostVars, Scripted, Enabled
<1>42. ASSUME Acknowledge, UNCHANGED benchVars
      PROVE  PassInv'
  BY <1>0, <1>42 DEF Acknowledge, benchVars, pageVars, coreVars, timeVars,
     hostVars, Scripted, Enabled
<1>43. ASSUME Trap, UNCHANGED benchVars
      PROVE  PassInv'
  BY <1>0, <1>43 DEF Trap, benchVars, pageVars, coreVars, timeVars,
     hostVars, Scripted, Enabled
<1>44. CASE TestTick
  BY <1>0, <1>44 DEF TestTick, Tick, benchVars, pageVars, coreVars,
     timeVars, hostVars, Scripted, Enabled
<1>45. CASE UNCHANGED linkVars
  BY <1>0, <1>45 DEF linkVars, vars, benchVars, pageVars, coreVars,
     timeVars, hostVars, Scripted, Enabled
<1>46. ASSUME ~Scripted, EndHold
      PROVE  PassInv'
  BY <1>0, <1>46 DEF EndHold, Return, Begin, Go, NoWrite, CoreSide,
     hostVars, Advance, pageVars, coreVars, timeVars, Scripted, Enabled
<1> HIDE DEF PassInv, HostType, Commanding
<1> QED
  BY <1>1, <1>2, <1>3, <1>4, <1>5, <1>6, <1>7, <1>8, <1>9, <1>10, <1>11,
     <1>12, <1>13, <1>14, <1>15, <1>16, <1>17, <1>18, <1>19, <1>20, <1>21,
     <1>22, <1>23, <1>24, <1>25, <1>26, <1>27, <1>28, <1>29, <1>30, <1>31,
     <1>32, <1>33, <1>34, <1>35, <1>36, <1>37, <1>38, <1>39, <1>40, <1>41,
     <1>42, <1>43, <1>44, <1>45, <1>46 DEF TestNext, LoaderHost, Host,
     TestHost, CoreStep, Core, Scripted

-----------------------------------------------------------------------------
(* Together.                                                               *)
LEMMA LinkInvInit == LinkInit => LinkInv
<1> SUFFICES ASSUME LinkInit PROVE LinkInv
  OBVIOUS
<1> USE DEF LinkInit
<1>1. IInv
  BY InitIInv
<1>2. pc = "boot" /\ op = "unknown" /\ ack = 0 /\ seq = 0 /\ active = {}
  BY DEF Init
<1>3. Enabled = {}
  BY DEF Init, Enabled, ZeroRegister
<1>4. HostType
  <2>1. Len(Pulses) \in Nat /\ Len(Pulses) # 0
    BY LinkAssumption
  <2>2. Len(Script) \in Nat /\ Len(Script) # 0
    BY ScriptLines
  <2>3. 1 \in 1 .. (IF Scripted THEN Len(Script) ELSE Len(Pulses))
    BY <2>1, <2>2
  <2> QED
    BY <2>3 DEF HostType
<1>5. CoreInv
  BY DEF CoreInv, Init, ZeroRegister
<1>6. TalkInv
  BY <1>2 DEF TalkInv, Asking, Latched, Processing, Reloading
<1>7. GroupInv
  BY <1>2, <1>3 DEF GroupInv, Off, Driving, Reloading, Asking, Commanding
<1>8. KeepInv /\ ScriptInv /\ PassInv
  <2>1. ~(1 > SilenceLine)
    BY ScriptLines DEF SilenceLine
  <2> QED
    BY <2>1 DEF KeepInv, ScriptInv, PassInv, Commanding
<1> QED
  BY <1>1, <1>4, <1>5, <1>6, <1>7, <1>8 DEF LinkInv

LEMMA LinkInvStep == LinkInv /\ [TestNext]_linkVars => LinkInv'
<1> SUFFICES ASSUME LinkInv, [TestNext]_linkVars PROVE LinkInv'
  OBVIOUS
<1>1. IInv' /\ HostType' /\ CoreInv' /\ TalkInv'
  BY LinkKeepsIInv, HostTypeStep, CoreInvStep, TalkInvStep
<1>2. GroupInv' /\ KeepInv' /\ ScriptInv' /\ PassInv'
  BY GroupInvStep, KeepInvStep, ScriptInvStep, PassInvStep
<1> QED
  BY <1>1, <1>2 DEF LinkInv

\* The runs of the bench alone are runs with no self-test among the modes.
LEMMA BenchSteps ==
  ASSUME "test" \notin BenchModes, LinkInv, [LinkNext]_linkVars
  PROVE  [TestNext]_linkVars
<1>1. ~Scripted
  BY DEF LinkInv, HostType, Scripted
<1>2. CASE Host
  BY <1>1, <1>2 DEF TestNext, LoaderHost, Scripted
<1>3. CASE LinkTick
  <2>1. hpc # "watch"
    BY <1>1 DEF LinkInv, HostType, Commanding
  <2> QED
    BY <1>3, <2>1 DEF LinkTick, TestTick, TestNext
<1> QED
  BY <1>2, <1>3 DEF LinkNext, TestNext

(* All variables keep their types, those of the core next to this host and *)
(* those of the host (servo_bench, servo_hold, servo_test).                *)
THEOREM HostTypeCorrect == TestSpec => [](TypeOK /\ HostType)
<1>1. LinkInv => TypeOK /\ HostType
  BY DEF LinkInv, IInv
<1> QED
  BY <1>1, LinkInvInit, LinkInvStep, PTL DEF TestSpec

(* What the service promises any host it promises this one: whole legal    *)
(* waveforms, outputs on a lease, answers that are true, a parked core     *)
(* with everything off (servo_service_step under servo_bench, servo_hold   *)
(* and servo_test).                                                        *)
THEOREM ServedSafely ==
  TestSpec => [](SafeWaveform /\ ActiveIsHardware /\ LeaseBounded
                   /\ AnswerIsTruth /\ ParkedIsOff)
<1>1. LinkInv => SafeWaveform /\ ActiveIsHardware /\ LeaseBounded /\ AnswerIsTruth
                   /\ ParkedIsOff
  <2>1. LinkInv => IInv
    BY DEF LinkInv
  <2>2. IInv => SafeWaveform /\ ActiveIsHardware /\ ParkedIsOff
    BY DEF IInv, WaveformInv, OutputInv, CommandInv, ActiveIsHardware,
       ParkedIsOff, Driving, Reloading
  <2> QED
    BY <2>1, <2>2, InvLeases, InvAnswers
<1> QED
  BY <1>1, LinkInvInit, LinkInvStep, PTL DEF TestSpec

LEMMA BenchInvariance ==
  ASSUME "test" \notin BenchModes
  PROVE  LinkSpec => [](LinkInv /\ ~Scripted)
<1>1. LinkInv /\ [LinkNext]_linkVars => LinkInv'
  BY BenchSteps, LinkInvStep
<1>2. LinkInv => ~Scripted
  BY DEF LinkInv, HostType, Scripted
<1> QED
  BY <1>1, <1>2, LinkInvInit, PTL DEF LinkSpec

(* Whatever fails, and whenever a signal arrives: nothing but the channel  *)
(* or the group under test is ever driven (run_mode).                      *)
THEOREM NothingElseMoves ==
  ASSUME "test" \notin BenchModes
  PROVE  LinkSpec => []OnlyGroupDriven
<1>1. LinkInv /\ ~Scripted => OnlyGroupDriven
  BY DEF LinkInv, GroupInv, OnlyGroupDriven
<1> QED
  BY <1>1, BenchInvariance, PTL

(* A checked group keeps the width it was checked with until the watchdog  *)
(* switches all of it off (bench_set_impl and what it reads back).         *)
THEOREM CheckedStaysDriven ==
  ASSUME "test" \notin BenchModes
  PROVE  LinkSpec => []CheckedIsDriven
<1>1. LinkInv /\ ~Scripted => CheckedIsDriven
  BY DEF LinkInv, KeepInv, CheckedIsDriven, Tripping
<1> QED
  BY <1>1, BenchInvariance, PTL

\* The host writes them only between an answer and the next submission.
LEMMA TargetsWait ==
  ASSUME LinkInv, [TestNext]_linkVars, ack # seq
  PROVE  UNCHANGED <<mask, target>>
<1>1. ~(~Scripted /\ PrepareSet) /\ ~(Scripted /\ TestPrepare)
  BY DEF LinkInv, TalkInv, PrepareSet, TestPrepare
<1>2. ASSUME ~Scripted, Host PROVE UNCHANGED <<mask, target>>
  BY <1>1, <1>2
     DEF Host, SeeMagic, MissMagic, GrantLease, HostLease, NextGroup,
     RefuseSet, WriteCommand, HostOp, SkipCommand, Submit, HostSubmit,
     EndPoll, Accept, Reject, Verify, Mismatch, Repeat, PauseCancelled,
     EndHold, NextStep, NoWrite, hostVars
<1>3. ASSUME Scripted, TestHost PROVE UNCHANGED <<mask, target>>
  BY <1>1, <1>3
     DEF TestHost, SeeMagic, MissMagic, GrantLease, HostLease, WriteCommand,
         HostOp, Submit, HostSubmit, EndPoll, TestAccept, TestVerify, EndWatch,
         TestWatchdog, TestReject, NoWrite, hostVars
<1>4. CASE Cancel
  BY <1>4 DEF Cancel, NoWrite, hostVars
<1>5. CASE CoreStep
  BY <1>5
     DEF CoreStep, Core, Boot, Sample, TripStop, TripMark, TripCount, Fetch,
         Decode, Check, InitOutputs, DriveChannel, LoadLow, LoadHigh,
         StartChannel, DriveDone, DriveFailed, StopOutputs, Publish,
         Acknowledge, Trap, hostVars
<1>6. CASE TestTick
  BY <1>6 DEF TestTick, Tick, hostVars
<1>7. CASE UNCHANGED linkVars
  BY <1>7 DEF linkVars, vars, hostVars
<1> QED
  BY <1>2, <1>3, <1>4, <1>5, <1>6, <1>7 DEF TestNext, LoaderHost, Scripted

(* The parameters never change under a request the core is working on, in  *)
(* the sequence and the hold (bench_set_impl, command()) ...               *)
THEOREM TargetsAreStable ==
  ASSUME "test" \notin BenchModes
  PROVE  LinkSpec => TargetsStable
<1>1. LinkInv /\ [LinkNext]_linkVars
        => [ack # seq /\ pc \in Processing => UNCHANGED <<mask, target>>]_linkVars
  BY TargetsWait, BenchSteps
<1> QED
  BY <1>1, BenchInvariance, PTL DEF LinkSpec, TargetsStable

(* ... and in the self-test (servo_test).                                  *)
THEOREM TestTargetsAreStable == TestSpec => TargetsStable
<1>1. LinkInv /\ [TestNext]_linkVars
        => [ack # seq /\ pc \in Processing => UNCHANGED <<mask, target>>]_linkVars
  BY TargetsWait
<1> QED
  BY <1>1, LinkInvInit, LinkInvStep, PTL DEF TestSpec, TargetsStable

(* A host that waits longer than two passes of the loop takes a command    *)
(* for lost only when the core has trapped (command(), 200 polls of 1 ms): *)
(* so in the sequence and the hold ...                                     *)
THEOREM TimeoutsAreTraps ==
  ASSUME "test" \notin BenchModes, 2 * MaxLoop < Patience
  PROVE  LinkSpec => []TimeoutMeansTrap
<1>1. LinkInit => PatienceInv
  BY DEF LinkInit, Init, PatienceInv
<1>2. LinkInv /\ PatienceInv /\ [LinkNext]_linkVars => PatienceInv'
  BY BenchSteps, PatienceInvStep
<1>3. PatienceInv => TimeoutMeansTrap
  BY DEF PatienceInv, TimeoutMeansTrap
<1> QED
  BY <1>1, <1>2, <1>3, BenchInvariance, PTL DEF LinkSpec

(* ... and for the commands of the self-test.                              *)
THEOREM TestTimeoutsAreTraps ==
  ASSUME 2 * MaxLoop < Patience
  PROVE  TestSpec => []TimeoutMeansTrap
<1>1. LinkInit => PatienceInv
  BY DEF LinkInit, Init, PatienceInv
<1>2. LinkInv /\ PatienceInv /\ [TestNext]_linkVars => PatienceInv'
  BY PatienceInvStep
<1>3. PatienceInv => TimeoutMeansTrap
  BY DEF PatienceInv, TimeoutMeansTrap
<1> QED
  BY <1>1, <1>2, <1>3, LinkInvInit, LinkInvStep, PTL DEF TestSpec

(* When the self-test waits longer than the watchdog takes, it finds the   *)
(* watchdog at fault only for a reason (servo_test, 2000 polls of 1 ms).   *)
THEOREM WatchdogIsJudgedRightly ==
  ASSUME Timeout - 1 + 2 * MaxLoop < WatchPatience
  PROVE  TestSpec => []WatchdogVerdict
<1>1. LinkInit => SilenceInv
  BY DEF LinkInit, SilenceInv
<1>2. LinkInv /\ SilenceInv /\ [TestNext]_linkVars => SilenceInv'
  BY SilenceInvStep
<1>3. LinkInv /\ SilenceInv => WatchdogVerdict
  <2> SUFFICES ASSUME LinkInv, SilenceInv, hpc = "verdict", ~cancelled, ~WatchdogFired
               PROVE  pc = "trapped" \/ trips > 1 \/ pc = "tripCount"
    BY DEF WatchdogVerdict
  <2>1. Scripted /\ trips \in Nat
    BY DEF LinkInv, IInv, TypeOK, HostType, Commanding
  <2>2. Fired \/ pc = "trapped"
    BY <2>1 DEF SilenceInv
  <2> QED
    BY <2>1, <2>2 DEF Fired, WatchdogFired
<1> QED
  BY <1>1, <1>2, <1>3, LinkInvInit, LinkInvStep, PTL DEF TestSpec

(* A run that passes has parked the core with everything off, and a        *)
(* self-test that passes has seen the watchdog (servo_bench, servo_test).  *)
THEOREM PassesAreEarned == TestSpec => []PassIsEarned
<1>1. LinkInv => PassIsEarned
  <2> SUFFICES ASSUME LinkInv, rc = "passed", benchMode # "hold"
               PROVE  /\ Enabled = {} /\ pc \in {"parked", "trapped"}
                      /\ benchMode = "test" => trips \in 1 .. 2
    BY DEF PassIsEarned
  <2>1. Enabled = {} /\ pc \in {"parked", "trapped"}
    BY DEF LinkInv, PassInv
  <2>2. benchMode = "test" => trips \in {1, 2}
    BY DEF LinkInv, PassInv, ScriptInv, Scripted
  <2> QED
    BY <2>1, <2>2
<1> QED
  BY <1>1, LinkInvInit, LinkInvStep, PTL DEF TestSpec

-----------------------------------------------------------------------------
(* Commands as calls of a mailbox. The steps of the host: the submission   *)
(* posts, the end of a call returns, the rest writes nothing that a live   *)
(* core can be reading.                                                    *)
Listening == hpc \in {"poll", "judge"}

LEMMA MailTypes ==
  LinkInv => /\ ack \in Nat /\ seq \in Nat /\ req.seq \in Nat /\ ack <= seq
             /\ pc \in Processing => ack < req.seq /\ req.seq <= seq
             /\ pc \in PCs
BY ServiceAssumption
   DEF LinkInv, IInv, TypeOK, SequenceInv, Processing, Reloading

LEMMA HostRewrites ==
  ASSUME LinkInv, UNCHANGED CoreSide, Writes, UNCHANGED <<seq, cancelled>>,
         Listening' = Listening,
         ack # seq /\ pc # "trapped" => UNCHANGED <<op, mask, target>>
  PROVE  [Mail!MailNext]_(Mail!mailVars)
<1>0. /\ pc' = pc /\ ack' = ack /\ req' = req /\ seq' = seq
      /\ ack = seq => pc \notin Processing
  BY MailTypes DEF CoreSide, pageVars, coreVars
<1>1. CASE ack = seq
  BY <1>0, <1>1 DEF Mail!mailVars, Listening
<1>2. CASE ack # seq /\ pc # "trapped"
  BY <1>0, <1>2 DEF Mail!mailVars, Listening
<1>3. CASE ack # seq /\ pc = "trapped"
  <2>1. [op |-> op', mask |-> mask', target |-> target']
          \in [op : Ops, mask : SUBSET MaskBits,
               target : [Channels -> Targets \cup {0}]]
    BY DEF Writes, Widths
  <2>2. "trapped" \notin Processing
    BY DEF Processing, Reloading
  <2>3. Mail!Rewrite
    BY <1>0, <1>3, <2>1, <2>2 DEF Mail!Rewrite, Listening
  <2> QED
    BY <2>3 DEF Mail!MailNext
<1> QED
  BY <1>1, <1>2, <1>3

LEMMA SubmitPosts ==
  ASSUME LinkInv, PatienceInv, Submit
  PROVE  Mail!Post
<1>0. /\ hpc = "submit" /\ hpc' = "poll" /\ seq' = seq + 1
      /\ UNCHANGED <<op, mask, target, cancelled, CoreSide>>
  BY DEF Submit, HostSubmit
<1>1. /\ pc' = pc /\ ack' = ack /\ req' = req /\ ack' # seq'
      /\ ack # seq => pc = "trapped"
  BY <1>0, MailTypes DEF CoreSide, pageVars, coreVars, PatienceInv
<1>2. [op |-> op, mask |-> mask, target |-> target]
        \in [op : Ops, mask : SUBSET MaskBits,
             target : [Channels -> Targets \cup {0}]]
  BY DEF LinkInv, IInv, TypeOK
<1> QED
  BY <1>0, <1>1, <1>2 DEF Mail!Post

LEMMA JudgeReturns ==
  ASSUME LinkInv, PatienceInv, UNCHANGED NoWrite, UNCHANGED cancelled,
         hpc = "judge", hpc' \notin {"poll", "judge"}
  PROVE  Mail!Return
<1>1. /\ pc' = pc /\ ack' = ack /\ req' = req /\ seq' = seq
      /\ UNCHANGED <<op, mask, target>>
  BY DEF NoWrite, CoreSide, pageVars, coreVars, hostVars
<1>2. ack = seq \/ cancelled \/ pc = "trapped"
  BY DEF PatienceInv
<1> QED
  BY <1>1, <1>2 DEF Mail!Return

LEMMA HostMails ==
  ASSUME LinkInv, PatienceInv, LoaderHost \/ Cancel
  PROVE  [Mail!MailNext]_(Mail!mailVars)
<1>1. UNCHANGED CoreSide /\ Writes
  BY HostWrites
<1>2. CASE Submit
  BY <1>2, SubmitPosts DEF Mail!MailNext
<1>3. CASE hpc = "judge" /\ (Accept \/ Reject \/ TestAccept \/ TestReject)
  <2>1. UNCHANGED NoWrite /\ UNCHANGED cancelled /\ hpc' \notin {"poll", "judge"}
    BY <1>3
       DEF Accept, Reject, TestAccept, TestReject, Advance, Return, Go, Fail,
           Begin
  <2> QED
    BY <1>3, <2>1, JudgeReturns DEF Mail!MailNext
<1>4. CASE WriteCommand
  <2>1. ack # seq => pc = "trapped"
    BY <1>4 DEF WriteCommand, PatienceInv
  <2>2. UNCHANGED <<seq, cancelled>> /\ Listening' = Listening
    BY <1>4 DEF WriteCommand, HostOp, Go, Listening
  <2> QED
    BY <1>1, <2>1, <2>2, HostRewrites
<1>5. ASSUME \/ ~Scripted /\ PrepareSet
             \/ Scripted /\ TestPrepare
             \/ GrantLease
      PROVE  [Mail!MailNext]_(Mail!mailVars)
  <2>1. ack # seq => UNCHANGED <<op, mask, target>>
    BY <1>5
       DEF LinkInv, TalkInv, PrepareSet, TestPrepare, GrantLease, HostLease
  <2>2. UNCHANGED <<seq, cancelled>> /\ Listening' = Listening
    BY <1>5
       DEF PrepareSet, TestPrepare, GrantLease, HostLease, Go, Begin, Listening
  <2> QED
    BY <1>1, <2>1, <2>2, HostRewrites
<1>6. CASE Cancel
  <2>1. Mail!Interrupt
    BY <1>6
       DEF Cancel, NoWrite, CoreSide, hostVars, pageVars, coreVars,
           Mail!Interrupt
  <2> QED
    BY <2>1 DEF Mail!MailNext
<1>7. ASSUME UNCHANGED NoWrite, cancelled' = cancelled, Listening' = Listening
      PROVE  [Mail!MailNext]_(Mail!mailVars)
  <2>1. UNCHANGED <<op, mask, target, seq>>
    BY <1>7 DEF NoWrite, hostVars
  <2> QED
    BY <1>1, <1>7, <2>1, HostRewrites
<1>8. ASSUME \/ SeeMagic \/ MissMagic \/ NextGroup \/ RefuseSet
             \/ SkipCommand \/ EndPoll \/ Verify \/ Mismatch \/ Repeat
             \/ PauseCancelled \/ EndHold \/ NextStep
      PROVE  [Mail!MailNext]_(Mail!mailVars)
  <2>1. UNCHANGED NoWrite /\ cancelled' = cancelled /\ Listening' = Listening
    BY <1>8
       DEF SeeMagic, MissMagic, NextGroup, RefuseSet, SkipCommand, EndPoll,
           Verify, Mismatch, Repeat, PauseCancelled, EndHold, NextStep,
           Return, Begin, Go, Fail, Listening
  <2> QED
    BY <1>7, <2>1
<1>9. ASSUME \/ TestVerify \/ EndWatch \/ TestWatchdog
             \/ hpc # "judge" /\ TestReject
      PROVE  [Mail!MailNext]_(Mail!mailVars)
  <2>1. UNCHANGED NoWrite /\ cancelled' = cancelled /\ Listening' = Listening
    BY <1>9
       DEF TestVerify, EndWatch, TestWatchdog, TestReject, Advance, Return, Go,
           Listening
  <2> QED
    BY <1>7, <2>1
<1>10. hpc = "judge" \/ ~(Accept \/ Reject \/ TestAccept)
  BY DEF Accept, Reject, TestAccept
<1>11. ASSUME ~Scripted, Host PROVE [Mail!MailNext]_(Mail!mailVars)
  BY <1>2, <1>3, <1>4, <1>5, <1>8, <1>10, <1>11 DEF Host
<1>12. ASSUME Scripted, TestHost PROVE [Mail!MailNext]_(Mail!mailVars)
  BY <1>2, <1>3, <1>4, <1>5, <1>8, <1>9, <1>10, <1>12 DEF TestHost
<1> QED
  BY <1>6, <1>11, <1>12 DEF LoaderHost, Scripted

(* The steps of the core: command and mask are read, the acknowledgement   *)
(* answers, a trap dies; the rest is the carrying out.                     *)
LEMMA CoreMails ==
  ASSUME LinkInv, MailInv, CoreStep
  PROVE  [Mail!MailNext]_(Mail!mailVars)
<1>0. UNCHANGED <<op, seq, mask, target, hpc, cancelled>>
  BY DEF CoreStep, Core, Trap, Boot, Sample, TripStop, TripMark, TripCount,
         Fetch, Decode, Check, InitOutputs, DriveChannel, LoadLow, LoadHigh,
         StartChannel, DriveDone, DriveFailed, StopOutputs, Publish,
         Acknowledge, hostVars, benchVars
<1>1. CASE Decode
  <2>1. /\ pc = "decode" /\ ack' = ack /\ ack # seq
        /\ req'.cmd = op /\ req'.mask = mask
        /\ pc' \in {"check", "stop", "publish"}
    <3>1. req \in [seq : 0 .. MaxSeq, cmd : Ops, mask : SUBSET MaskBits]
      BY DEF LinkInv, IInv, TypeOK
    <3> QED
      BY <1>1, <3>1, MailTypes DEF Decode, pageVars, Processing
  <2>2. Mail!Take
    BY <1>0, <2>1 DEF Mail!Take, Processing, Reloading
  <2> QED
    BY <2>2 DEF Mail!MailNext
<1>2. CASE Acknowledge
  <2>1. /\ pc = "ack" /\ ack' = req.seq /\ pc' \in {"parked", "sample"}
    BY <1>2 DEF Acknowledge
  <2>2. ack' = seq'
    BY <1>0, <2>1, MailTypes DEF MailInv, Processing
  <2>3. Mail!Answer
    BY <1>0, <2>1, <2>2 DEF Mail!Answer, Processing, Reloading
  <2> QED
    BY <2>3 DEF Mail!MailNext
<1>3. CASE Trap
  <2>1. pc' = "trapped" /\ ack' = ack
    BY <1>3 DEF Trap
  <2>2. Mail!Die
    BY <1>0, <2>1 DEF Mail!Die, Processing, Reloading
  <2> QED
    BY <2>2 DEF Mail!MailNext
<1>4. ASSUME ack' = ack, req' = req \/ {pc, pc'} \cap (Processing \ {"decode"}) = {},
             pc \in Processing \ {"decode"} <=> pc' \in Processing \ {"decode"},
             pc # "trapped", pc' # "trapped"
      PROVE  [Mail!MailNext]_(Mail!mailVars)
  BY <1>0, <1>4 DEF Mail!mailVars
<1>5. CASE Boot \/ Sample \/ TripStop \/ TripMark \/ TripCount \/ Fetch
  <2>1. /\ ack' = ack /\ pc # "trapped" /\ pc' # "trapped"
        /\ {pc, pc'} \cap (Processing \ {"decode"}) = {}
    BY <1>5
       DEF Boot, Sample, TripStop, TripMark, TripCount, Fetch, pageVars,
           Processing, Reloading
  <2> QED
    BY <1>4, <2>1
<1>6. CASE \/ Check \/ InitOutputs \/ DriveChannel \/ LoadLow \/ LoadHigh
           \/ StartChannel \/ DriveDone \/ DriveFailed \/ StopOutputs \/ Publish
  <2>1. /\ ack' = ack /\ req' = req
        /\ pc \in Processing \ {"decode"} /\ pc' \in Processing \ {"decode"}
    BY <1>6
       DEF Check, InitOutputs, DriveChannel, LoadLow, LoadHigh, StartChannel,
           DriveDone, DriveFailed, StopOutputs, Publish, pageVars, coreVars,
           Processing, Reloading
  <2>2. pc # "trapped" /\ pc' # "trapped"
    BY <2>1 DEF Processing, Reloading
  <2> QED
    BY <1>4, <2>1, <2>2
<1> QED
  BY <1>1, <1>2, <1>3, <1>5, <1>6 DEF CoreStep, Core

LEMMA TickMails ==
  ASSUME TestTick \/ UNCHANGED linkVars
  PROVE  UNCHANGED Mail!mailVars
<1>1. UNCHANGED <<op, seq, mask, target, hpc, cancelled, ack, pc, req>>
  BY DEF TestTick, Tick, linkVars, vars, hostVars, pageVars, coreVars,
         benchVars
<1> QED
  BY <1>1 DEF Mail!mailVars

LEMMA NoFurtherBehind ==
  ASSUME NEW a \in Nat, NEW b \in Nat, NEW s \in Nat, s <= a + 1, a <= b
  PROVE  s <= b + 1
OBVIOUS

LEMMA MailInvStep ==
  ASSUME LinkInv, PatienceInv, MailInv, [TestNext]_linkVars
  PROVE  MailInv'
<1>0. /\ ack \in Nat /\ seq \in Nat /\ req.seq \in Nat /\ ack <= seq
      /\ pc \in Processing => ack < req.seq /\ req.seq <= seq
  BY MailTypes
<1>1. CASE Submit
  BY <1>0, <1>1
     DEF Submit, HostSubmit, CoreSide, pageVars, PatienceInv, MailInv
<1>2. ASSUME UNCHANGED <<seq, ack, pc>> PROVE MailInv'
  BY <1>2 DEF MailInv
<1>3. ASSUME LoaderHost \/ Cancel, ~Submit PROVE MailInv'
  <2>1. UNCHANGED CoreSide
    BY <1>3, HostWrites
  <2>2. seq' = seq
    BY <1>3
       DEF LoaderHost, Host, TestHost, Cancel, SeeMagic, MissMagic, GrantLease,
           HostLease, NextGroup, PrepareSet, RefuseSet, WriteCommand, HostOp,
           SkipCommand, EndPoll, Accept, Reject, Verify, Mismatch, Repeat,
           PauseCancelled, EndHold, NextStep, TestPrepare, TestAccept,
           TestVerify, EndWatch, TestWatchdog, TestReject, NoWrite, hostVars
  <2> QED
    BY <1>2, <2>1, <2>2 DEF CoreSide, pageVars
<1>4. CASE CoreStep
  <2>1. seq' = seq
    BY <1>4
       DEF CoreStep, Core, Trap, Boot, Sample, TripStop, TripMark, TripCount,
           Fetch, Decode, Check, InitOutputs, DriveChannel, LoadLow, LoadHigh,
           StartChannel, DriveDone, DriveFailed, StopOutputs, Publish,
           Acknowledge, hostVars
  <2>2. pc # "trapped" \/ pc' = "trapped"
    BY <1>4
       DEF CoreStep, Core, Trap, Boot, Sample, TripStop, TripMark, TripCount,
           Fetch, Decode, Check, InitOutputs, DriveChannel, LoadLow, LoadHigh,
           StartChannel, DriveDone, DriveFailed, StopOutputs, Publish,
           Acknowledge
  <2>3. ack' = ack \/ (pc = "ack" /\ ack' = req.seq)
    BY <1>4
       DEF CoreStep, Core, Trap, Boot, Sample, TripStop, TripMark, TripCount,
           Fetch, Decode, Check, InitOutputs, DriveChannel, LoadLow, LoadHigh,
           StartChannel, DriveDone, DriveFailed, StopOutputs, Publish,
           Acknowledge, pageVars
  <2>4. ack' \in Nat /\ ack <= ack'
    BY <1>0, <2>3 DEF Processing
  <2>5. ASSUME pc # "trapped" PROVE seq <= ack' + 1
    <3>1. seq <= ack + 1 /\ seq \in Nat /\ ack \in Nat
      BY <1>0, <2>5 DEF MailInv
    <3> QED
      BY <2>4, <3>1, NoFurtherBehind
  <2> QED
    BY <2>1, <2>2, <2>5 DEF MailInv
<1>5. CASE TestTick \/ UNCHANGED linkVars
  BY <1>2, <1>5 DEF TestTick, Tick, linkVars, vars, hostVars, pageVars
<1> QED
  BY <1>1, <1>3, <1>4, <1>5 DEF TestNext

LEMMA MailStep ==
  ASSUME LinkInv, PatienceInv, MailInv, [TestNext]_linkVars
  PROVE  [Mail!MailNext]_(Mail!mailVars)
BY HostMails, CoreMails, TickMails DEF TestNext

LEMMA MailStart == LinkInit => MailInv /\ PatienceInv /\ Mail!MailInit
<1> SUFFICES ASSUME LinkInit PROVE MailInv /\ PatienceInv /\ Mail!MailInit
  OBVIOUS
<1>1. /\ ack = 0 /\ seq = 0 /\ pc = "boot" /\ hpc = "boot" /\ cancelled = FALSE
  BY DEF LinkInit, Init
<1> QED
  BY <1>1 DEF MailInv, PatienceInv, Mail!MailInit, Processing, Reloading

(* With a polling time longer than two loop passes the host and the core   *)
(* implement the mailbox: a live core never finds a request overwritten,   *)
(* carries out exactly what was written, and the host gives up only on a   *)
(* signal or a trap (command() and servo_service_step), in the sequence    *)
(* and the hold ...                                                        *)
THEOREM BenchImplementsMailbox ==
  ASSUME "test" \notin BenchModes, 2 * MaxLoop < Patience
  PROVE  LinkSpec => ImplementsMailbox
<1>1. LinkInv /\ PatienceInv /\ MailInv /\ [LinkNext]_linkVars
        => PatienceInv' /\ MailInv'
  BY BenchSteps, PatienceInvStep, MailInvStep
<1>2. LinkInv /\ PatienceInv /\ MailInv /\ [LinkNext]_linkVars
        => [Mail!MailNext]_(Mail!mailVars)
  BY BenchSteps, MailStep
<1> QED
  BY <1>1, <1>2, MailStart, BenchInvariance, PTL
     DEF LinkSpec, ImplementsMailbox, Mail!MailSpec

(* ... and in the self-test.                                               *)
THEOREM TestImplementsMailbox ==
  ASSUME 2 * MaxLoop < Patience
  PROVE  TestSpec => ImplementsMailbox
<1>1. LinkInv /\ PatienceInv /\ MailInv /\ [TestNext]_linkVars
        => PatienceInv' /\ MailInv'
  BY PatienceInvStep, MailInvStep
<1>2. LinkInv /\ PatienceInv /\ MailInv /\ [TestNext]_linkVars
        => [Mail!MailNext]_(Mail!mailVars)
  BY MailStep
<1> QED
  BY <1>1, <1>2, MailStart, LinkInvInit, LinkInvStep, PTL
     DEF TestSpec, ImplementsMailbox, Mail!MailSpec

(* What the mailbox gives its users, whoever implements it: what the core  *)
(* is doing is what it has been asked, unchanged since (servo_service_step *)
(* reads command, mask and, twice, the targets at different times).        *)
THEOREM OnlyRequestsAreCarriedOut ==
  ImplementsMailbox => []Mail!CarriesOutTheRequest
<1>1. Mail!MailInit => Mail!CarriesOutTheRequest
  BY DEF Mail!MailInit, Mail!CarriesOutTheRequest
<1>2. Mail!CarriesOutTheRequest /\ [Mail!MailNext]_(Mail!mailVars)
        => Mail!CarriesOutTheRequest'
  BY DEF Mail!CarriesOutTheRequest, Mail!MailNext, Mail!mailVars, Mail!Post,
         Mail!Take, Mail!Answer, Mail!Return, Mail!Interrupt, Mail!Die,
         Mail!Rewrite
<1> QED
  BY <1>1, <1>2, PTL DEF ImplementsMailbox, Mail!MailSpec
=============================================================================
