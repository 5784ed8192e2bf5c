----------------------------- MODULE Dt2wProofs -----------------------------
(***************************************************************************)
(* Theorems about the double-tap bridge, for every QCap, UevCap and number *)
(* of faults.                                                              *)
(***************************************************************************)
EXTENDS Dt2wProps, SequenceTheorems, TLAPS

\* Two commands in a row.
LEMMA Pair ==
  ASSUME NEW S, NEW a \in S, NEW b \in S
  PROVE  <<a>> \o <<b>> = <<a, b>>
<1>1. <<a>> \in Seq(S) /\ <<b>> \in Seq(S) /\ <<a, b>> \in Seq(S)
  OBVIOUS
<1>2. <<a>> \o <<b>> \in Seq(S) /\ Len(<<a>> \o <<b>>) = 2
  BY <1>1, ConcatProperties
<1>3. (<<a>> \o <<b>>)[1] = a /\ (<<a>> \o <<b>>)[2] = b
  BY <1>1, ConcatProperties
<1>4. \A i \in 1..2 : (<<a>> \o <<b>>)[i] = <<a, b>>[i]
  BY <1>3
<1> QED
  BY <1>1, <1>2, <1>4, SeqEqual

\* The commands of each event: what the five rules of the two .rc files add up
\* to, in the order in which init runs them.
LEMMA MatchingCases ==
  ASSUME NEW e \in Events, enabled \in BOOLEAN, booted \in BOOLEAN
  PROVE  /\ e = "persist0" => Matching(e) = <<"stop", "write0">>
         /\ e = "persist1" => Matching(e) \in {<<"start">>, <<"start", "start">>}
         /\ e = "boot1" => Matching(e) = IF booted /\ enabled
                                         THEN <<"start">> ELSE <<>>
         /\ e = "arm0" => Matching(e) = <<>>
         /\ e = "arm1" => Matching(e) = <<"write1">>
         /\ e = "all" => IF enabled
                         THEN Matching(e) \in {<<"start">>, <<"start", "start">>}
                         ELSE Matching(e) = <<"stop", "write0">>
<1> DEFINE R1 == RuleStart(e)  R2 == RuleStop(e)  R3 == RuleBootStart(e)
           R4 == RuleDisarm(e) R5 == RuleArm(e)
<1>1. \A s \in Seq(Commands) : s \o <<>> = s /\ <<>> \o s = s
  BY ConcatEmptySeq
<1>2. /\ <<>> \in Seq(Commands) /\ <<"start">> \in Seq(Commands)
      /\ <<"stop">> \in Seq(Commands) /\ <<"write0">> \in Seq(Commands)
      /\ <<"write1">> \in Seq(Commands)
  BY DEF Commands
<1>3. /\ <<"start">> \o <<"start">> = <<"start", "start">>
      /\ <<"stop">> \o <<"write0">> = <<"stop", "write0">>
  <2>1. {"start", "stop", "write0"} \subseteq Commands
    BY DEF Commands
  <2> QED BY <2>1, Pair
<1>4. /\ <<"start", "start">> \in Seq(Commands)
      /\ <<"stop", "write0">> \in Seq(Commands)
  BY DEF Commands
<1>5. Matching(e) = R1 \o R2 \o R3 \o R4 \o R5
  BY DEF Matching
<1>a. CASE e = "persist0"
  <2>1. R1 = <<>> /\ R2 = <<"stop">> /\ R3 = <<>> /\ R4 = <<"write0">> /\ R5 = <<>>
    BY <1>a DEF RuleStart, RuleStop, RuleBootStart, RuleDisarm, RuleArm
  <2> HIDE DEF R1, R2, R3, R4, R5
  <2> QED BY <2>1, <1>a, <1>1, <1>2, <1>3, <1>4, <1>5
<1>b. CASE e = "persist1"
  <2>1. /\ R1 = <<"start">> /\ R2 = <<>> /\ R4 = <<>> /\ R5 = <<>>
        /\ R3 = <<"start">> \/ R3 = <<>>
    BY <1>b DEF RuleStart, RuleStop, RuleBootStart, RuleDisarm, RuleArm
  <2> HIDE DEF R1, R2, R3, R4, R5
  <2> QED BY <2>1, <1>b, <1>1, <1>2, <1>3, <1>4, <1>5
<1>c. CASE e = "boot1"
  <2>1. /\ R1 = <<>> /\ R2 = <<>> /\ R4 = <<>> /\ R5 = <<>>
        /\ R3 = IF booted /\ enabled THEN <<"start">> ELSE <<>>
    BY <1>c DEF RuleStart, RuleStop, RuleBootStart, RuleDisarm, RuleArm
  <2> HIDE DEF R1, R2, R3, R4, R5
  <2> QED BY <2>1, <1>c, <1>1, <1>2, <1>3, <1>4, <1>5
<1>d. CASE e = "arm0"
  <2>1. R1 = <<>> /\ R2 = <<>> /\ R3 = <<>> /\ R4 = <<>> /\ R5 = <<>>
    BY <1>d DEF RuleStart, RuleStop, RuleBootStart, RuleDisarm, RuleArm
  <2> HIDE DEF R1, R2, R3, R4, R5
  <2> QED BY <2>1, <1>d, <1>1, <1>2, <1>3, <1>4, <1>5
<1>e. CASE e = "arm1"
  <2>1. R1 = <<>> /\ R2 = <<>> /\ R3 = <<>> /\ R4 = <<>> /\ R5 = <<"write1">>
    BY <1>e DEF RuleStart, RuleStop, RuleBootStart, RuleDisarm, RuleArm
  <2> HIDE DEF R1, R2, R3, R4, R5
  <2> QED BY <2>1, <1>e, <1>1, <1>2, <1>3, <1>4, <1>5
<1>f. CASE e = "all" /\ enabled
  <2>1. /\ R1 = <<"start">> /\ R2 = <<>> /\ R4 = <<>> /\ R5 = <<>>
        /\ R3 = <<"start">> \/ R3 = <<>>
    BY <1>f DEF RuleStart, RuleStop, RuleBootStart, RuleDisarm, RuleArm
  <2> HIDE DEF R1, R2, R3, R4, R5
  <2> QED BY <2>1, <1>f, <1>1, <1>2, <1>3, <1>4, <1>5
<1>g. CASE e = "all" /\ ~enabled
  <2>1. R1 = <<>> /\ R2 = <<"stop">> /\ R3 = <<>> /\ R4 = <<"write0">> /\ R5 = <<>>
    BY <1>g DEF RuleStart, RuleStop, RuleBootStart, RuleDisarm, RuleArm
  <2> HIDE DEF R1, R2, R3, R4, R5
  <2> QED BY <2>1, <1>g, <1>1, <1>2, <1>3, <1>4, <1>5
<1> QED
  BY <1>a, <1>b, <1>c, <1>d, <1>e, <1>f, <1>g DEF Events

\* The initial states have the types of TypeOK.
LEMMA InitType == Init => TypeOK
<1> SUFFICES ASSUME Init PROVE TypeOK
  OBVIOUS
<1>1. queue \in Seq(Events) /\ Len(queue) <= 2
  <2>1. PersistEvent(enabled) \in Events /\ "all" \in Events
    BY DEF PersistEvent, Events
  <2>2. CASE queue = <<"all">>
    BY <2>1, <2>2
  <2>3. CASE queue = <<"all", PersistEvent(enabled)>>
    BY <2>1, <2>3
  <2> QED
    BY <2>2, <2>3 DEF Init
<1>2. Len(queue) <= QCap
  BY <1>1, BoundsAssumption
<1>3. /\ todo \in Seq(Commands)
      /\ sock \in Seq(Uevents) /\ Len(sock) <= UevCap
  BY BoundsAssumption DEF Init
<1>4. /\ enabled \in BOOLEAN /\ booted \in BOOLEAN
      /\ disabled \in BOOLEAN /\ armed \in BOOLEAN /\ key \in BOOLEAN
  BY DEF Init
<1>5. /\ svc \in {"stopped", "running", "dead", "restarting"}
      /\ pc \in {"none", "uinput", "netlink", "low", "high", "poll"}
      /\ overrun \in {"no", "error", "congested"}
      /\ screen \in {"on", "off"}
      /\ pend \in SUBSET {"clear", "notify"}
      /\ faults \in 0..MaxFaults
  BY BoundsAssumption DEF Init
<1> QED
  BY <1>1, <1>2, <1>3, <1>4, <1>5 DEF TypeOK

\* The socket stays within its buffer when a uevent is delivered or dropped.
LEMMA DeliverType ==
  ASSUME TypeOK, NEW u \in Uevents, Deliver(u)
  PROVE  /\ sock' \in Seq(Uevents) /\ Len(sock') <= UevCap
         /\ overrun' \in {"no", "error", "congested"}
         /\ faults' \in 0..MaxFaults
<1> USE BoundsAssumption
<1>1. CASE UNCHANGED <<sock, overrun, faults>>
  BY <1>1 DEF TypeOK
<1>2. CASE /\ Len(sock) < UevCap /\ sock' = Append(sock, u)
           /\ UNCHANGED <<overrun, faults>>
  BY <1>2 DEF TypeOK
<1>3. CASE /\ Fault /\ UNCHANGED sock
           /\ overrun' = IF overrun = "no" THEN "error" ELSE overrun
  BY <1>3 DEF TypeOK, Fault
<1> QED
  BY <1>1, <1>2, <1>3 DEF Deliver

\* Running a command leaves the queue and the setting alone.
LEMMA CommandType ==
  ASSUME TypeOK, NEW c, NextCommand(c)
  PROVE  todo' \in Seq(Commands) /\ UNCHANGED <<queue, enabled, booted, faults>>
  BY DEF TypeOK, NextCommand, userVars

\* A property set, done or failed, leaves the queue within its bound.
LEMMA SetArmPropertyType ==
  ASSUME TypeOK, NEW e \in Events, SetArmProperty(e)
  PROVE  /\ queue' \in Seq(Events) /\ Len(queue') <= QCap
         /\ faults' \in 0..MaxFaults
<1> USE BoundsAssumption
<1>1. CASE Len(queue) < QCap /\ queue' = Append(queue, e) /\ UNCHANGED faults
  BY <1>1 DEF TypeOK
<1>2. CASE Fault /\ UNCHANGED queue
  BY <1>2 DEF TypeOK, Fault
<1> QED
  BY <1>1, <1>2 DEF SetArmProperty

\* Every step keeps the types.
LEMMA NextType == TypeOK /\ [Next]_vars => TypeOK'
<1> SUFFICES ASSUME TypeOK, [Next]_vars PROVE TypeOK'
  OBVIOUS
<1> USE DEF initVars, daemonVars, deviceVars, userVars
<1>1. ASSUME NEW on \in BOOLEAN, SetEnabled(on) PROVE TypeOK'
  BY <1>1, BoundsAssumption DEF TypeOK, SetEnabled, UserRoom, PersistEvent, Events
<1>2. CASE BootCompleted
  BY <1>2, BoundsAssumption DEF TypeOK, BootCompleted, UserRoom, Events
<1>3. CASE Crash
  BY <1>3, BoundsAssumption DEF TypeOK, Crash, Fault, ProcessGone
<1>4. CASE DoubleTap
  <2>1. "tap" \in Uevents /\ Deliver("tap")
    BY <1>4 DEF DoubleTap, Uevents
  <2> QED BY <1>4, <2>1, DeliverType DEF TypeOK, DoubleTap
<1>5. CASE OtherUevent
  <2>1. "other" \in Uevents /\ Deliver("other")
    BY <1>5 DEF OtherUevent, Uevents
  <2> QED BY <1>5, <2>1, DeliverType DEF TypeOK, OtherUevent
<1>6. CASE PowerOn
  BY <1>6 DEF TypeOK, PowerOn, Wake
<1>7. CASE ScreenOff
  BY <1>7 DEF TypeOK, ScreenOff
<1>8. CASE ResumeClear
  BY <1>8 DEF TypeOK, ResumeClear
<1>9. CASE ResumeNotify
  <2>1. "on" \in Uevents /\ Deliver("on")
    BY <1>9 DEF ResumeNotify, Uevents
  <2> QED BY <1>9, <2>1, DeliverType DEF TypeOK, ResumeNotify
<1>10. CASE HandleKey
  BY <1>10 DEF TypeOK, HandleKey, Wake
<1>11. CASE TakeEvent
  <2>1. Head(queue) \in Events /\ Tail(queue) \in Seq(Events)
        /\ Len(Tail(queue)) <= QCap
    BY <1>11, BoundsAssumption DEF TypeOK, TakeEvent
  <2>2. Matching(Head(queue)) \in Seq(Commands)
    <3>1. /\ <<>> \in Seq(Commands) /\ <<"start">> \in Seq(Commands)
          /\ <<"write1">> \in Seq(Commands)
          /\ <<"start", "start">> \in Seq(Commands)
          /\ <<"stop", "write0">> \in Seq(Commands)
      BY DEF Commands
    <3>2. enabled \in BOOLEAN /\ booted \in BOOLEAN
      BY DEF TypeOK
    <3> QED BY <2>1, <3>1, <3>2, MatchingCases DEF Events
  <2> QED
    BY <1>11, <2>1, <2>2 DEF TypeOK, TakeEvent
<1>12. CASE ExecStart
  <2>1. todo' \in Seq(Commands) /\ UNCHANGED <<queue, enabled, booted, faults>>
    BY <1>12, CommandType DEF ExecStart
  <2>2. CASE Spawn
    BY <1>12, <2>1, <2>2 DEF TypeOK, ExecStart, Spawn
  <2>3. CASE UNCHANGED <<svc, daemonVars>>
    BY <1>12, <2>1, <2>3 DEF TypeOK, ExecStart
  <2> QED BY <1>12, <2>2, <2>3 DEF ExecStart
<1>13. CASE ExecStop
  <2>1. todo' \in Seq(Commands) /\ UNCHANGED <<queue, enabled, booted, faults>>
    BY <1>13, CommandType DEF ExecStop
  <2>2. CASE ProcessGone
    <3>1. sock' \in Seq(Uevents) /\ Len(sock') <= UevCap
      BY <2>2, BoundsAssumption DEF ProcessGone
    <3> QED BY <1>13, <2>1, <2>2, <3>1 DEF TypeOK, ExecStop, ProcessGone
  <2>3. CASE /\ UNCHANGED daemonVars
             /\ svc' = IF svc = "restarting" THEN "stopped" ELSE svc
    BY <1>13, <2>1, <2>3 DEF TypeOK, ExecStop
  <2> QED BY <1>13, <2>2, <2>3 DEF ExecStop
<1>14. CASE ExecWrite
  <2>1. todo' \in Seq(Commands) /\ UNCHANGED <<queue, enabled, booted, faults>>
    BY <1>14, CommandType DEF ExecWrite
  <2>2. armed' \in BOOLEAN
    BY <1>14 DEF ExecWrite
  <2> QED BY <1>14, <2>1, <2>2 DEF TypeOK, ExecWrite
<1>15. CASE Reap
  BY <1>15 DEF TypeOK, Reap
<1>16. CASE Restart
  BY <1>16 DEF TypeOK, Restart, Spawn
<1>17. CASE UinputSetup \/ NetlinkOpen \/ PollTimeout
  BY <1>17 DEF TypeOK, UinputSetup, NetlinkOpen, PollTimeout, DaemonStep
<1>18. CASE SetupFails
  BY <1>18, BoundsAssumption DEF TypeOK, SetupFails, Fault, ProcessGone
<1>19. CASE ArmLow \/ ArmHigh
  <2>1. PICK e \in Events : SetArmProperty(e)
    BY <1>19 DEF ArmLow, ArmHigh, Events
  <2>2. /\ queue' \in Seq(Events) /\ Len(queue') <= QCap
        /\ faults' \in 0..MaxFaults
    BY <2>1, SetArmPropertyType
  <2> QED BY <1>19, <2>2 DEF TypeOK, ArmLow, ArmHigh, DaemonStep
<1>20. CASE RecvUevent
  BY <1>20, BoundsAssumption DEF TypeOK, RecvUevent
<1>21. CASE RecvError
  BY <1>21 DEF TypeOK, RecvError
<1>22. CASE UNCHANGED vars
  BY <1>22 DEF TypeOK, vars
<1> QED
  BY <1>1, <1>2, <1>3, <1>4, <1>5, <1>6, <1>7, <1>8, <1>9, <1>10, <1>11,
     <1>12, <1>13, <1>14, <1>15, <1>16, <1>17, <1>18, <1>19, <1>20, <1>21,
     <1>22 DEF Next, InitStep, DaemonNext, DeviceNext, UserNext

\* The bridge never leaves its types: no event, command or uevent but those of
\* the source, no overfull queue or socket, for every bound.
THEOREM TypeCorrect == Spec => []TypeOK
  BY InitType, NextType, PTL DEF Spec

-----------------------------------------------------------------------------
(* How the last decision of a sequence moves when the sequence does.       *)

\* A decision appended is the last one.
LEMMA AppendDecision ==
  ASSUME NEW S, NEW s \in Seq(S), NEW x \in S, NEW set, x \in set
  PROVE  /\ LastDecision(Append(s, x), set) = {Len(s) + 1}
         /\ Append(s, x)[Len(s) + 1] = x
         /\ ~Undecided(Append(s, x), set)
  BY DEF LastDecision, Undecided

\* Anything else appended leaves the last decision where it is.
LEMMA AppendOther ==
  ASSUME NEW S, NEW s \in Seq(S), NEW x \in S, NEW set, x \notin set
  PROVE  /\ LastDecision(Append(s, x), set) = LastDecision(s, set)
         /\ \A i \in LastDecision(s, set) : Append(s, x)[i] = s[i]
         /\ Undecided(Append(s, x), set) <=> Undecided(s, set)
  BY DEF LastDecision, Undecided

\* Taking the head keeps the last decision unless it was the head.
LEMMA TailDecision ==
  ASSUME NEW S, NEW s \in Seq(S), s # <<>>, NEW set
  PROVE  /\ \A i \in LastDecision(Tail(s), set) :
              i + 1 \in LastDecision(s, set) /\ Tail(s)[i] = s[i + 1]
         /\ Undecided(Tail(s), set) /\ Head(s) \in set =>
              1 \in LastDecision(s, set) /\ s[1] = Head(s)
         /\ Undecided(Tail(s), set) /\ Head(s) \notin set => Undecided(s, set)
<1> DEFINE t == Tail(s)
<1>1. /\ t \in Seq(S) /\ Len(t) = Len(s) - 1 /\ Len(s) \in Nat \ {0}
      /\ \A i \in 1..Len(t) : t[i] = s[i + 1]
      /\ Head(s) = s[1]
  BY HeadTailProperties
<1>2. DOMAIN t = 1..Len(t) /\ DOMAIN s = 1..Len(s)
  BY <1>1
<1> HIDE DEF t
<1>3. \A j \in DOMAIN s : j = 1 \/ (j - 1 \in DOMAIN t /\ s[j] = t[j - 1])
  BY <1>1, <1>2
<1>4. ASSUME NEW i \in LastDecision(t, set)
      PROVE  i + 1 \in LastDecision(s, set) /\ t[i] = s[i + 1]
  <2>1. i \in DOMAIN t /\ t[i] \in set /\ \A j \in DOMAIN t : j > i => t[j] \notin set
    BY DEF LastDecision
  <2>2. i + 1 \in DOMAIN s /\ s[i + 1] = t[i]
    BY <1>1, <1>2, <2>1
  <2>3. ASSUME NEW j \in DOMAIN s, j > i + 1 PROVE s[j] \notin set
    BY <1>1, <1>2, <1>3, <2>1, <2>3
  <2> QED BY <2>1, <2>2, <2>3 DEF LastDecision
<1>5. ASSUME Undecided(t, set) PROVE \A j \in DOMAIN s : j > 1 => s[j] \notin set
  BY <1>3, <1>5 DEF Undecided
<1>6. Undecided(t, set) /\ Head(s) \in set => 1 \in LastDecision(s, set)
  BY <1>1, <1>2, <1>5 DEF LastDecision
<1>7. Undecided(t, set) /\ Head(s) \notin set => Undecided(s, set)
  BY <1>1, <1>2, <1>5 DEF Undecided
<1> QED
  BY <1>1, <1>4, <1>6, <1>7 DEF t

-----------------------------------------------------------------------------
(* The service follows the setting.  SettingFollows is inductive: what init *)
(* still has to look at is a FIFO whose last decision is the newest write   *)
(* of the setting, and the newest decision not executed yet wins.           *)

SettingVars == <<enabled, queue, todo, disabled>>

\* The events init starts with agree with the setting.
LEMMA InitSetting == Init => SettingFollows
<1> SUFFICES ASSUME Init PROVE SettingFollows
  OBVIOUS
<1>1. ~Undecided(queue, Decides)
  <2>1. queue[1] = "all" /\ 1 \in DOMAIN queue
    BY DEF Init
  <2> QED BY <2>1 DEF Undecided, Decides
<1>2. \A i \in DOMAIN queue : Agrees(queue[i])
  BY DEF Init, Agrees
<1> QED
  BY <1>1, <1>2 DEF SettingFollows, LastDecision

\* A write of the setting is the newest decision.
LEMMA SetEnabledSetting ==
  ASSUME TypeOK, SettingFollows, NEW on \in BOOLEAN, SetEnabled(on)
  PROVE  SettingFollows'
<1>1. PersistEvent(on) \in Decides /\ PersistEvent(on) \in Events
  BY DEF PersistEvent, Decides, Events
<1>2. /\ LastDecision(queue', Decides) = {Len(queue) + 1}
      /\ queue'[Len(queue) + 1] = PersistEvent(on)
      /\ ~Undecided(queue', Decides)
  BY <1>1, AppendDecision DEF SetEnabled, TypeOK
<1>3. enabled' = on
  BY DEF SetEnabled
<1> QED
  BY <1>2, <1>3 DEF SettingFollows, Agrees

\* Any other event leaves the decisions as they are.
LEMMA AppendSetting ==
  ASSUME TypeOK, SettingFollows, NEW e \in Events, e \notin Decides,
         queue' = Append(queue, e), UNCHANGED <<enabled, todo, disabled>>
  PROVE  SettingFollows'
<1>1. /\ LastDecision(queue', Decides) = LastDecision(queue, Decides)
      /\ \A i \in LastDecision(queue, Decides) : queue'[i] = queue[i]
      /\ Undecided(queue', Decides) <=> Undecided(queue, Decides)
  BY AppendOther DEF TypeOK
<1>2. \A e2 : Agrees(e2)' <=> Agrees(e2)
  BY DEF Agrees, PersistEvent
<1> QED
  BY <1>1, <1>2 DEF SettingFollows, Agrees

\* Looking at an event turns a decision of the queue into one of the commands.
LEMMA TakeEventSetting ==
  ASSUME TypeOK, SettingFollows, TakeEvent
  PROVE  SettingFollows'
<1> DEFINE e == Head(queue)
<1>1. /\ e \in Events /\ queue \in Seq(Events) /\ queue # <<>>
      /\ enabled \in BOOLEAN /\ booted \in BOOLEAN
      /\ todo = <<>> /\ todo' = Matching(e) /\ queue' = Tail(queue)
      /\ UNCHANGED <<enabled, disabled>>
  BY DEF TypeOK, TakeEvent, userVars
<1>2. /\ \A i \in LastDecision(queue', Decides) :
           i + 1 \in LastDecision(queue, Decides) /\ queue'[i] = queue[i + 1]
      /\ Undecided(queue', Decides) /\ e \in Decides =>
           1 \in LastDecision(queue, Decides) /\ queue[1] = e
      /\ Undecided(queue', Decides) /\ e \notin Decides =>
           Undecided(queue, Decides)
  BY <1>1, TailDecision
<1>3. \A i \in LastDecision(queue', Decides) : Agrees(queue[i])'
  BY <1>1, <1>2 DEF SettingFollows, Agrees, PersistEvent
<1>4. ASSUME Undecided(queue', Decides)
      PROVE  /\ \A i \in LastDecision(todo', Switch) :
                  todo'[i] = "start" <=> enabled
             /\ Undecided(todo', Switch) => disabled = ~enabled
  <2>1. CASE e \in Decides
    <3>1. Agrees(e)
      BY <1>2, <1>4, <2>1 DEF SettingFollows
    <3>2. CASE enabled
      <4>1. todo' \in {<<"start">>, <<"start", "start">>}
        BY <1>1, <2>1, <3>1, <3>2, MatchingCases DEF Agrees, PersistEvent, Decides
      <4>2. todo'[1] = "start" /\ 1 \in DOMAIN todo'
            /\ \A i \in DOMAIN todo' : todo'[i] = "start"
        BY <4>1
      <4> QED BY <3>2, <4>2 DEF LastDecision, Undecided, Switch
    <3>3. CASE ~enabled
      <4>1. todo' = <<"stop", "write0">>
        BY <1>1, <2>1, <3>1, <3>3, MatchingCases DEF Agrees, PersistEvent, Decides
      <4>2. todo'[1] = "stop" /\ 1 \in DOMAIN todo'
            /\ \A i \in DOMAIN todo' : todo'[i] # "start"
        BY <4>1
      <4> QED BY <3>3, <4>2 DEF LastDecision, Undecided, Switch
    <3> QED BY <3>2, <3>3
  <2>2. CASE e \notin Decides
    <3>1. disabled = ~enabled
      <4>1. Undecided(queue, Decides) /\ Undecided(todo, Switch)
        BY <1>1, <1>2, <1>4, <2>2 DEF Undecided
      <4> QED BY <4>1 DEF SettingFollows
    <3>2. todo' = <<>> \/ todo' = <<"write1">> \/ (todo' = <<"start">> /\ enabled)
      BY <1>1, <2>2, MatchingCases DEF Decides, Events
    <3>3. CASE todo' = <<>> \/ todo' = <<"write1">>
      <4>1. \A i \in DOMAIN todo' : todo'[i] \notin Switch
        BY <3>3 DEF Switch
      <4> QED BY <3>1, <4>1 DEF LastDecision
    <3>4. CASE todo' = <<"start">> /\ enabled
      <4>1. \A i \in DOMAIN todo' : todo'[i] = "start"
        BY <3>4
      <4> QED BY <3>1, <3>4, <4>1 DEF LastDecision
    <3> QED BY <3>2, <3>3, <3>4
  <2> QED BY <2>1, <2>2
<1> QED
  BY <1>1, <1>3, <1>4 DEF SettingFollows

\* Running a command makes the service agree with it, or leaves it alone.
LEMMA CommandSetting ==
  ASSUME TypeOK, SettingFollows, NEW c \in Commands, NextCommand(c),
         c = "start" => disabled' = FALSE,
         c = "stop" => disabled' = TRUE,
         c \notin Switch => disabled' = disabled
  PROVE  SettingFollows'
<1>1. /\ todo \in Seq(Commands) /\ todo # <<>> /\ Head(todo) = c
      /\ todo' = Tail(todo)
      /\ enabled \in BOOLEAN /\ disabled \in BOOLEAN
      /\ UNCHANGED <<queue, enabled>>
  BY DEF TypeOK, NextCommand, userVars
<1>2. /\ \A i \in LastDecision(todo', Switch) :
           i + 1 \in LastDecision(todo, Switch) /\ todo'[i] = todo[i + 1]
      /\ Undecided(todo', Switch) /\ c \in Switch =>
           1 \in LastDecision(todo, Switch) /\ todo[1] = c
      /\ Undecided(todo', Switch) /\ c \notin Switch => Undecided(todo, Switch)
  BY <1>1, TailDecision
<1>3. \A i \in LastDecision(queue', Decides) : Agrees(queue[i])'
  BY <1>1 DEF SettingFollows, Agrees, PersistEvent
<1>4. ASSUME Undecided(queue, Decides)
      PROVE  \A i \in LastDecision(todo', Switch) : todo'[i] = "start" <=> enabled
  BY <1>2, <1>4 DEF SettingFollows
<1>5. ASSUME Undecided(queue, Decides), Undecided(todo', Switch)
      PROVE  disabled' = ~enabled
  <2>1. CASE c \in Switch
    <3>1. c = "start" <=> enabled
      BY <1>2, <1>5, <2>1 DEF SettingFollows
    <3> QED BY <1>1, <2>1, <3>1 DEF Switch
  <2>2. CASE c \notin Switch
    BY <1>2, <1>5, <2>2 DEF SettingFollows
  <2> QED BY <2>1, <2>2
<1> QED
  BY <1>1, <1>3, <1>4, <1>5 DEF SettingFollows

\* Every step keeps the last decision in agreement with the setting.
LEMMA NextSetting == TypeOK /\ SettingFollows /\ [Next]_vars => SettingFollows'
<1> SUFFICES ASSUME TypeOK, SettingFollows, [Next]_vars PROVE SettingFollows'
  OBVIOUS
<1>1. ASSUME UNCHANGED SettingVars PROVE SettingFollows'
  BY <1>1 DEF SettingVars, SettingFollows, Agrees, PersistEvent
<1>2. ASSUME NEW on \in BOOLEAN, SetEnabled(on) PROVE SettingFollows'
  BY <1>2, SetEnabledSetting
<1>3. CASE BootCompleted
  <2>1. "boot1" \in Events /\ "boot1" \notin Decides
    BY DEF Events, Decides
  <2> QED BY <1>3, <2>1, AppendSetting DEF BootCompleted
<1>4. ASSUME NEW e \in {"arm0", "arm1"}, SetArmProperty(e),
             UNCHANGED <<todo, svc, disabled, sock, overrun, deviceVars, userVars>>
      PROVE  SettingFollows'
  <2>1. e \in Events /\ e \notin Decides
    BY DEF Events, Decides
  <2>2. UNCHANGED <<enabled, todo, disabled>>
    BY <1>4 DEF userVars
  <2>3. CASE queue' = Append(queue, e)
    BY <2>1, <2>2, <2>3, AppendSetting
  <2>4. CASE UNCHANGED queue
    BY <1>1, <2>2, <2>4 DEF SettingVars
  <2> QED BY <1>4, <2>3, <2>4 DEF SetArmProperty
<1>5. CASE TakeEvent
  BY <1>5, TakeEventSetting
<1>6. CASE ExecStart
  BY <1>6, CommandSetting DEF ExecStart, Commands, Switch
<1>7. CASE ExecStop
  BY <1>7, CommandSetting DEF ExecStop, Commands, Switch
<1>8. CASE ExecWrite
  BY <1>8, CommandSetting DEF ExecWrite, Commands, Switch
<1>9. CASE ArmLow \/ ArmHigh
  BY <1>4, <1>9 DEF ArmLow, ArmHigh
<1>10. CASE \/ Reap \/ Restart \/ UinputSetup \/ NetlinkOpen \/ SetupFails
            \/ RecvUevent \/ RecvError \/ PollTimeout \/ Crash
  BY <1>1, <1>10 DEF SettingVars, Reap, Restart, UinputSetup, NetlinkOpen,
     SetupFails, RecvUevent, RecvError, PollTimeout, Crash, initVars, userVars
<1>11. CASE DeviceNext
  BY <1>1, <1>11 DEF SettingVars, DeviceNext, DoubleTap, OtherUevent, PowerOn,
     ScreenOff, ResumeClear, ResumeNotify, HandleKey, initVars, userVars
<1>12. CASE UNCHANGED vars
  BY <1>1, <1>12 DEF SettingVars, vars, initVars, userVars
<1> QED
  BY <1>2, <1>3, <1>5, <1>6, <1>7, <1>8, <1>9, <1>10, <1>11, <1>12
     DEF Next, InitStep, DaemonNext, UserNext

\* No toggling of the setting, however fast, and no late boot_completed event
\* makes init's pending work end anywhere but where the user left the setting.
THEOREM SettingFollowed == Spec => []SettingFollows
<1>1. TypeOK /\ SettingFollows /\ [Next]_vars => SettingFollows'
  BY NextSetting
<1> QED
  BY <1>1, InitSetting, TypeCorrect, PTL DEF Spec

-----------------------------------------------------------------------------
(* The service flag and the process.                                       *)

\* A service starts out disabled and without a process.
LEMMA InitFlag == Init => FlagGoverns
  BY DEF Init, FlagGoverns

\* Every step keeps flag and process together.
LEMMA NextFlag == TypeOK /\ FlagGoverns /\ [Next]_vars => FlagGoverns'
<1> SUFFICES ASSUME TypeOK, FlagGoverns, [Next]_vars PROVE FlagGoverns'
  OBVIOUS
<1> USE DEF FlagGoverns, initVars, daemonVars
<1>1. CASE UserNext
  BY <1>1 DEF UserNext, SetEnabled, BootCompleted, Crash, ProcessGone
<1>2. CASE DeviceNext
  BY <1>2 DEF DeviceNext, DoubleTap, OtherUevent, PowerOn, ScreenOff,
     ResumeClear, ResumeNotify, HandleKey
<1>3. CASE TakeEvent \/ ExecWrite
  BY <1>3 DEF TakeEvent, ExecWrite
<1>4. CASE ExecStart
  BY <1>4 DEF ExecStart, Spawn
<1>5. CASE ExecStop
  BY <1>5 DEF ExecStop, ProcessGone, TypeOK
<1>6. CASE Reap
  BY <1>6 DEF Reap
<1>7. CASE Restart
  BY <1>7 DEF Restart, Spawn
<1>8. CASE SetupFails
  BY <1>8 DEF SetupFails, ProcessGone, TypeOK
<1>9. CASE UinputSetup \/ NetlinkOpen \/ ArmLow \/ ArmHigh \/ PollTimeout
  BY <1>9 DEF UinputSetup, NetlinkOpen, ArmLow, ArmHigh, PollTimeout, DaemonStep
<1>10. CASE RecvUevent \/ RecvError
  BY <1>10 DEF RecvUevent, RecvError
<1>11. CASE UNCHANGED vars
  BY <1>11 DEF vars
<1> QED
  BY <1>1, <1>2, <1>3, <1>4, <1>5, <1>6, <1>7, <1>8, <1>9, <1>10, <1>11
     DEF Next, InitStep, DaemonNext

\* A disabled service has no live process, an enabled one is up or coming back.
THEOREM FlagGoverned == Spec => []FlagGoverns
<1>1. TypeOK /\ FlagGoverns /\ [Next]_vars => FlagGoverns'
  BY NextFlag
<1> QED
  BY <1>1, InitFlag, TypeCorrect, PTL DEF Spec

-----------------------------------------------------------------------------
(* No re-arm is lost.  NoLostArm needs two more facts to be inductive: a   *)
(* `write 0` only ever runs when its rule's stop has killed the daemon, and *)
(* a resume that clears first has not announced the screen yet.             *)

TodoShape ==
  /\ todo \in {<<>>, <<"start">>, <<"start", "start">>, <<"stop", "write0">>,
               <<"write0">>, <<"write1">>}
  /\ todo = <<"write0">> => disabled

ResumeShape == ClearFirst /\ "clear" \in pend => "notify" \in pend

ArmInv == TodoShape /\ ResumeShape /\ NoLostArm

\* Heads and tails of the command sequences that occur.
LEMMA TailShapes ==
  /\ Tail(<<"start">>) = <<>> /\ Head(<<"start">>) = "start"
  /\ Tail(<<"start", "start">>) = <<"start">>
  /\ Head(<<"start", "start">>) = "start"
  /\ Tail(<<"stop", "write0">>) = <<"write0">>
  /\ Head(<<"stop", "write0">>) = "stop"
  /\ Tail(<<"write0">>) = <<>> /\ Head(<<"write0">>) = "write0"
  /\ Tail(<<"write1">>) = <<>> /\ Head(<<"write1">>) = "write1"
  OBVIOUS

\* Every step keeps the shape of the commands under way.
LEMMA NextTodoShape == TypeOK /\ TodoShape /\ [Next]_vars => TodoShape'
<1> SUFFICES ASSUME TypeOK, TodoShape, [Next]_vars PROVE TodoShape'
  OBVIOUS
<1>1. ASSUME UNCHANGED <<todo, disabled>> PROVE TodoShape'
  BY <1>1 DEF TodoShape
<1>2. CASE TakeEvent
  <2>1. /\ Head(queue) \in Events /\ todo' = Matching(Head(queue))
        /\ enabled \in BOOLEAN /\ booted \in BOOLEAN
    BY <1>2 DEF TakeEvent, TypeOK
  <2>2. todo' \in {<<>>, <<"start">>, <<"start", "start">>, <<"stop", "write0">>,
                   <<"write1">>}
    BY <2>1, MatchingCases DEF Events
  <2>3. todo' # <<"write0">>
    <3>1. \A t \in {<<>>, <<"start">>, <<"start", "start">>, <<"stop", "write0">>,
                    <<"write1">>} : Len(t) # 1 \/ t[1] # "write0"
      OBVIOUS
    <3> QED BY <2>2, <3>1
  <2> QED BY <2>2, <2>3 DEF TodoShape
<1>3. CASE ExecStart
  <2>1. todo' \in {<<>>, <<"start">>}
    BY <1>3, TailShapes DEF TodoShape, ExecStart, NextCommand
  <2>2. todo' # <<"write0">>
    <3>1. \A t \in {<<>>, <<"start">>} : Len(t) # 1 \/ t[1] # "write0"
      OBVIOUS
    <3> QED BY <2>1, <3>1
  <2> QED BY <2>1, <2>2 DEF TodoShape
<1>4. CASE ExecStop
  <2>1. todo' = <<"write0">> /\ disabled'
    BY <1>4, TailShapes DEF TodoShape, ExecStop, NextCommand
  <2> QED BY <2>1 DEF TodoShape
<1>5. CASE ExecWrite
  <2>1. todo' = <<>>
    BY <1>5, TailShapes DEF TodoShape, ExecWrite, NextCommand
  <2>2. todo' # <<"write0">>
    BY <2>1
  <2> QED BY <2>1, <2>2 DEF TodoShape
<1>6. CASE UserNext \/ DeviceNext \/ DaemonNext \/ Reap \/ Restart \/ UNCHANGED vars
  BY <1>1, <1>6 DEF UserNext, SetEnabled, BootCompleted, Crash, DeviceNext,
     DoubleTap, OtherUevent, PowerOn, ScreenOff, ResumeClear, ResumeNotify,
     HandleKey, DaemonNext, UinputSetup, NetlinkOpen, SetupFails, ArmLow,
     ArmHigh, RecvUevent, RecvError, PollTimeout, Reap, Restart, vars, initVars
<1> QED
  BY <1>2, <1>3, <1>4, <1>5, <1>6 DEF Next, InitStep

\* Every step keeps the order of a resume.
LEMMA NextResumeShape == TypeOK /\ ResumeShape /\ [Next]_vars => ResumeShape'
<1> SUFFICES ASSUME TypeOK, ResumeShape, [Next]_vars PROVE ResumeShape'
  OBVIOUS
<1>1. ASSUME UNCHANGED pend PROVE ResumeShape'
  BY <1>1 DEF ResumeShape
<1>2. CASE PowerOn
  BY <1>2 DEF PowerOn, Wake, ResumeShape
<1>3. CASE HandleKey
  BY <1>1, <1>3 DEF HandleKey, Wake, ResumeShape
<1>4. CASE ResumeClear
  BY <1>4 DEF ResumeClear, ResumeShape
<1>5. CASE ResumeNotify
  BY <1>5 DEF ResumeNotify, ResumeShape
<1>6. CASE \/ UserNext \/ InitStep \/ DaemonNext \/ DoubleTap \/ OtherUevent
           \/ ScreenOff \/ UNCHANGED vars
  BY <1>1, <1>6 DEF UserNext, SetEnabled, BootCompleted, Crash, InitStep,
     TakeEvent, ExecStart, ExecStop, ExecWrite, Reap, Restart, DoubleTap,
     OtherUevent, ScreenOff, DaemonNext, UinputSetup, NetlinkOpen, SetupFails,
     ArmLow, ArmHigh, RecvUevent, RecvError, PollTimeout, vars, deviceVars
<1> QED
  BY <1>2, <1>3, <1>4, <1>5, <1>6 DEF Next, DeviceNext

\* Membership in a sequence under the three ways in which it changes.
LEMMA InSeqChanges ==
  ASSUME NEW S, NEW s \in Seq(S), NEW x \in S, NEW y
  PROVE  /\ InSeq(x, Append(s, x))
         /\ InSeq(y, s) => InSeq(y, Append(s, x))
         /\ s # <<>> /\ InSeq(y, s) => Head(s) = y \/ InSeq(y, Tail(s))
<1>1. InSeq(x, Append(s, x)) /\ (InSeq(y, s) => InSeq(y, Append(s, x)))
  BY DEF InSeq
<1>2. ASSUME s # <<>>, InSeq(y, s), Head(s) # y PROVE InSeq(y, Tail(s))
  <2>1. /\ Len(Tail(s)) = Len(s) - 1 /\ Tail(s) \in Seq(S)
        /\ \A i \in 1..Len(Tail(s)) : Tail(s)[i] = s[i + 1]
    BY <1>2, HeadTailProperties
  <2>2. PICK i \in DOMAIN s : s[i] = y
    BY <1>2 DEF InSeq
  <2>3. i - 1 \in 1..Len(Tail(s)) /\ Tail(s)[i - 1] = y
    BY <1>2, <2>1, <2>2
  <2> QED BY <2>1, <2>3 DEF InSeq
<1> QED
  BY <1>1, <1>2

\* Faults are never undone.
LEMMA FaultsGrow ==
  ASSUME TypeOK, [Next]_vars, faults' = 0
  PROVE  faults = 0 /\ ~Fault
<1>1. faults \in Nat
  BY BoundsAssumption DEF TypeOK
<1>2. ~Fault
  BY <1>1 DEF Fault
<1>3. UNCHANGED faults \/ Fault
  BY DEF Next, UserNext, SetEnabled, BootCompleted, Crash, DeviceNext, DoubleTap,
     OtherUevent, PowerOn, ScreenOff, ResumeClear, ResumeNotify, HandleKey,
     Deliver, InitStep, TakeEvent, ExecStart, ExecStop, ExecWrite, NextCommand,
     Reap, Restart, DaemonNext, UinputSetup, NetlinkOpen, SetupFails, ArmLow,
     ArmHigh, SetArmProperty, RecvUevent, RecvError, PollTimeout, vars
<1> QED
  BY <1>2, <1>3

\* Every step keeps an arm under way while the gesture is not armed.
LEMMA NextNoLostArm ==
  ASSUME TypeOK, FlagGoverns, ArmInv, [Next]_vars
  PROVE  NoLostArm'
<1> SUFFICES ASSUME ClearFirst, faults' = 0, svc' = "running", screen' = "on",
                    pend' = {}
             PROVE  armed' \/ ArmUnderWay'
  BY DEF NoLostArm
<1> USE DEF initVars, daemonVars, deviceVars, userVars
<1>1. faults = 0 /\ ~Fault
  BY FaultsGrow
<1>2. /\ queue \in Seq(Events) /\ todo \in Seq(Commands) /\ sock \in Seq(Uevents)
      /\ TodoShape /\ ResumeShape
  BY DEF TypeOK, ArmInv
<1>3. svc = "running" /\ screen = "on" /\ pend = {} => armed \/ ArmUnderWay
  BY <1>1 DEF ArmInv, NoLostArm
<1>4. ASSUME UNCHANGED <<svc, screen, pend, armed, pc>>,
             InSeq("on", sock) => InSeq("on", sock'),
             InSeq("tap", sock) => InSeq("tap", sock'),
             InSeq("arm1", queue) => InSeq("arm1", queue') \/ InSeq("write1", todo'),
             InSeq("write1", todo) => InSeq("write1", todo')
      PROVE  armed' \/ ArmUnderWay'
  BY <1>3, <1>4 DEF ArmUnderWay
<1>5. ASSUME NEW on \in BOOLEAN, SetEnabled(on) PROVE armed' \/ ArmUnderWay'
  <2>1. PersistEvent(on) \in Events /\ queue' = Append(queue, PersistEvent(on))
    BY <1>5 DEF SetEnabled, PersistEvent, Events
  <2>2. InSeq("arm1", queue) => InSeq("arm1", queue')
    BY <1>2, <2>1, InSeqChanges
  <2> QED BY <1>4, <1>5, <2>2 DEF SetEnabled
<1>6. CASE BootCompleted
  <2>1. "boot1" \in Events /\ queue' = Append(queue, "boot1")
    BY <1>6 DEF BootCompleted, Events
  <2>2. InSeq("arm1", queue) => InSeq("arm1", queue')
    BY <1>2, <2>1, InSeqChanges
  <2> QED BY <1>4, <1>6, <2>2 DEF BootCompleted
<1>7. CASE OtherUevent
  <2>1. "other" \in Uevents /\ (UNCHANGED sock \/ sock' = Append(sock, "other"))
    BY <1>7 DEF OtherUevent, Deliver, Uevents
  <2>2. /\ InSeq("on", sock) => InSeq("on", sock')
        /\ InSeq("tap", sock) => InSeq("tap", sock')
    BY <1>2, <2>1, InSeqChanges
  <2> QED BY <1>4, <1>7, <2>2 DEF OtherUevent
<1>8. CASE ResumeClear
  BY <1>2, <1>8 DEF ResumeClear, ResumeShape
<1>9. CASE ResumeNotify
  <2>1. CASE ~Listening
    <3>1. pc \in {"uinput", "netlink"} /\ pc' = pc
      BY <1>9, <2>1 DEF ResumeNotify, FlagGoverns, Listening, TypeOK
    <3> QED BY <3>1 DEF ArmUnderWay
  <2>2. CASE Listening
    <3>1. sock' = Append(sock, "on") /\ "on" \in Uevents
      BY <1>1, <1>9, <2>2 DEF ResumeNotify, Deliver, Uevents
    <3>2. InSeq("on", sock')
      BY <1>2, <3>1, InSeqChanges
    <3> QED BY <3>2 DEF ArmUnderWay
  <2> QED BY <2>1, <2>2
<1>10. CASE HandleKey
  BY <1>4, <1>10 DEF HandleKey, Wake
<1>11. CASE TakeEvent
  <2>1. /\ queue # <<>> /\ queue' = Tail(queue) /\ todo' = Matching(Head(queue))
        /\ todo = <<>>
    BY <1>11 DEF TakeEvent
  <2>2. CASE Head(queue) = "arm1"
    <3>1. Matching("arm1") = <<"write1">>
      BY MatchingCases DEF TypeOK, Events
    <3>2. InSeq("write1", todo')
      <4>1. todo' = <<"write1">>
        BY <2>1, <2>2, <3>1
      <4>2. 1 \in DOMAIN todo' /\ todo'[1] = "write1"
        BY <4>1
      <4> QED BY <4>2 DEF InSeq
    <3> QED BY <3>2 DEF ArmUnderWay
  <2>3. CASE Head(queue) # "arm1"
    <3>1. InSeq("arm1", queue) => InSeq("arm1", queue')
      BY <1>2, <2>1, <2>3, InSeqChanges
    <3>2. ~InSeq("write1", todo)
      BY <2>1 DEF InSeq
    <3> QED BY <1>4, <1>11, <3>1, <3>2 DEF TakeEvent
  <2> QED BY <2>2, <2>3
<1>12. CASE ExecStart
  <2>1. CASE Spawn
    BY <2>1 DEF Spawn, ArmUnderWay
  <2>2. CASE UNCHANGED <<svc, daemonVars>>
    <3>1. todo # <<>> /\ Head(todo) = "start" /\ todo' = Tail(todo) /\ queue' = queue
      BY <1>12 DEF ExecStart, NextCommand
    <3>2. InSeq("write1", todo) => InSeq("write1", todo')
      BY <1>2, <3>1, InSeqChanges
    <3> QED BY <1>4, <1>12, <2>2, <3>1, <3>2 DEF ExecStart
  <2> QED BY <1>12, <2>1, <2>2 DEF ExecStart
<1>13. CASE ExecWrite
  <2>1. CASE NextCommand("write0")
    <3>1. todo = <<"write0">>
      BY <1>2, <2>1, TailShapes DEF TodoShape, NextCommand
    <3>2. svc # "running" /\ UNCHANGED svc
      BY <1>2, <1>13, <3>1 DEF TodoShape, FlagGoverns, ExecWrite
    <3> QED BY <3>2
  <2>2. CASE armed' = (armed \/ Awake)
    BY <1>13, <2>2 DEF ExecWrite, Awake
  <2> QED BY <1>13, <2>1, <2>2 DEF ExecWrite
<1>14. CASE Restart \/ UinputSetup \/ NetlinkOpen \/ ArmLow \/ PollTimeout
  BY <1>14 DEF Restart, Spawn, UinputSetup, NetlinkOpen, ArmLow, PollTimeout,
     DaemonStep, ArmUnderWay
<1>15. CASE ArmHigh
  <2>1. queue' = Append(queue, "arm1") /\ "arm1" \in Events
    BY <1>1, <1>15 DEF ArmHigh, SetArmProperty, Events
  <2>2. InSeq("arm1", queue')
    BY <1>2, <2>1, InSeqChanges
  <2> QED BY <2>2 DEF ArmUnderWay
<1>16. CASE RecvUevent
  <2>1. CASE Head(sock) \in {"tap", "on"}
    BY <1>16, <2>1 DEF RecvUevent, ArmUnderWay
  <2>2. CASE Head(sock) \notin {"tap", "on"}
    <3>1. /\ InSeq("on", sock) => InSeq("on", sock')
          /\ InSeq("tap", sock) => InSeq("tap", sock')
      BY <1>2, <1>16, <2>2, InSeqChanges DEF RecvUevent
    <3> QED BY <1>4, <1>16, <2>2, <3>1 DEF RecvUevent
  <2> QED BY <2>1, <2>2
<1>17. CASE RecvError
  BY <1>4, <1>17 DEF RecvError
<1>18. CASE UNCHANGED vars
  BY <1>4, <1>18 DEF vars
<1>19. CASE \/ Crash \/ SetupFails \/ ExecStop \/ Reap \/ DoubleTap \/ PowerOn
            \/ ScreenOff
  BY <1>19 DEF Crash, SetupFails, ProcessGone, ExecStop, Reap, DoubleTap,
     PowerOn, ScreenOff, Wake
<1> QED
  BY <1>5, <1>6, <1>7, <1>8, <1>9, <1>10, <1>11, <1>12, <1>13, <1>14, <1>15,
     <1>16, <1>17, <1>18, <1>19
     DEF Next, InitStep, DaemonNext, DeviceNext, UserNext

\* While the panel is on and resumed, a running daemon has the gesture armed or
\* an arm is under way, for every order of resumes, uevents, toggles and
\* property events: the poll timeout is only needed for faults and for a driver
\* that announces the screen before it clears the arm.
THEOREM NoArmLost == Spec => []NoLostArm
<1>1. Init => ArmInv
  BY DEF Init, ArmInv, TodoShape, ResumeShape, NoLostArm
<1>2. TypeOK /\ FlagGoverns /\ ArmInv /\ [Next]_vars => ArmInv'
  BY NextTodoShape, NextResumeShape, NextNoLostArm DEF ArmInv
<1>3. ArmInv => NoLostArm
  BY DEF ArmInv
<1> QED
  BY <1>1, <1>2, <1>3, TypeCorrect, FlagGoverned, PTL DEF Spec

-----------------------------------------------------------------------------
(***************************************************************************)
(* The double-tap bridge implements WakeBridge: its safety part, for every *)
(* value of the constants.  (That an owed answer comes is left to TLC.)    *)
(***************************************************************************)
\* Only a listening daemon has a socket.
SockShape == ~Listening => sock = <<>>

\* Every step keeps the socket of a daemon that does not listen empty.
LEMMA NextSockShape ==
  TypeOK /\ FlagGoverns /\ SockShape /\ [Next]_vars => SockShape'
<1> SUFFICES ASSUME TypeOK, FlagGoverns, SockShape, [Next]_vars
             PROVE  SockShape'
  OBVIOUS
<1> USE DEF initVars, daemonVars
<1>1. ASSUME UNCHANGED <<pc, sock>> PROVE SockShape'
  BY <1>1 DEF SockShape, Listening
<1>2. ASSUME ProcessGone PROVE SockShape'
  BY <1>2 DEF SockShape, ProcessGone
<1>3. ASSUME Listening', [Next]_vars PROVE SockShape'
  BY <1>3 DEF SockShape
<1>4. ASSUME Spawn, svc \in {"stopped", "restarting"} PROVE SockShape'
  BY <1>4 DEF SockShape, Spawn, FlagGoverns, Listening
<1>5. CASE DoubleTap \/ OtherUevent \/ ResumeNotify
  BY <1>3, <1>5 DEF DoubleTap, OtherUevent, ResumeNotify, Deliver, SockShape, Listening
<1>6. CASE ExecStart
  BY <1>1, <1>4, <1>6 DEF ExecStart
<1>7. CASE ExecStop
  BY <1>1, <1>2, <1>7 DEF ExecStop
<1>8. CASE Restart
  BY <1>4, <1>8 DEF Restart
<1>9. CASE Crash \/ SetupFails
  BY <1>2, <1>9 DEF Crash, SetupFails
<1>10. CASE UinputSetup
  BY <1>10 DEF UinputSetup, DaemonStep, SockShape, Listening
<1>11. CASE NetlinkOpen \/ ArmLow \/ ArmHigh \/ RecvUevent \/ RecvError \/ PollTimeout
  BY <1>3, <1>11 DEF NetlinkOpen, ArmLow, ArmHigh, RecvUevent, RecvError,
     PollTimeout, DaemonStep, Listening
<1>12. CASE \/ (\E on \in BOOLEAN : SetEnabled(on)) \/ BootCompleted \/ PowerOn
            \/ ScreenOff \/ ResumeClear \/ HandleKey \/ TakeEvent \/ ExecWrite
            \/ Reap \/ UNCHANGED vars
  BY <1>1, <1>12 DEF SetEnabled, BootCompleted, PowerOn, ScreenOff, ResumeClear,
     HandleKey, TakeEvent, ExecWrite, Reap, vars
<1> QED
  BY <1>5, <1>6, <1>7, <1>8, <1>9, <1>10, <1>11, <1>12
     DEF Next, InitStep, DaemonNext, DeviceNext, UserNext

\* A daemon that does not listen has nothing to read.
LEMMA SockInvariant == Spec => []SockShape
<1>1. Init => SockShape
  BY DEF Init, SockShape
<1>2. TypeOK /\ FlagGoverns /\ SockShape /\ [Next]_vars => SockShape'
  BY NextSockShape
<1> QED
  BY <1>1, <1>2, TypeCorrect, FlagGoverned, PTL DEF Spec

\* A uevent other than a tap neither adds nor removes a tap.
LEMMA TapChanges ==
  ASSUME NEW s \in Seq(Uevents), NEW u \in Uevents, u # "tap"
  PROVE  /\ InSeq("tap", Append(s, u)) <=> InSeq("tap", s)
         /\ s # <<>> /\ Head(s) # "tap" => (InSeq("tap", Tail(s)) <=> InSeq("tap", s))
<1>1. InSeq("tap", Append(s, u)) <=> InSeq("tap", s)
  BY DEF InSeq
<1>2. ASSUME s # <<>>, InSeq("tap", Tail(s)) PROVE InSeq("tap", s)
  <2>1. /\ Len(Tail(s)) = Len(s) - 1 /\ Tail(s) \in Seq(Uevents)
        /\ \A i \in 1..Len(Tail(s)) : Tail(s)[i] = s[i + 1]
    BY <1>2, HeadTailProperties
  <2>2. PICK i \in DOMAIN Tail(s) : Tail(s)[i] = "tap"
    BY <1>2 DEF InSeq
  <2>3. i + 1 \in DOMAIN s /\ s[i + 1] = "tap"
    BY <1>2, <2>1, <2>2
  <2> QED BY <2>3 DEF InSeq
<1>3. s # <<>> /\ Head(s) # "tap" /\ InSeq("tap", s) => InSeq("tap", Tail(s))
  <2>1. "tap" \in Uevents
    BY DEF Uevents
  <2> QED BY <2>1, InSeqChanges
<1> QED
  BY <1>1, <1>2, <1>3

\* Each step of the bridge is a step of WakeBridge or leaves its state alone.
LEMMA StepRefines ==
  TypeOK /\ FlagGoverns /\ SockShape /\ [Next]_vars => [WB!Next]_(WB!vars)
<1> SUFFICES ASSUME TypeOK, FlagGoverns, SockShape, [Next]_vars
             PROVE  [WB!Next]_(WB!vars)
  OBVIOUS
<1> USE DEF initVars, daemonVars, deviceVars, userVars
<1>0. sock \in Seq(Uevents) /\ key \in BOOLEAN
  BY DEF TypeOK
<1>1. ASSUME Listening' = Listening, Owed' = Owed, screen' = screen
      PROVE  UNCHANGED WB!vars
  BY <1>1 DEF WB!vars
<1>2. ASSUME UNCHANGED <<sock, key, screen>>, Listening' = Listening
      PROVE  UNCHANGED WB!vars
  BY <1>1, <1>2 DEF Owed, InSeq
<1>3. ASSUME ProcessGone, UNCHANGED <<key, screen>>
      PROVE  WB!Down \/ UNCHANGED WB!vars
  <2>1. ~Listening' /\ sock' = <<>> /\ (Owed' <=> key)
    BY <1>3 DEF ProcessGone, Listening, Owed, InSeq
  <2>2. CASE Listening
    <3>1. Owed' = Owed \/ Owed' = FALSE
      BY <2>1 DEF Owed
    <3>2. Listening' = FALSE
      BY <2>1 DEF Listening
    <3>3. Owed' \in {Owed, FALSE}
      BY <3>1
    <3> QED BY <1>3, <2>2, <3>2, <3>3 DEF WB!Down
  <2>3. CASE ~Listening
    <3>1. Owed <=> key
      BY <2>3 DEF SockShape, Owed, InSeq
    <3>2. Owed' = Owed
      BY <2>1, <3>1 DEF Owed
    <3>3. Listening' = Listening
      BY <2>1, <2>3 DEF Listening
    <3> QED BY <1>1, <1>3, <3>2, <3>3
  <2> QED BY <2>2, <2>3
<1>4. CASE DoubleTap
  <2>1. screen = "off" /\ UNCHANGED <<pc, key, screen>> /\ Deliver("tap")
    BY <1>4 DEF DoubleTap
  <2>2. Listening' = Listening
    BY <2>1 DEF Listening
  <2>3. CASE UNCHANGED sock
    BY <1>2, <2>1, <2>2, <2>3
  <2>4. CASE Listening /\ sock' = Append(sock, "tap")
    <3>1. "tap" \in Uevents
      BY DEF Uevents
    <3>2. InSeq("tap", sock')
      BY <1>0, <2>4, <3>1, InSeqChanges
    <3>3. Owed' = TRUE
      BY <3>2 DEF Owed
    <3> QED BY <2>1, <2>2, <2>4, <3>3 DEF WB!Next, WB!Tap
  <2> QED BY <2>1, <2>3, <2>4 DEF Deliver
<1>5. ASSUME NEW u \in Uevents, u # "tap", Deliver(u), UNCHANGED <<pc, key, screen>>
      PROVE  UNCHANGED WB!vars
  <2>1. sock' = sock \/ sock' = Append(sock, u)
    BY <1>5 DEF Deliver
  <2>2. InSeq("tap", sock') <=> InSeq("tap", sock)
    BY <1>0, <1>5, <2>1, TapChanges
  <2>3. Owed' = Owed /\ Listening' = Listening
    BY <1>5, <2>2 DEF Owed, Listening
  <2> QED BY <1>1, <1>5, <2>3
<1>6. CASE OtherUevent \/ ResumeNotify
  BY <1>5, <1>6 DEF OtherUevent, ResumeNotify, Uevents
<1>7. CASE PowerOn
  <2>1. Owed' = Owed /\ Listening' = Listening
    BY <1>7 DEF PowerOn, Owed, InSeq, Listening
  <2> QED BY <1>7, <2>1 DEF PowerOn, Wake, WB!Next, WB!PowerOn
<1>8. CASE ScreenOff
  <2>1. Owed' = Owed /\ Listening' = Listening
    BY <1>8 DEF ScreenOff, Owed, InSeq, Listening
  <2> QED BY <1>8, <2>1 DEF ScreenOff, WB!Next, WB!ScreenOff
<1>9. CASE HandleKey
  <2>1. Owed /\ Listening' = Listening /\ Owed' \in BOOLEAN
    BY <1>9 DEF HandleKey, Owed, Listening
  <2>2. CASE screen = "off" /\ Wake
    BY <2>1, <2>2 DEF Wake, WB!Next, WB!Answer
  <2>3. CASE screen = "on" /\ UNCHANGED screen
    <3>1. CASE Owed' = FALSE
      BY <2>1, <2>3, <3>1 DEF WB!Next, WB!Spend
    <3>2. CASE Owed' = TRUE
      <4>1. Owed' = Owed
        BY <2>1, <3>2 DEF Owed
      <4> QED BY <1>1, <2>1, <2>3, <4>1
    <3> QED BY <2>1, <3>1, <3>2
  <2> QED BY <1>9, <2>2, <2>3 DEF HandleKey
<1>10. CASE Crash \/ SetupFails
  BY <1>3, <1>10 DEF Crash, SetupFails, WB!Next
<1>11. CASE ExecStop
  <2>1. CASE ProcessGone
    BY <1>3, <1>11, <2>1 DEF ExecStop, WB!Next
  <2>2. CASE UNCHANGED daemonVars
    BY <1>2, <1>11, <2>2 DEF ExecStop, Listening
  <2> QED BY <1>11, <2>1, <2>2 DEF ExecStop
<1>12. ASSUME Spawn, svc \in {"stopped", "restarting"}, UNCHANGED deviceVars
       PROVE  UNCHANGED WB!vars
  <2>1. Listening' = Listening
    BY <1>12 DEF Spawn, FlagGoverns, Listening
  <2> QED BY <1>2, <1>12, <2>1 DEF Spawn
<1>13. CASE ExecStart
  <2>1. CASE svc \in {"stopped", "restarting"} /\ Spawn
    BY <1>12, <1>13, <2>1 DEF ExecStart
  <2>2. CASE UNCHANGED daemonVars
    BY <1>2, <1>13, <2>2 DEF ExecStart, Listening
  <2> QED BY <1>13, <2>1, <2>2 DEF ExecStart
<1>14. CASE Restart
  BY <1>12, <1>14 DEF Restart
<1>15. CASE NetlinkOpen
  <2>1. ~Listening /\ Listening' /\ UNCHANGED <<sock, key, screen>>
    BY <1>15 DEF NetlinkOpen, DaemonStep, Listening
  <2>2. Owed' = Owed /\ Listening' = TRUE
    BY <2>1 DEF Owed, InSeq
  <2> QED BY <2>1, <2>2 DEF WB!Next, WB!Up
<1>16. CASE RecvUevent
  <2>1. /\ Listening' = Listening /\ UNCHANGED screen
        /\ sock # <<>> /\ sock' = Tail(sock) /\ key' = (key \/ Head(sock) = "tap")
    BY <1>16 DEF RecvUevent, Listening
  <2>2. CASE Head(sock) = "tap"
    <3>1. InSeq("tap", sock)
      BY <1>0, <2>1, <2>2 DEF InSeq
    <3>2. Owed' = Owed
      BY <2>1, <2>2, <3>1 DEF Owed
    <3> QED BY <1>1, <2>1, <3>2
  <2>3. CASE Head(sock) # "tap"
    <3>1. "on" \in Uevents
      BY DEF Uevents
    <3>2. InSeq("tap", sock') <=> InSeq("tap", sock)
      BY <1>0, <2>1, <2>3, <3>1, TapChanges
    <3>3. key' = key
      BY <1>0, <2>1, <2>3
    <3>4. Owed' = Owed
      BY <3>2, <3>3 DEF Owed
    <3> QED BY <1>1, <2>1, <3>4
  <2> QED BY <2>2, <2>3
<1>17. CASE UinputSetup \/ ArmLow \/ ArmHigh \/ RecvError \/ PollTimeout
  BY <1>2, <1>17 DEF UinputSetup, ArmLow, ArmHigh, RecvError, PollTimeout,
     DaemonStep, Listening
<1>18. CASE \/ (\E on \in BOOLEAN : SetEnabled(on)) \/ BootCompleted
            \/ ResumeClear \/ TakeEvent \/ ExecWrite \/ Reap \/ UNCHANGED vars
  BY <1>2, <1>18 DEF SetEnabled, BootCompleted, ResumeClear, TakeEvent,
     ExecWrite, Reap, vars, Listening
<1> QED
  BY <1>4, <1>6, <1>7, <1>8, <1>9, <1>10, <1>11, <1>13, <1>14, <1>15, <1>16,
     <1>17, <1>18 DEF Next, InitStep, DaemonNext, DeviceNext, UserNext

\* Every behaviour of the bridge is one WakeBridge allows: no tap the socket
\* accepted is lost while the daemon lives and the panel is dark, and only a
\* tap or the power button lights the panel.
THEOREM RefinesWakeBridge == Spec => WB!Spec
<1>1. Init => WB!Init
  BY DEF Init, WB!Init, Listening, Owed, InSeq
<1>2. TypeOK /\ FlagGoverns /\ SockShape /\ [Next]_vars => [WB!Next]_(WB!vars)
  BY StepRefines
<1> QED
  BY <1>1, <1>2, TypeCorrect, FlagGoverned, SockInvariant, PTL DEF Spec, WB!Spec
=============================================================================
