-------------------------------- MODULE Dt2w --------------------------------
(***************************************************************************)
(* The double-tap-to-wake bridge of the device tree (dt2w/).               *)
(*                                                                         *)
(*   user ---persist.sys.dt2w.enabled---> init ---start/stop---> daemon    *)
(*   daemon ---sys.dt2w.arm 0,1---> init ---write---> touch driver         *)
(*   touch driver ---uevents (netlink)---> daemon ---KEY_WAKEUP---> screen *)
(*                                                                         *)
(* The daemon is dt2w_uewake.c.  init is Android's: it keeps one FIFO of   *)
(* property events, and the rules of dt2w_uewake.rc and                    *)
(* dt2w_uewake_arm.rc say which commands an event expands to.  Commands    *)
(* run one at a time, so the daemon, the user and the driver move between  *)
(* two commands of one event.                                              *)
(***************************************************************************)
EXTENDS Naturals, Sequences

CONSTANTS
  QCap,        \* bound: property events init holds at once
  UevCap,      \* uevents the netlink socket buffer holds
  MaxFaults,   \* bound: crashes, failed calls and dropped uevents
  Noise,       \* may uevents of other devices arrive?
  ClearFirst   \* does a resume clear the arm before it sends its uevent?

ASSUME BoundsAssumption ==
  /\ QCap \in Nat /\ QCap > 2
  /\ UevCap \in Nat \ {0}
  /\ MaxFaults \in Nat
  /\ Noise \in BOOLEAN /\ ClearFirst \in BOOLEAN

VARIABLES
  enabled,   \* persist.sys.dt2w.enabled is 1
  booted,    \* sys.boot_completed is 1
  queue,     \* property events init has not looked at yet
  todo,      \* commands of the event init is working on
  svc,       \* the process of service dt2w_uewake, as init sees it
  disabled,  \* the service's "disabled" flag
  pc,        \* where the daemon is in main()
  sock,      \* uevents in the daemon's netlink socket
  overrun,   \* state of that socket after its buffer overflowed
  screen,    \* the panel
  pend,      \* what the running resume of the touch driver still has to do
  armed,     \* the driver's is_wakeup_gesture flag
  key,       \* an injected KEY_WAKEUP the framework has not handled yet
  faults     \* faults so far

initVars   == <<queue, todo, svc, disabled>>
daemonVars == <<pc, sock, overrun>>
deviceVars == <<screen, pend, armed, key>>
userVars   == <<enabled, booted>>
vars       == <<initVars, daemonVars, deviceVars, userVars, faults>>

Events    == {"all", "persist0", "persist1", "boot1", "arm0", "arm1"}
Commands  == {"start", "stop", "write0", "write1"}
Uevents   == {"tap", "on", "other"}
Listening == pc \in {"low", "high", "poll"}
Awake     == screen = "on" /\ "clear" \notin pend

\* The event of a write to persist.sys.dt2w.enabled.
PersistEvent(on) == IF on THEN "persist1" ELSE "persist0"

TypeOK ==
  /\ enabled \in BOOLEAN /\ booted \in BOOLEAN
  /\ queue \in Seq(Events) /\ Len(queue) <= QCap
  /\ todo \in Seq(Commands)
  /\ svc \in {"stopped", "running", "dead", "restarting"}
  /\ disabled \in BOOLEAN
  /\ pc \in {"none", "uinput", "netlink", "low", "high", "poll"}
  /\ sock \in Seq(Uevents) /\ Len(sock) <= UevCap
  /\ overrun \in {"no", "error", "congested"}
  /\ screen \in {"on", "off"}
  /\ pend \in SUBSET {"clear", "notify"}
  /\ armed \in BOOLEAN /\ key \in BOOLEAN
  /\ faults \in 0..MaxFaults

(***************************************************************************)
(* init has just enabled property triggers: the event "all" is queued, and *)
(* behind it the event of a setting loaded from /data, if the user ever    *)
(* changed the default, which is on.  The service block says `disabled`.   *)
(***************************************************************************)
Init ==
  /\ enabled \in BOOLEAN
  /\ booted = FALSE
  /\ \/ queue = <<"all">> /\ enabled
     \/ queue = <<"all", PersistEvent(enabled)>>
  /\ todo = <<>>
  /\ svc = "stopped" /\ disabled = TRUE
  /\ pc = "none" /\ sock = <<>> /\ overrun = "no"
  /\ screen = "on" /\ pend = {} /\ armed = FALSE /\ key = FALSE
  /\ faults = 0

-----------------------------------------------------------------------------
(* What happens outside the bridge: the user, the boot, faults.            *)

\* Room that only the daemon may use: an arm pulse is two events.
UserRoom == Len(queue) < QCap - 2

SetEnabled(on) ==
  /\ UserRoom
  /\ enabled' = on
  /\ queue' = Append(queue, PersistEvent(on))
  /\ UNCHANGED <<booted, todo, svc, disabled, daemonVars, deviceVars, faults>>

BootCompleted ==
  /\ ~booted /\ UserRoom
  /\ booted' = TRUE
  /\ queue' = Append(queue, "boot1")
  /\ UNCHANGED <<enabled, todo, svc, disabled, daemonVars, deviceVars, faults>>

Fault == faults < MaxFaults /\ faults' = faults + 1

\* The process is gone: its socket and what was in it go with it, and init
\* holds a zombie until it reaps it.
ProcessGone ==
  /\ svc' = "dead" /\ pc' = "none"
  /\ sock' = <<>> /\ overrun' = "no"

Crash ==
  /\ svc = "running" /\ Fault /\ ProcessGone
  /\ UNCHANGED <<queue, todo, disabled, deviceVars, userVars>>

-----------------------------------------------------------------------------
(* The touch driver and the panel.                                         *)

\* Mutant: the buffer has no limit.
DeliverUnbounded(u) ==
  \/ ~Listening /\ UNCHANGED <<sock, overrun, faults>>
  \/ Listening /\ sock' = Append(sock, u) /\ UNCHANGED <<overrun, faults>>

\* A uevent is multicast to the daemon if it listens.  A full buffer drops
\* it, and a socket that overflowed drops everything until it is drained.
Deliver(u) ==
  \/ ~Listening /\ UNCHANGED <<sock, overrun, faults>>
  \/ /\ Listening /\ overrun = "no" /\ Len(sock) < UevCap
     /\ sock' = Append(sock, u)
     /\ UNCHANGED <<overrun, faults>>
  \/ /\ Listening /\ (overrun # "no" \/ Len(sock) = UevCap)
     /\ Fault
     /\ overrun' = IF overrun = "no" THEN "error" ELSE overrun
     /\ UNCHANGED sock

\* An armed driver reports a double tap on the dark panel.
DoubleTap ==
  /\ screen = "off" /\ armed
  /\ Deliver("tap")
  /\ UNCHANGED <<pc, initVars, deviceVars, userVars>>

OtherUevent ==
  /\ Noise /\ Listening
  /\ Deliver("other")
  /\ UNCHANGED <<pc, initVars, deviceVars, userVars>>

Wake == screen' = "on" /\ pend' = {"clear", "notify"}

PowerOn ==
  /\ screen = "off" /\ Wake
  /\ UNCHANGED <<armed, key, initVars, daemonVars, userVars, faults>>

ScreenOff ==
  /\ screen = "on" /\ pend = {}
  /\ screen' = "off"
  /\ UNCHANGED <<pend, armed, key, initVars, daemonVars, userVars, faults>>

\* Every resume clears the arm ...
ResumeClear ==
  /\ "clear" \in pend
  /\ pend' = pend \ {"clear"}
  /\ armed' = FALSE
  /\ UNCHANGED <<screen, key, initVars, daemonVars, userVars, faults>>

\* ... and sends the screen-on uevent, before or after that.
ResumeNotify ==
  /\ "notify" \in pend
  /\ ClearFirst => "clear" \notin pend
  /\ pend' = pend \ {"notify"}
  /\ Deliver("on")
  /\ UNCHANGED <<screen, armed, key, pc, initVars, userVars>>

\* The framework handles KEY_WAKEUP, flagged WAKE in dt2w_uewake.kl.
HandleKey ==
  /\ key /\ key' = FALSE
  /\ \/ screen = "off" /\ Wake
     \/ screen = "on" /\ UNCHANGED <<screen, pend>>
  /\ UNCHANGED <<armed, initVars, daemonVars, userVars, faults>>

-----------------------------------------------------------------------------
(* init: the rules of the two .rc files, and the service.                  *)

\* Mutants: the setting is only looked at once booted; no stop rule for a change
\* of it; a boot rule that does not look at it.
RuleStartAfterBoot(e) == IF e = "persist1" /\ booted THEN <<"start">> ELSE <<>>
RuleStopAtBootOnly(e) == IF e = "all" /\ ~enabled THEN <<"stop">> ELSE <<>>
RuleBootStartAlways(e) == IF e = "boot1" THEN <<"start">> ELSE <<>>

\* The commands each rule contributes to event e, in the order in which init
\* parsed the files: /system_ext before /odm.
RuleStart(e)     == IF e = "persist1" \/ (e = "all" /\ enabled)
                    THEN <<"start">> ELSE <<>>
RuleStop(e)      == IF e = "persist0" \/ (e = "all" /\ ~enabled)
                    THEN <<"stop">> ELSE <<>>
RuleBootStart(e) == IF /\ e \in {"boot1", "persist1", "all"}
                       /\ booted /\ enabled
                    THEN <<"start">> ELSE <<>>
RuleDisarm(e)    == IF e = "persist0" \/ (e = "all" /\ ~enabled)
                    THEN <<"write0">> ELSE <<>>
RuleArm(e)       == IF e = "arm1" THEN <<"write1">> ELSE <<>>

Matching(e) == RuleStart(e) \o RuleStop(e) \o RuleBootStart(e)
                 \o RuleDisarm(e) \o RuleArm(e)

TakeEvent ==
  /\ todo = <<>> /\ queue # <<>>
  /\ todo' = Matching(Head(queue))
  /\ queue' = Tail(queue)
  /\ UNCHANGED <<svc, disabled, daemonVars, deviceVars, userVars, faults>>

NextCommand(c) ==
  /\ todo # <<>> /\ Head(todo) = c
  /\ todo' = Tail(todo)
  /\ UNCHANGED <<queue, userVars, faults>>

Spawn == svc' = "running" /\ pc' = "uinput" /\ UNCHANGED <<sock, overrun>>

\* A start clears the disabled flag; a process that is there, even a dying
\* one, is left alone.
ExecStart ==
  /\ NextCommand("start")
  /\ disabled' = FALSE
  /\ \/ svc \in {"stopped", "restarting"} /\ Spawn
     \/ svc \in {"running", "dead"} /\ UNCHANGED <<svc, daemonVars>>
  /\ UNCHANGED deviceVars

\* A stop sets the flag, kills the process, and calls off a pending restart.
ExecStop ==
  /\ NextCommand("stop")
  /\ disabled' = TRUE
  /\ \/ svc = "running" /\ ProcessGone
     \/ /\ svc # "running"
        /\ svc' = IF svc = "restarting" THEN "stopped" ELSE svc
        /\ UNCHANGED daemonVars
  /\ UNCHANGED deviceVars

\* write /proc/touchscreen/wake_gesture: refused while the driver is suspended.
ExecWrite ==
  /\ \/ NextCommand("write0") /\ armed' = (armed /\ ~Awake)
     \/ NextCommand("write1") /\ armed' = (armed \/ Awake)
  /\ UNCHANGED <<svc, disabled, daemonVars, screen, pend, key>>

\* init reaps the zombie and schedules a restart unless the service is disabled.
Reap ==
  /\ svc = "dead"
  /\ svc' = IF disabled THEN "stopped" ELSE "restarting"
  /\ UNCHANGED <<queue, todo, disabled, daemonVars, deviceVars, userVars, faults>>

Restart ==
  /\ svc = "restarting" /\ Spawn
  /\ UNCHANGED <<queue, todo, disabled, deviceVars, userVars, faults>>

-----------------------------------------------------------------------------
(* The daemon: main() of dt2w_uewake.c.                                    *)

DaemonStep(from, to) == pc = from /\ pc' = to

UinputSetup ==
  /\ DaemonStep("uinput", "netlink")
  /\ UNCHANGED <<sock, overrun, initVars, deviceVars, userVars, faults>>

NetlinkOpen ==
  /\ DaemonStep("netlink", "low")
  /\ UNCHANGED <<sock, overrun, initVars, deviceVars, userVars, faults>>

\* Either set-up call fails and main returns 1.
SetupFails ==
  /\ pc \in {"uinput", "netlink"} /\ Fault /\ ProcessGone
  /\ UNCHANGED <<queue, todo, disabled, deviceVars, userVars>>

\* One property set of arm_gesture: init's queue gets the event, or the set
\* fails, which the daemon at most logs.
SetArmProperty(e) ==
  \/ Len(queue) < QCap /\ queue' = Append(queue, e) /\ UNCHANGED faults
  \/ Fault /\ UNCHANGED queue

ArmLow ==
  /\ DaemonStep("low", "high") /\ SetArmProperty("arm0")
  /\ UNCHANGED <<todo, svc, disabled, sock, overrun, deviceVars, userVars>>

ArmHigh ==
  /\ DaemonStep("high", "poll") /\ SetArmProperty("arm1")
  /\ UNCHANGED <<todo, svc, disabled, sock, overrun, deviceVars, userVars>>

\* Mutants: only a double tap re-arms; the backlog behind a uevent is dropped.
RecvTapOnly ==
  /\ pc = "poll" /\ sock # <<>> /\ overrun # "error"
  /\ sock' = Tail(sock)
  /\ overrun' = IF Len(sock) = 1 THEN "no" ELSE overrun
  /\ key' = (key \/ Head(sock) = "tap")
  /\ pc' = IF Head(sock) = "tap" THEN "low" ELSE "poll"
  /\ UNCHANGED <<screen, pend, armed, initVars, userVars, faults>>

RecvAndFlush ==
  /\ pc = "poll" /\ sock # <<>> /\ overrun # "error"
  /\ sock' = <<>> /\ overrun' = "no"
  /\ key' = (key \/ Head(sock) = "tap")
  /\ pc' = IF Head(sock) \in {"tap", "on"} THEN "low" ELSE "poll"
  /\ UNCHANGED <<screen, pend, armed, initVars, userVars, faults>>

\* recv() succeeds: a double tap injects the key and re-arms, any other
\* screen-on re-arms, every other uevent is ignored.  A drained socket is no
\* longer congested.
RecvUevent ==
  /\ pc = "poll" /\ sock # <<>> /\ overrun # "error"
  /\ sock' = Tail(sock)
  /\ overrun' = IF Len(sock) = 1 THEN "no" ELSE overrun
  /\ key' = (key \/ Head(sock) = "tap")
  /\ pc' = IF Head(sock) \in {"tap", "on"} THEN "low" ELSE "poll"
  /\ UNCHANGED <<screen, pend, armed, initVars, userVars, faults>>

\* recv() returns ENOBUFS once after an overflow; the loop goes on.
RecvError ==
  /\ pc = "poll" /\ overrun = "error"
  /\ overrun' = "congested"
  /\ UNCHANGED <<pc, sock, initVars, deviceVars, userVars, faults>>

\* Mutant: a timeout only polls again.
PollTimeoutIdle ==
  /\ pc = "poll" /\ sock = <<>>
  /\ UNCHANGED vars

\* poll() returns 0: REARM_TIMEOUT_MS went by without any uevent.
PollTimeout ==
  /\ DaemonStep("poll", "low") /\ sock = <<>>
  /\ UNCHANGED <<sock, overrun, initVars, deviceVars, userVars, faults>>

-----------------------------------------------------------------------------
InitStep   == TakeEvent \/ ExecStart \/ ExecStop \/ ExecWrite \/ Reap \/ Restart
DaemonNext == \/ UinputSetup \/ NetlinkOpen \/ SetupFails \/ ArmLow \/ ArmHigh
              \/ RecvUevent \/ RecvError \/ PollTimeout
DeviceNext == \/ DoubleTap \/ OtherUevent \/ PowerOn \/ ScreenOff
              \/ ResumeClear \/ ResumeNotify \/ HandleKey
UserNext   == (\E on \in BOOLEAN : SetEnabled(on)) \/ BootCompleted \/ Crash

Next == InitStep \/ DaemonNext \/ DeviceNext \/ UserNext

Spec == Init /\ [][Next]_vars

(***************************************************************************)
(* init, the kernel and the scheduler keep going; nothing forces the user, *)
(* other devices or faults to act.  The poll timeout is fair only if it    *)
(* stays enabled: any uevent restarts its eight seconds.                   *)
(***************************************************************************)
Fairness ==
  /\ WF_vars(TakeEvent) /\ WF_vars(ExecStart) /\ WF_vars(ExecStop)
  /\ WF_vars(ExecWrite) /\ WF_vars(Reap) /\ WF_vars(Restart)
  /\ WF_vars(UinputSetup) /\ WF_vars(NetlinkOpen)
  /\ WF_vars(ArmLow) /\ WF_vars(ArmHigh)
  /\ WF_vars(RecvUevent) /\ WF_vars(RecvError) /\ WF_vars(PollTimeout)
  /\ WF_vars(ResumeClear) /\ WF_vars(ResumeNotify) /\ WF_vars(HandleKey)

FairSpec == Spec /\ Fairness
=============================================================================
