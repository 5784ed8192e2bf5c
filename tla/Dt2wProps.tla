------------------------------ MODULE Dt2wProps ------------------------------
(***************************************************************************)
(* What the double-tap bridge promises, stated over Dt2w.                  *)
(***************************************************************************)
EXTENDS Dt2w

InSeq(x, s) == \E i \in DOMAIN s : s[i] = x

(***************************************************************************)
(* The service follows the setting.  Some event or command that init still *)
(* has to look at decides the service's fate, and the last one of them     *)
(* agrees with the setting; when none is left, the service itself agrees.  *)
(* The rules of dt2w_uewake.rc and init's FIFO order are what this is      *)
(* about: no toggling, however fast, and no boot_completed event handled   *)
(* late may leave the bridge in the state the user last turned off.        *)
(***************************************************************************)
Decides == {"all", "persist0", "persist1"}

Agrees(e) == e = "all" \/ e = PersistEvent(enabled)

Undecided(s, set) == \A i \in DOMAIN s : s[i] \notin set

LastDecision(s, set) ==
  {i \in DOMAIN s : s[i] \in set /\ \A j \in DOMAIN s : j > i => s[j] \notin set}

Switch == {"start", "stop"}

SettingFollows ==
  /\ \A i \in LastDecision(queue, Decides) : Agrees(queue[i])
  /\ Undecided(queue, Decides) =>
       \A i \in LastDecision(todo, Switch) : todo[i] = "start" <=> enabled
  /\ Undecided(queue, Decides) /\ Undecided(todo, Switch) => disabled = ~enabled

\* What the disabled flag means for the process: init never leaves a process
\* of a disabled service running, nor forgets to bring back an enabled one.
FlagGoverns == /\ disabled  => svc \in {"stopped", "dead"}
               /\ ~disabled => svc # "stopped"
               /\ svc = "running" <=> pc # "none"

\* While the panel is on and resumed, a running daemon has the gesture armed or
\* an arm is under way without the help of the poll timeout: no order of
\* resume, uevent, property events and toggles loses a re-arm.  (No faults, and
\* a driver that clears before it announces the screen.)
ArmUnderWay ==
  \/ pc \in {"uinput", "netlink", "low", "high"}
  \/ InSeq("on", sock) \/ InSeq("tap", sock)
  \/ InSeq("arm1", queue) \/ InSeq("write1", todo)
NoLostArm ==
  ClearFirst /\ faults = 0 /\ svc = "running" /\ screen = "on" /\ pend = {}
    => armed \/ ArmUnderWay

\* A disabled bridge is disarmed: dt2w_uewake.c:31-32 "clears wake_gesture when
\* disabled", device.mk:190 "disarms wake_gesture too".
DisabledIsDisarmed ==
  queue = <<>> /\ todo = <<>> /\ ~enabled /\ Awake => ~armed

\* Once the user leaves the setting on, the daemon is eventually up for good,
\* whatever crashed or failed to start before (rc:24-31; main returns 1).
EnabledRuns   == <>[]enabled => <>[](pc \in {"low", "high", "poll"})

\* Once it is left off, the daemon is eventually down for good (rc:27-28).
DisabledStops == <>[]~enabled => <>[](svc = "stopped")

\* With the setting and the panel left on, the gesture ends up armed and stays
\* so, whatever crashed, failed or was dropped before (the safety net of
\* dt2w_uewake.c:28-29 and 50-52).
ReArmed == <>[](enabled /\ screen = "on") => <>[]armed

\* The same, if uevents of other devices do not keep coming: each one begins the
\* timeout of line 163 anew.
ReArmedInQuiet == <>[][~OtherUevent]_vars => ReArmed

(***************************************************************************)
(* The refinement of WakeBridge: a tap is owed an answer from the moment   *)
(* the socket holds it until the framework has handled its key.            *)
(***************************************************************************)
Owed == key \/ InSeq("tap", sock)

WB == INSTANCE WakeBridge WITH up <- Listening, owed <- Owed

\* The daemon, init and the driver together implement WakeBridge: no tap the
\* socket accepted is lost while the daemon lives, none lights the panel twice
\* on its own, and an owed answer comes (main()'s loop, lines 162-196).
ImplementsWakeBridge == WB!FairSpec
=============================================================================
