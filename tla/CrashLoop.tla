------------------------------ MODULE CrashLoop ------------------------------
(***************************************************************************)
(* A stock HAL that crashes whenever it runs, and the rules on its         *)
(* init.svc property that stop it: disable-crashloop-hals.rc has one for   *)
(* "running" and one for "restarting", disable-ssdaemon.rc only the first. *)
(* In the same queue of init waits the event of nx809j-enforce.rc.         *)
(***************************************************************************)
EXTENDS Naturals, Sequences

CONSTANTS
  MaxQueue,    \* bound: events that wait in init's queue
  MaxStarts    \* bound: starts that are not restarts, since power-on

VARIABLES
  rules,       \* states of the service that have a rule
  proc,        \* its process; dead is not reaped yet
  disabled, restarting,  \* flags of the service
  queue,       \* init's events that have a rule
  todo,        \* the command of the event being handled, or none
  starts,
  booted,      \* sys.boot_completed
  enforcing    \* SELinux
svcVars == <<proc, disabled, restarting>>
vars == <<rules, svcVars, queue, todo, starts, booted, enforcing>>

RuleSets == {{"running", "restarting"}, {"running"}}

TypeOK ==
  /\ rules \in RuleSets
  /\ proc \in {"none", "live", "dead"}
  /\ disabled \in BOOLEAN /\ restarting \in BOOLEAN
  /\ queue \in Seq({"running", "restarting", "boot_completed"})
  /\ Len(queue) <= MaxQueue
  /\ todo \in {"none", "stop", "enforce"}
  /\ starts \in 0..MaxStarts
  /\ booted \in BOOLEAN /\ enforcing \in BOOLEAN

\* The device boots permissive (BoardConfig.mk).
Init ==
  /\ rules \in RuleSets
  /\ proc = "none" /\ disabled = FALSE /\ restarting = FALSE
  /\ queue = <<>> /\ todo = "none" /\ starts = 0
  /\ booted = FALSE /\ enforcing = FALSE

-----------------------------------------------------------------------------
(* init.                                                                   *)

Emit(e) ==
  /\ Len(queue) < MaxQueue
  /\ queue' = IF e \in rules \cup {"boot_completed"} THEN Append(queue, e) ELSE queue

\* Mutant: the property is set by the first start only.
SpawnSilently ==
  /\ proc' = "live" /\ disabled' = FALSE /\ restarting' = FALSE
  /\ IF restarting THEN UNCHANGED queue ELSE Emit("running")
Spawn ==
  /\ proc' = "live" /\ disabled' = FALSE /\ restarting' = FALSE
  /\ Emit("running")

\* class_start, or a start that servicemanager asks for; of a process that is not
\* reaped yet it clears the flag only.
Start ==
  /\ starts < MaxStarts /\ starts' = starts + 1
  /\ \/ proc = "none" /\ Spawn
     \/ /\ proc # "none" /\ disabled' = FALSE
        /\ UNCHANGED <<proc, restarting, queue>>
  /\ UNCHANGED <<rules, todo, booted, enforcing>>

Crash ==
  /\ proc = "live" /\ proc' = "dead"
  /\ UNCHANGED <<rules, disabled, restarting, queue, todo, starts, booted, enforcing>>

Reap ==
  /\ proc = "dead" /\ proc' = "none"
  /\ \/ disabled /\ UNCHANGED <<restarting, queue>>
     \/ ~disabled /\ restarting' = TRUE /\ Emit("restarting")
  /\ UNCHANGED <<rules, disabled, todo, starts, booted, enforcing>>

\* The restart period is over.
Restart ==
  /\ restarting /\ Spawn
  /\ UNCHANGED <<rules, todo, starts, booted, enforcing>>

-----------------------------------------------------------------------------
(* The rules.                                                              *)

\* Mutant: the rule for boot_completed is not there.
MatchingLoopers(e) == IF e = "boot_completed" THEN "none" ELSE "stop"
Matching(e) == IF e = "boot_completed" THEN "enforce" ELSE "stop"

TakeEvent ==
  /\ todo = "none" /\ queue # <<>>
  /\ todo' = Matching(Head(queue)) /\ queue' = Tail(queue)
  /\ UNCHANGED <<rules, svcVars, starts, booted, enforcing>>

\* Mutant: a service that is not running is left alone.
ExecStopLive ==
  /\ todo = "stop" /\ todo' = "none"
  /\ disabled' = (disabled \/ proc = "live")
  /\ proc' = IF proc = "live" THEN "dead" ELSE proc
  /\ UNCHANGED <<rules, restarting, queue, starts, booted, enforcing>>

\* stop kills a process, and takes the service out of restarting.
ExecStop ==
  /\ todo = "stop" /\ todo' = "none"
  /\ disabled' = TRUE /\ restarting' = FALSE
  /\ proc' = IF proc = "live" THEN "dead" ELSE proc
  /\ UNCHANGED <<rules, queue, starts, booted, enforcing>>

ExecEnforce ==
  /\ todo = "enforce" /\ todo' = "none" /\ enforcing' = TRUE
  /\ UNCHANGED <<rules, svcVars, queue, starts, booted>>

BootCompleted ==
  /\ ~booted /\ booted' = TRUE /\ Emit("boot_completed")
  /\ UNCHANGED <<rules, svcVars, todo, starts, enforcing>>

\* Mutant: enforcing is written where the next boot reads it.
PowerOffKeeps ==
  /\ proc' = "none" /\ disabled' = FALSE /\ restarting' = FALSE
  /\ queue' = <<>> /\ todo' = "none" /\ starts' = 0
  /\ booted' = FALSE
  /\ UNCHANGED <<rules, enforcing>>
\* Power is lost; setenforce holds until the next boot, which is permissive again.
PowerOff ==
  /\ proc' = "none" /\ disabled' = FALSE /\ restarting' = FALSE
  /\ queue' = <<>> /\ todo' = "none" /\ starts' = 0
  /\ booted' = FALSE /\ enforcing' = FALSE
  /\ UNCHANGED rules

InitStep == Reap \/ Restart \/ TakeEvent \/ ExecStop \/ ExecEnforce
Next == Start \/ Crash \/ BootCompleted \/ InitStep
Spec == Init /\ [][Next]_vars

-----------------------------------------------------------------------------
\* disable-crashloop-hals.rc:1-2 "stopping them the instant init brings them up": a
\* live process of the service always has its stop on the way, however its
\* crashes, restarts and starts meet the stops of earlier ones, and with either
\* file's rules.
StopOnTheWay ==
  proc = "live" =>
    todo = "stop" \/ \E i \in 1..Len(queue) : queue[i] = "running"

\* At rest, with its loop broken.
LoopBroken == proc = "none" /\ ~restarting
=============================================================================
