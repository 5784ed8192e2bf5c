-------------------------------- MODULE Boot --------------------------------
(***************************************************************************)
(* One device: the calibration copied in post-fs-data, then the HALs, of   *)
(* which one crashes in a loop, and SELinux enforcing from boot_completed  *)
(* on.  Power may be lost at any moment, and everything begins again.      *)
(***************************************************************************)
EXTENDS FpCal

CONSTANTS MaxQueue, MaxStarts

ASSUME BoundsAssumption == MaxQueue \in Nat /\ MaxStarts \in Nat

VARIABLES rules, proc, disabled, restarting, queue, todo, starts, booted, enforcing
loopVars == <<rules, proc, disabled, restarting, queue, todo, starts, booted, enforcing>>
bootVars == <<vars, loopVars>>

Loop == INSTANCE CrashLoop

BootInit == Init /\ Loop!Init

\* The HALs are started after post-fs-data, so init's services run when it is done.
Services     == phase = "up" /\ Loop!Next /\ UNCHANGED vars
Calibration  == Running /\ UNCHANGED loopVars
BootPowerLoss == PowerLoss /\ Loop!PowerOff

BootNext == Services \/ Calibration \/ BootPowerLoss

\* init goes on with its commands, reaps and restarts; the framework comes up.
BootSpec ==
  /\ BootInit /\ [][BootNext]_bootVars
  /\ WF_bootVars(phase = "up" /\ Loop!Reap /\ UNCHANGED vars)
  /\ WF_bootVars(phase = "up" /\ Loop!Restart /\ UNCHANGED vars)
  /\ WF_bootVars(phase = "up" /\ Loop!TakeEvent /\ UNCHANGED vars)
  /\ WF_bootVars(phase = "up" /\ (Loop!ExecStop \/ Loop!ExecEnforce) /\ UNCHANGED vars)

-----------------------------------------------------------------------------
BootTypeOK == TypeOK /\ Loop!TypeOK

\* See CrashLoop.
StopOnTheWay == Loop!StopOnTheWay

\* disable-ssdaemon.rc:4-5 "stops it, breaking the respawn loop": on a device that
\* stays up, the crashing service ends stopped for good.
LoopEnds == <>[](phase = "up") => <>[]Loop!LoopBroken

\* nx809j-enforce.rc:4 "init flips to Enforcing once boot completes": however many
\* events of crashing services are in init's queue.  The documents of the release
\* say the opposite, see StaysPermissive.
Enforced == [](booted => <>(enforcing \/ phase = "off"))

\* release-docs/INSTALL.md:77 "without it the device stays permissive", of an optional
\* module that nothing here installs; ROADMAP.md:39 "Ships permissive".  The image
\* does not: device.mk:457-460 ships nx809j-enforce.rc.
StaysPermissive == ~enforcing

\* restore-fp-cal.rc:12 "relies on the device shipping permissive": no calibration
\* file is copied, and no attribute set, by a boot that enforces already.
SeededPermissive ==
  [][phase = "boot" /\ <<content, attrs>>' # <<content, attrs>> /\ phase' = "boot"
       => ~enforcing]_bootVars
=============================================================================
