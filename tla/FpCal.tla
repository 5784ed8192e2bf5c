-------------------------------- MODULE FpCal --------------------------------
(***************************************************************************)
(* The fingerprint calibration on /data.  At every boot restore-fp-cal.rc  *)
(* copies the shipped files there and fixes their attributes, before the   *)
(* HAL starts; goodix_calib_cb asks the HAL's daemon for a new calibration *)
(* and waits a fixed time.  A copy or a request may fail, a calibration    *)
(* may stop halfway, and power may be lost at any moment.                  *)
(***************************************************************************)
EXTENDS Naturals, Sequences

CONSTANTS
  File,      \* files of /data/vendor/goodix
  Seeds,     \* those the rc file copies, in its order
  CalFiles   \* those a calibration writes (goodix_calib.cpp:24)

N      == Len(Seeds)
Seeded == {Seeds[i] : i \in 1..N}
Attrs  == {"owner", "mode", "label"}

ASSUME SeedsAssumption ==
  /\ Seeds \in Seq(File) /\ CalFiles \subseteq File
  /\ \A i, j \in 1..N : Seeds[i] = Seeds[j] => i = j

VARIABLES
  phase,     \* the device: off, in post-fs-data, up
  step,      \* commands of post-fs-data that were executed
  content,   \* of each file; "torn" is neither the old nor the new one
  attrs,     \* of each file, the attributes that are as the HAL needs them
  dirty,     \* files written since the device was switched on
  failed,    \* history: files this boot could not copy
  writing,   \* files the daemon has still to write
  client     \* goodix_calib_cb
fileVars == <<content, attrs, dirty, failed>>
toolVars == <<writing, client>>
vars == <<phase, step, fileVars, toolVars>>

TypeOK ==
  /\ phase \in {"off", "boot", "up"}
  /\ step \in 0..(3 * N + 2)
  /\ content \in [File -> {"none", "shipped", "new", "torn"}]
  /\ attrs \in [File -> SUBSET Attrs]
  /\ dirty \subseteq File /\ failed \subseteq Seeded /\ writing \subseteq CalFiles
  /\ client \in {"none", "ready", "waiting"}

Init ==
  /\ phase = "off" /\ step = 0
  /\ content = [f \in File |-> "none"] /\ attrs = [f \in File |-> {}]
  /\ dirty = {} /\ failed = {} /\ writing = {} /\ client = "none"

-----------------------------------------------------------------------------
(* The boot.  Lines 17-23 set properties and make the directory, then come  *)
(* N copies, N chowns, N chmods and a restorecon of the directory.  init   *)
(* goes on whatever becomes of a command.                                  *)

PowerOn ==
  /\ phase = "off" /\ phase' = "boot"
  /\ step' = 0 /\ dirty' = {}
  /\ UNCHANGED <<content, attrs, failed, toolVars>>

Command(k) == phase = "boot" /\ step = k /\ step' = k + 1

MakeDir ==
  /\ Command(0)
  /\ UNCHANGED <<phase, fileVars, toolVars>>

\* Mutants: a file that is there is left alone; whatever is shipped is copied.
CopyMissing(i) ==
  /\ Command(i)
  /\ content' = [content EXCEPT ![Seeds[i]] = IF @ = "none" THEN "shipped" ELSE @]
  /\ dirty' = dirty \cup {Seeds[i]}
  /\ UNCHANGED <<phase, attrs, failed, toolVars>>
CopyAll(i) ==
  /\ Command(i)
  /\ content' = [f \in File |-> IF f \in CalFiles \cup {Seeds[i]} THEN "shipped"
                                ELSE content[f]]
  /\ dirty' = File
  /\ UNCHANGED <<phase, attrs, failed, toolVars>>

\* init's copy truncates an existing file, which keeps its attributes.  It fails
\* before that (no source, no directory) or after it (a full /data).
Copy(i) ==
  /\ Command(i)
  /\ \/ /\ content' = [content EXCEPT ![Seeds[i]] = "shipped"]
        /\ dirty' = dirty \cup {Seeds[i]}
        /\ UNCHANGED failed
     \/ /\ failed' = failed \cup {Seeds[i]}
        /\ UNCHANGED <<content, dirty>>
     \/ /\ failed' = failed \cup {Seeds[i]}
        /\ content' = [content EXCEPT ![Seeds[i]] = "torn"]
        /\ dirty' = dirty \cup {Seeds[i]}
  /\ UNCHANGED <<phase, attrs, toolVars>>

\* Of a file that is not there nothing is set.
SetAttr(files, a) ==
  attrs' = [f \in File |-> IF f \in files /\ content[f] # "none" THEN attrs[f] \cup {a}
                           ELSE attrs[f]]

Chown(i) ==
  /\ Command(N + i) /\ SetAttr({Seeds[i]}, "owner")
  /\ UNCHANGED <<phase, content, dirty, failed, toolVars>>

Chmod(i) ==
  /\ Command(2 * N + i) /\ SetAttr({Seeds[i]}, "mode")
  /\ UNCHANGED <<phase, content, dirty, failed, toolVars>>

Restorecon ==
  /\ Command(3 * N + 1) /\ SetAttr(File, "label")
  /\ UNCHANGED <<phase, content, dirty, failed, toolVars>>

\* The HALs are started when post-fs-data is done.
HalStarts ==
  /\ phase = "boot" /\ step = 3 * N + 2 /\ phase' = "up"
  /\ UNCHANGED <<step, fileVars, toolVars>>

PostFsData ==
  \/ MakeDir \/ Restorecon \/ HalStarts
  \/ \E i \in 1..N : Copy(i) \/ Chown(i) \/ Chmod(i)

-----------------------------------------------------------------------------
(* The HAL and its daemon.  What they create has the right attributes, and *)
(* a file is written whole unless power is lost.                           *)

Write(f) ==
  /\ phase = "up"
  /\ content' = [content EXCEPT ![f] = "new"]
  /\ attrs' = [attrs EXCEPT ![f] = Attrs]
  /\ dirty' = dirty \cup {f}
  /\ UNCHANGED <<phase, step, failed, client>>

\* The HAL's own runtime files (restore-fp-cal.rc:9-10).
Enroll(f) == f \notin Seeded /\ Write(f) /\ UNCHANGED writing

Calibrate(f) == f \in writing /\ Write(f) /\ writing' = writing \ {f}

\* The calibration fails (goodix_calib_cb.cpp:4-6): the rest is not written.
CalibrationFails ==
  /\ writing # {} /\ writing' = {}
  /\ UNCHANGED <<phase, step, fileVars, client>>

-----------------------------------------------------------------------------
(* goodix_calib_cb.  Whatever setNotify and sendCommand answer is printed,  *)
(* and the tool goes on and waits; it gives up (exits 2 to 6) only when it *)
(* cannot make a request.                                                  *)

SetNotify ==
  /\ phase = "up" /\ client = "none" /\ client' = "ready"
  /\ UNCHANGED <<phase, step, fileVars, writing>>

\* Mutant: everything in the directory is written anew.
SendCommandAll ==
  /\ client = "ready" /\ client' = "waiting"
  /\ writing' = File
  /\ UNCHANGED <<phase, step, fileVars>>

\* The transaction reaches the daemon, or it does not; the tool waits all the same.
SendCommand ==
  /\ client = "ready" /\ client' = "waiting"
  /\ writing' \in {writing, CalFiles}
  /\ UNCHANGED <<phase, step, fileVars>>

\* sleep(waitSecs) is over, whether or not the result is there; or the tool gives up.
Exit ==
  /\ client # "none" /\ client' = "none"
  /\ UNCHANGED <<phase, step, fileVars, writing>>

Client == SetNotify \/ SendCommand \/ Exit

-----------------------------------------------------------------------------
(* Power is lost: what was written since the device was switched on may or *)
(* may not be on the disk.  A reboot is the case in which all of it is.    *)
PowerLoss ==
  /\ phase # "off" /\ phase' = "off"
  /\ \E lost \in SUBSET dirty :
       /\ content' = [f \in File |-> IF f \in lost THEN "torn" ELSE content[f]]
       /\ attrs' = [f \in File |-> IF f \in lost THEN {} ELSE attrs[f]]
  /\ dirty' = {} /\ failed' = {} /\ writing' = {} /\ client' = "none"
  /\ UNCHANGED step

\* A factory reset, or the erase of flash_lineage.sh.
Wipe ==
  /\ phase = "off"
  /\ content' = [f \in File |-> "none"] /\ attrs' = [f \in File |-> {}]
  /\ UNCHANGED <<phase, step, dirty, failed, toolVars>>

Running ==
  \/ PowerOn \/ PostFsData \/ Wipe
  \/ CalibrationFails \/ Client
  \/ \E f \in File : Enroll(f) \/ Calibrate(f)
Next == Running \/ PowerLoss

Spec == Init /\ [][Next]_vars

-----------------------------------------------------------------------------
\* restore-fp-cal.rc:5-6 "This re-seeds both in post-fs-data, BEFORE the Goodix HAL
\* starts": whatever power losses, wipes, failed copies and half-done calibrations
\* came before, a HAL that runs owns every seeded file that is there, and finds each
\* one that could be copied whole: the shipped one, unless a calibration writes it.
HalFindsSeeds ==
  phase = "up" => \A f \in Seeded :
    /\ content[f] = "none" \/ attrs[f] = Attrs
    /\ \/ f \in failed
       \/ content[f] \in (IF f \in CalFiles THEN {"shipped", "new"} ELSE {"shipped"})

\* restore-fp-cal.rc:9-10: "the HAL's own runtime files ... survive" the copies of a
\* boot, even of one that power loss cuts short.
RuntimeFilesSurvive ==
  [][phase = "boot" => \A f \in File \ Seeded : content'[f] = content[f]]_vars

=============================================================================
