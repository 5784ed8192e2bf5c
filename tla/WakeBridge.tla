----------------------------- MODULE WakeBridge -----------------------------
(***************************************************************************)
(* What the double-tap bridge promises its user: a double tap that a       *)
(* listening bridge has been told of lights the dark panel, is forgotten   *)
(* only if the bridge goes down or the panel is lit anyway, and nothing    *)
(* but a double tap or the power button lights the panel.                  *)
(***************************************************************************)
VARIABLES
  up,       \* the bridge listens
  owed,     \* a double tap is waiting for its answer
  screen    \* the panel

vars == <<up, owed, screen>>

TypeOK == up \in BOOLEAN /\ owed \in BOOLEAN /\ screen \in {"on", "off"}

Init == ~up /\ ~owed /\ screen = "on"

Up == ~up /\ up' = TRUE /\ UNCHANGED <<owed, screen>>

\* Taps the bridge has not passed on are lost with it.
Down == up /\ up' = FALSE /\ owed' \in {owed, FALSE} /\ UNCHANGED screen

Tap == up /\ screen = "off" /\ owed' = TRUE /\ UNCHANGED <<up, screen>>

\* One of the waiting taps is answered; others may still be waiting.
Answer == /\ owed /\ screen = "off" /\ screen' = "on"
          /\ owed' \in BOOLEAN /\ UNCHANGED up

\* The last waiting tap meets a panel that is on already.
Spend == owed /\ screen = "on" /\ owed' = FALSE /\ UNCHANGED <<up, screen>>

PowerOn   == screen = "off" /\ screen' = "on" /\ UNCHANGED <<up, owed>>
ScreenOff == screen = "on" /\ screen' = "off" /\ UNCHANGED <<up, owed>>

Next == Up \/ Down \/ Tap \/ Answer \/ Spend \/ PowerOn \/ ScreenOff

Spec == Init /\ [][Next]_vars

\* An owed answer is not put off forever while the panel stays dark.
FairSpec == Spec /\ WF_vars(Answer)
=============================================================================
