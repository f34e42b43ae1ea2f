----------------------------- MODULE Decisions -----------------------------
(***************************************************************************)
(* What processes decide about records: models by decision workflows,      *)
(* people by reviews of classifications (the command line and the web      *)
(* console), by handoffs and by the settings of the console.  Any call may *)
(* die between its steps; requests to a console die with it.               *)
(***************************************************************************)
EXTENDS DecisionEngine, ClassificationReview, ControlPanel, Handoffs

vars == <<callVars, engineVars, reviewVars, panelVars, handoffVars>>

\* Records that the view does not show yet may be left behind.
Crash(p) ==
  /\ call[p] # Idle /\ \A c \in Consoles : ~OfConsole(p, c)
  /\ Go(p, Idle)
  /\ interrupted' = (interrupted \/ call[p].phase \in {"rebuild", "view"})
  /\ UNCHANGED <<engineVars, classifications, reviews, view, panelVars, handoffVars>>

Init == CallsInit /\ EngineInit /\ ReviewInit /\ PanelInit /\ HandoffInit

Next == \/ \E p \in Callers :
             \/ Decide(p) /\ UNCHANGED <<reviewVars, panelVars, handoffVars>>
             \/ Review(p) /\ UNCHANGED <<engineVars, panelVars, handoffVars>>
             \/ HandOff(p) /\ UNCHANGED <<engineVars, reviewVars, panelVars>>
             \/ Crash(p)
        \/ Panel /\ UNCHANGED <<engineVars, reviewVars, handoffVars>>

Spec == Init /\ [][Next]_vars
=============================================================================
