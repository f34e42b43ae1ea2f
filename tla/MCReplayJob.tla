---------------------------- MODULE MCReplayJob ----------------------------
(***************************************************************************)
(* Small instances of ReplayJob for TLC.                                   *)
(***************************************************************************)
EXTENDS ReplayJob, TLC

CONSTANTS w1, w2, g1, long, longer, other, i1, i2, i3, i4

\* the first limit cuts two texts where they still agree, the second does not
Clips == long :> <<i1, i2>> @@ longer :> <<i1, i3>> @@ other :> <<i4, i4>>

\* a source that may be sent out and a segment of a sensitive one
Evidence == <<[text |-> long, policy |-> "approved"], [text |-> long, policy |-> "sensitive"]>>
\* what a record said turns out sensitive, or it goes on or says something else, or it is gone
EditsAndRemoval ==
  {[text |-> long, policy |-> "sensitive"], [text |-> longer, policy |-> "approved"],
   [text |-> other, policy |-> "approved"], None}

Symmetry == Permutations({w1, w2})
=============================================================================
