------------------------------ MODULE MCIntake ------------------------------
(***************************************************************************)
(* Small instances of Intake for TLC.                                      *)
(***************************************************************************)
EXTENDS Intake, TLC

CONSTANTS p1, p2, f1, f2, u1, c1, c2, k1, k2

TwoFiles == f1 :> c1 @@ f2 :> c2

\* a link; the link with a page saved for it; two pages, one of them the link's
TwoBatches == {<<[url |-> u1, file |-> None]>>,
               <<[url |-> None, file |-> f1], [url |-> u1, file |-> f2]>>}

Symmetry == Permutations({p1, p2}) \cup Permutations({k1, k2})
=============================================================================
