---------------------------- MODULE MCScreening ----------------------------
(***************************************************************************)
(* A small instance of Screening for TLC: panels of two or three reviewers *)
(* of two independence groups.                                             *)
(***************************************************************************)
EXTENDS Screening, TLC

CONSTANTS r1, r2, r3, p1, p2, c1, s1

Groups == r1 :> 1 @@ r2 :> 1 @@ r3 :> 2
TwoOutcomes == [s \in Stages |-> {"include", "exclude"}]
MostRecords == [title_abstract |-> 4, full_text |-> 2]
Symmetry == Permutations({p1, p2}) \cup Permutations({r1, r2})
=============================================================================
