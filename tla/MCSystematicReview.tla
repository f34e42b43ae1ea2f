------------------------ MODULE MCSystematicReview -------------------------
(***************************************************************************)
(* A small instance of SystematicReview for TLC.  The hits are one paper   *)
(* by its identifier, so that the second one registered is a duplicate     *)
(* unless the registrations race.  Properties only ask whether two groups  *)
(* differ: the reviewers can be swapped.                                   *)
(***************************************************************************)
EXTENDS SystematicReview, TLC

CONSTANTS c1, c2, s1, q1, r1, r2, src1, src2, f1, v1, v2, p1, p2

Hit(i, u, t) == [identifier |-> i, url |-> u, title |-> t]
TwoHits == {Hit("doi", None, "A"), Hit("doi", "page", "B")}
TwoGroups == r1 :> 1 @@ r2 :> 2
AllOutcomes == [title_abstract |-> {"include", "exclude", "uncertain"},
                full_text |-> {"include", "uncertain"}]
MostRecords == [title_abstract |-> 2, full_text |-> 3]
Symmetry ==
  UNION {Permutations(S) : S \in {{c1, c2}, {r1, r2}, {src1, src2}, {v1, v2}, {p1, p2}}}
=============================================================================
