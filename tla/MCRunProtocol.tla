--------------------------- MODULE MCRunProtocol ---------------------------
(***************************************************************************)
(* Small instances of RunProtocol for TLC.                                 *)
(***************************************************************************)
EXTENDS RunProtocol, TLC

CONSTANTS q1, q2, a1, a2

Symmetry == Permutations({q1, q2}) \cup Permutations({a1, a2})
=============================================================================
