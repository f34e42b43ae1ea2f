---------------------------- MODULE MCTaskLease ----------------------------
(***************************************************************************)
(* Small instances of TaskLease for TLC.                                   *)
(***************************************************************************)
EXTENDS TaskLease, TLC

CONSTANTS t1, t2, a1, a2, s1

Symmetry == Permutations({t1, t2}) \cup Permutations({a1, a2})
=============================================================================
