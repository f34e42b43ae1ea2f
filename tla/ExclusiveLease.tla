--------------------------- MODULE ExclusiveLease ---------------------------
(***************************************************************************)
(* What a lease promises, whatever files and locks implement it: each      *)
(* resource has at most one lease, a lease is granted only over none or    *)
(* over one that has run out, every grant carries a token never used       *)
(* before, and only the clock or a release ends a lease.                   *)
(***************************************************************************)
EXTENDS Integers

CONSTANTS Resources,  \* what is leased
          NoLease     \* the lease of a resource nobody holds

VARIABLES lease,  \* the lease of each resource: NoLease or a record
          used,   \* every token granted so far
          now     \* the clock

vars == <<lease, used, now>>

Live(r) == lease[r] # NoLease /\ lease[r].expires > now

Init == /\ lease = [r \in Resources |-> NoLease]
        /\ used = {}
        /\ now \in Nat

\* A grant may come late, when part or all of its time has passed.
Grant(r) ==
  /\ ~Live(r)
  /\ lease'[r] # NoLease
  /\ lease'[r].token \notin used
  /\ lease' = [lease EXCEPT ![r] = lease'[r]]
  /\ used' = used \cup {lease'[r].token}
  /\ UNCHANGED now

Release(r) ==
  /\ lease[r] # NoLease
  /\ lease' = [lease EXCEPT ![r] = NoLease]
  /\ UNCHANGED <<used, now>>

Advance ==
  /\ now' \in Nat
  /\ now' > now
  /\ UNCHANGED <<lease, used>>

Next == Advance \/ \E r \in Resources : Grant(r) \/ Release(r)

Spec == Init /\ [][Next]_vars
=============================================================================
