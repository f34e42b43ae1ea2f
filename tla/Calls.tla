------------------------------- MODULE Calls -------------------------------
(***************************************************************************)
(* Processes that call operations on the shared records.  A call is a      *)
(* sequence of steps other processes can come between; "call" holds where  *)
(* it is, and what it read and still means to use.                         *)
(***************************************************************************)
EXTENDS Naturals

CONSTANTS Callers,
          MaxCalls  \* bound: calls of all operations

VARIABLES call,       \* per caller, its call under way
          calls,      \* calls so far
          overlapped  \* history: two calls were under way at once

callVars == <<call, calls, overlapped>>

Idle == [phase |-> "idle"]
AllIdle == \A p \in Callers : call[p] = Idle

Enter(p, step) ==
  /\ call[p] = Idle /\ calls < MaxCalls
  /\ call' = [call EXCEPT ![p] = step]
  /\ calls' = calls + 1
  /\ overlapped' = (overlapped \/ ~AllIdle)

Go(p, step) == /\ call' = [call EXCEPT ![p] = step]
               /\ UNCHANGED <<calls, overlapped>>

\* On to the next phase with all the call remembers.
Turn(p, phase) == Go(p, [call[p] EXCEPT !.phase = phase])

CallsInit == /\ call = [p \in Callers |-> Idle]
             /\ calls = 0 /\ overlapped = FALSE
=============================================================================
