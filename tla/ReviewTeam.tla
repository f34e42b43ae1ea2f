----------------------------- MODULE ReviewTeam -----------------------------
(***************************************************************************)
(* What the parts of a systematic review share (research_methods): its     *)
(* candidates, the reviewers its frozen protocol names, the acquired       *)
(* sources, and the processes that call the operations.                    *)
(***************************************************************************)
EXTENDS Integers, FiniteSets

CONSTANTS Candidates,  \* candidate ids that can be minted
          Reviewers,   \* humans a protocol may name
          Group,       \* the independence group of each of them
          Sources,     \* acquired source records
          Callers,     \* processes that may call concurrently
          None         \* no value

ASSUME ReviewersAreFinite == IsFiniteSet(Reviewers)
ASSUME GroupOfReviewers == DOMAIN Group = Reviewers
ASSUME NoneIsNew == None \notin Candidates \cup Reviewers \cup Sources

VARIABLES panel,      \* the reviewers of the frozen protocol, which never changes
          overlapped  \* history: whether a call ever began during another one

team == <<panel, overlapped>>

\* create_protocol asks for human reviewers of two independence groups.
Panels == {P \in SUBSET Reviewers : \E r, q \in P : Group[r] # Group[q]}

TeamInit == panel \in Panels /\ overlapped = FALSE

\* A call begins while the calls in "others" have not ended.
Overlap(others) == /\ overlapped' = (overlapped \/ others # {})
                   /\ UNCHANGED panel

TeamOK == panel \in Panels /\ overlapped \in BOOLEAN
=============================================================================
