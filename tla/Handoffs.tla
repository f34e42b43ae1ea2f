------------------------------ MODULE Handoffs ------------------------------
(***************************************************************************)
(* Handoffs of work between roles (polder_research.handoffs): a record is  *)
(* opened, and accepted or rejected by reading it and writing it back, as  *)
(* often as anybody likes and without a lock.  The time of acceptance and  *)
(* the reason of a rejection stay when a later answer changes the status.  *)
(***************************************************************************)
EXTENDS Calls, Sequences

CONSTANT MaxHandoffs  \* bound: handoffs opened

VARIABLES handoffs,  \* [status, traces]; a trace is accepted_at or rejection_reason
          given      \* history: per handoff, the answers written, the last one first

handoffVars == <<handoffs, given>>

WriteHandoff(p) ==
  /\ Len(handoffs) < MaxHandoffs
  /\ Enter(p, Idle)
  /\ handoffs' = Append(handoffs, [status |-> "open", traces |-> {}])
  /\ given' = Append(given, <<>>)

AnswerHandoff(p, n, answer) ==
  /\ Enter(p, [phase |-> "handoff", on |-> n, answer |-> answer, record |-> handoffs[n]])
  /\ UNCHANGED handoffVars

\* Mutant: the record is made anew.
Anew(record, answer) == [status |-> answer, traces |-> {answer}]
WithAnswer(record, answer) == [status |-> answer, traces |-> record.traces \cup {answer}]

WriteAnswer(p) ==
  /\ call[p].phase = "handoff"
  /\ LET n == call[p].on IN
       /\ handoffs' = [handoffs EXCEPT ![n] = WithAnswer(call[p].record, call[p].answer)]
       /\ given' = [given EXCEPT ![n] = <<call[p].answer>> \o @]
  /\ Go(p, Idle)

HandoffInit == handoffs = <<>> /\ given = <<>>

HandOff(p) == \/ WriteHandoff(p) \/ WriteAnswer(p)
              \/ \E n \in DOMAIN handoffs, answer \in {"accepted", "rejected"} : AnswerHandoff(p, n, answer)

(***************************************************************************)
(* A handoff says what it was answered last, however answers race or die;  *)
(* and unless calls overlapped, each answer it ever got has left its trace.*)
(***************************************************************************)
AnswersAreOnRecord ==
  \A n \in DOMAIN handoffs :
    IF given[n] = <<>> THEN handoffs[n] = [status |-> "open", traces |-> {}]
    ELSE /\ handoffs[n].status = Head(given[n]) /\ Head(given[n]) \in handoffs[n].traces
         /\ ~overlapped => handoffs[n].traces = {given[n][i] : i \in DOMAIN given[n]}
=============================================================================
