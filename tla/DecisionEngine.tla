--------------------------- MODULE DecisionEngine ---------------------------
(***************************************************************************)
(* run_decision (decision.engine): a request that was completed before is  *)
(* answered from its records; any other asks its provider, appends an      *)
(* attempt linked to the one before, and then the policy's result for it.  *)
(* No lock is taken, and a call may die between the two writes.            *)
(*                                                                         *)
(* A request is its fingerprint: the target and its state, the question    *)
(* pack, provider, privacy flags and configuration; an edit of any of them *)
(* makes another request.  Answers are an outcome; for want of calibration *)
(* the policy's result sends every field to review and is only "there".    *)
(***************************************************************************)
EXTENDS Calls, Sequences

CONSTANTS Requests,
          Denied,  \* requests the privacy rules keep from their provider
          None

ASSUME DeniedAreRequests == Denied \subseteq Requests

VARIABLES attempts,  \* [request, attempt, retryOf, status], by place
          results    \* attempts that have a policy result

engineVars == <<attempts, results>>

Prior(r) == {n \in DOMAIN attempts : attempts[n].request = r}

\* The attempts of the request are listed.
RunDecision(p, r) ==
  /\ Enter(p, [phase |-> "prior", request |-> r, prior |-> Prior(r), wrote |-> 0])
  /\ UNCHANGED engineVars

Answered(prior) == \E n \in prior \cap results : attempts[n].status = "completed"

ReuseOrAsk(p) ==
  /\ call[p].phase = "prior"
  /\ IF Answered(call[p].prior) THEN Go(p, Idle) ELSE Turn(p, "ask")
  /\ UNCHANGED engineVars

\* A provider without permission is taken for a denial as well.
Outcomes(r) == IF r \in Denied THEN {"blocked"} ELSE {"completed", "failed", "blocked"}

\* Mutant: the first attempt is taken for the previous one.
Earliest(prior) == {n \in prior : \A m \in prior : attempts[n].attempt <= attempts[m].attempt}
Latest(prior) == {n \in prior : \A m \in prior : attempts[n].attempt >= attempts[m].attempt}

Attempt(r, status, prior) ==
  IF prior = {} THEN {[request |-> r, attempt |-> 1, retryOf |-> None, status |-> status]}
  ELSE {[request |-> r, attempt |-> attempts[n].attempt + 1, retryOf |-> n, status |-> status] :
         n \in Latest(prior)}

WriteAttempt(p) ==
  /\ call[p].phase = "ask"
  /\ \E status \in Outcomes(call[p].request) :
       \E a \in Attempt(call[p].request, status, call[p].prior) :
         attempts' = Append(attempts, a)
  /\ Go(p, [call[p] EXCEPT !.phase = "result", !.wrote = Len(attempts) + 1])
  /\ UNCHANGED results

WriteResult(p) ==
  /\ call[p].phase = "result"
  /\ results' = results \cup {call[p].wrote}
  /\ Go(p, Idle)
  /\ UNCHANGED attempts

EngineInit == attempts = <<>> /\ results = {}

Decide(p) == \/ \E r \in Requests : RunDecision(p, r)
             \/ ReuseOrAsk(p) \/ WriteAttempt(p) \/ WriteResult(p)

(***************************************************************************)
(* A retry continues an earlier attempt at its own request, even when      *)
(* calls race.  Without overlap the attempts at a request are one chain,   *)
(* and nothing comes after one that completed and got its result, though   *)
(* calls may die in between.                                               *)
(***************************************************************************)
DecisionsFormAChain ==
  \A n \in DOMAIN attempts :
    LET a == attempts[n]
    IN  /\ IF a.attempt = 1 THEN a.retryOf = None
           ELSE a.retryOf < n /\ attempts[a.retryOf].request = a.request
                              /\ attempts[a.retryOf].attempt = a.attempt - 1
        /\ ~overlapped => \A m \in Prior(a.request) : m > n =>
             attempts[m].attempt > a.attempt /\ ~(a.status = "completed" /\ n \in results)
=============================================================================
