--------------------------- MODULE Classification ---------------------------
(***************************************************************************)
(* Classification of evidence (classification.classify_text): proposals of *)
(* a rules, local or remote provider, appended as immutable records.  A    *)
(* request is named by a fingerprint of target, input, policy, provider    *)
(* and configuration; a resolved request is answered from its record, and  *)
(* a failed one is tried again, the new record naming the failed one.  The *)
(* fingerprint is also the name of the lock that is to serialize identical *)
(* requests, but the configuration is read once for the lock and again     *)
(* under it, and it is edited while programs run.                          *)
(*                                                                         *)
(* Data: an input is what clip_state leaves of a text, up to the configured*)
(* max_input_chars.  "edition" stands for the taxonomy, threshold, model   *)
(* and provider settings, which are part of the fingerprint; "limit" for   *)
(* max_input_chars, which is not: only the clipped text is.  Both number   *)
(* their values in the order of the edits that made them.                  *)
(***************************************************************************)
EXTENDS Naturals, Sequences, FiniteSets

CONSTANTS Targets,         \* evidence records
          Workers,         \* processes that replay a job
          Registrars,      \* processes that acquire a source and classify it
          Texts, Inputs, None,
          Clip,            \* what a limit leaves of a text
          FirstEvidence,   \* what the records of the targets say at first
          Acquirable,      \* targets that are sources yet to be acquired
          Dispositions,    \* bound: how provider calls are disposed of
          DefaultProvider, \* classification.provider
          EditsTried,      \* bound: what an edit makes of a record, None to remove it
          MaxEdits,        \* bound: edits of the evidence or the configuration
          MaxCalls         \* bound: classifications by registrars

Callers == Workers \cup Registrars
Providers == {"rules", "laya", "jev"}
Policies == {"sensitive", "public", "approved"}  \* approved: public, and remote use allowed
Items == [text : Texts, policy : Policies]
Limits == 1..(MaxEdits + 1)

ASSUME TwoKindsOfCallers == Workers \cap Registrars = {}
ASSUME ClipsKnown == MaxEdits \in Nat /\ Clip \in [Texts -> [Limits -> Inputs]]
ASSUME ProviderKnown == DefaultProvider \in Providers
ASSUME EvidenceKnown == FirstEvidence \in [Targets -> Items] /\ Acquirable \subseteq Targets
                        /\ EditsTried \subseteq Items \cup {None}
ASSUME DispositionsKnown == Dispositions \subseteq {"accepted", "review_required", "failed"}
ASSUME NoneIsNothing == None \notin Items \cup Nat

VARIABLES evidence,  \* per target, what its record on disk says, or None
          config,    \* effective classification configuration
          edits,     \* edits made so far
          records,   \* classification records in the order written; ids are indices
          call,      \* per caller, its call of classify_text
          calls,     \* classifications by registrars so far
          crossed    \* history: requests worked on under the lock of another one

classificationVars == <<evidence, config, edits, records, call, calls, crossed>>

Request(t, item, p, cfg) ==
  [target |-> t, input |-> Clip[item.text][cfg.limit], policy |-> item.policy,
   provider |-> p, edition |-> cfg.edition]
Resolved(r) == r.disposition \in {"accepted", "review_required"}
IdsOf(req) == {n \in DOMAIN records : records[n].request = req}

Idle == [phase |-> "idle"]
\* answer: "disabled", "raised" or "record", then with the id of one.  A registrar
\* only writes the answer into the source it acquires.
Returned(c, answer, id) ==
  IF c \in Registrars THEN Idle ELSE [phase |-> "returned", answer |-> answer, id |-> id]
Waiting(lock, item) == [phase |-> "waiting", lock |-> lock, item |-> item]

(***************************************************************************)
(* classify_text up to the lock: the configuration names the request.      *)
(***************************************************************************)
Classify(c, t, item, p) ==
  call' = [call EXCEPT ![c] =
    IF config.enabled THEN Waiting(Request(t, item, p, config), item)
                      ELSE Returned(c, "disabled", None)]

\* The lock of c's request is free: callers that work hold theirs.
LockFree(c) == \A d \in Callers : call[d].phase = "asking" => call[d].lock # call[c].lock

\* A hosted provider only sees what is explicitly approved.
Allowed(req) == req.provider = "jev" => req.policy = "approved"

\* Mutant: only accepted records settle a request.
AnsweredAccepted(req) == {n \in IdsOf(req) : records[n].disposition = "accepted"}
Answered(req) == {n \in IdsOf(req) : Resolved(records[n])}

Previous(req) == IF IdsOf(req) = {} THEN None
                 ELSE CHOOSE n \in IdsOf(req) :
                        \A m \in IdsOf(req) : records[m].attempt <= records[n].attempt

\* The request a waiting call will work on: the text is clipped once more, by the
\* configuration of now.
Reread(waiting) == Request(waiting.lock.target, waiting.item, waiting.lock.provider, config)

\* _classify_text_unlocked up to the provider.
LockAndScan(c) ==
  /\ call[c].phase = "waiting"
  /\ LockFree(c)
  /\ LET req == Reread(call[c])
         prev == Previous(req)
     IN  /\ call' = [call EXCEPT ![c] =
              IF ~config.enabled THEN Returned(c, "disabled", None)
              ELSE IF ~Allowed(req) THEN Returned(c, "raised", None)
              ELSE IF Answered(req) # {} THEN Returned(c, "record", CHOOSE n \in Answered(req) : TRUE)
              ELSE [phase |-> "asking", lock |-> call[c].lock, request |-> req, retry |-> prev,
                    attempt |-> IF prev = None THEN 1 ELSE records[prev].attempt + 1]]
         /\ crossed' = IF call'[c].phase = "asking" /\ req # call[c].lock
                       THEN crossed \cup {req} ELSE crossed
  /\ UNCHANGED <<evidence, config, edits, records, calls>>

\* The provider answers, fails or returns nonsense; a record is written either way.
Answer(c) ==
  /\ call[c].phase = "asking"
  /\ \E d \in Dispositions :
       records' = Append(records, [request |-> call[c].request, attempt |-> call[c].attempt,
                                   retry |-> call[c].retry, disposition |-> d, by |-> c])
  /\ call' = [call EXCEPT ![c] = Returned(c, "record", Len(records) + 1)]
  /\ UNCHANGED <<evidence, config, edits, calls, crossed>>

\* The record cannot be written.
AnswerLost(c) ==
  /\ call[c].phase = "asking"
  /\ call' = [call EXCEPT ![c] = Returned(c, "raised", None)]
  /\ UNCHANGED <<evidence, config, edits, records, calls, crossed>>

(***************************************************************************)
(* A registrar acquires a source that is on record: the provider is the    *)
(* configured one, and sensitive text without a local provider is refused. *)
(***************************************************************************)
Selectable(item) == item.policy = "sensitive" => DefaultProvider \in {"rules", "laya"}

Register(c, t) ==
  /\ call[c].phase = "idle" /\ calls < MaxCalls
  /\ t \in Acquirable /\ evidence[t] # None /\ Selectable(evidence[t])
  /\ Classify(c, t, evidence[t], DefaultProvider)
  /\ calls' = calls + 1
  /\ UNCHANGED <<evidence, config, edits, records, crossed>>

(***************************************************************************)
(* The curator edits a record or removes it, or edits the configuration.   *)
(***************************************************************************)
EditEvidence(t) ==
  /\ edits < MaxEdits /\ evidence[t] # None
  /\ \E item \in EditsTried \ {evidence[t]} : evidence' = [evidence EXCEPT ![t] = item]
  /\ edits' = edits + 1
  /\ UNCHANGED <<config, records, call, calls, crossed>>

EditConfig ==
  /\ edits < MaxEdits
  /\ config' \in {[config EXCEPT !.edition = @ + 1], [config EXCEPT !.enabled = ~@]}
                 \cup {[config EXCEPT !.limit = n] : n \in {m \in Limits : m > config.limit}}
  /\ edits' = edits + 1
  /\ UNCHANGED <<evidence, records, call, calls, crossed>>

ClassificationInit ==
  /\ evidence = FirstEvidence
  /\ config = [enabled |-> TRUE, edition |-> 1, limit |-> 1]
  /\ edits = 0 /\ calls = 0
  /\ records = <<>> /\ crossed = {}
  /\ call = [c \in Callers |-> Idle]

(***************************************************************************)
(* Attempts at one request form one chain: numbered from 1, each naming    *)
(* the failed one before it, and none after a resolved one -- whatever     *)
(* calls were made at once, repeated or killed, unless the request was     *)
(* worked on under another request's lock.                                 *)
(***************************************************************************)
AttemptsFormAChain ==
  \A n \in DOMAIN records :
    LET r == records[n]
        earlier == {m \in IdsOf(r.request) : m < n}
    IN  r.request \notin crossed =>
          /\ r.attempt = Cardinality(earlier) + 1
          /\ \A m \in earlier : records[m].disposition = "failed"
          /\ IF earlier = {} THEN r.retry = None
             ELSE r.retry \in earlier /\ \A m \in earlier : m <= r.retry
=============================================================================
