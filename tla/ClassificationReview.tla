------------------------ MODULE ClassificationReview ------------------------
(***************************************************************************)
(* Human reviews of classifications (classification_review) and the view   *)
(* of effective metadata derived from both (decision.projection).          *)
(*                                                                         *)
(* A review resolves fields of one classification, and a field somebody    *)
(* resolved already needs the explicit supersession of that review.        *)
(* Records are only added; whoever adds one rebuilds the whole view and    *)
(* writes it, without a lock.  A classification is what its provider's     *)
(* answers become (Answers); values are left out: the view holds, for a    *)
(* field, the record that decides it.                                      *)
(***************************************************************************)
EXTENDS Calls, Sequences, SequencesExt, Answers

CONSTANTS Targets, NoReview,
          Given,              \* [by, answers]: what providers answer
          MaxClassifications  \* bound: classifications recorded

VARIABLES classifications,  \* [target, by, proposed, accepted], in order of creation
          reviews,          \* [id, on, fields, supersedes]
          view,             \* effective-metadata.json
          interrupted       \* history: a call died and nobody rebuilt the view since

reviewVars == <<classifications, reviews, view, interrupted>>

Active == {r \in reviews : \A q \in reviews : q.supersedes # r.id}

(***************************************************************************)
(* The deciding record of a field: classifications are passed in the order *)
(* they were made, each followed by its active reviews.                    *)
(***************************************************************************)
Undecided == <<"nobody", 0>>
Resolving(n, f) == {r \in Active : r.on = n /\ f \in r.fields}
Newest(rs) == CHOOSE r \in rs : \A q \in rs : q.id <= r.id

\* Mutant: what a model accepts prevails over its reviews.
ModelFirst(t, f, decider, n) ==
  IF classifications[n].target # t THEN decider
  ELSE IF f \in classifications[n].accepted THEN <<"classification", n>>
  ELSE IF Resolving(n, f) # {} THEN <<"review", Newest(Resolving(n, f)).id>>
  ELSE decider
Override(t, f, decider, n) ==
  IF classifications[n].target # t THEN decider
  ELSE IF Resolving(n, f) # {} THEN <<"review", Newest(Resolving(n, f)).id>>
  ELSE IF f \in classifications[n].accepted THEN <<"classification", n>>
  ELSE decider

DecidedBy(t, f) ==
  FoldLeft(LAMBDA decider, n : Override(t, f, decider, n), Undecided,
           [n \in DOMAIN classifications |-> n])
BuildView == [t \in Targets |-> [f \in Fields |-> DecidedBy(t, f)]]

(***************************************************************************)
(* Registration and replay record classifications, one or several, and     *)
(* then rebuild the view; a failed one proposes no field.                  *)
(***************************************************************************)
WriteClassification(p) ==
  /\ Len(classifications) < MaxClassifications
  /\ IF call[p] = Idle THEN Enter(p, [phase |-> "rebuild"])
     ELSE call[p] = [phase |-> "rebuild"] /\ Go(p, [phase |-> "rebuild"])
  /\ \E t \in Targets, g \in Given :
       LET decided == FieldDecisions(g.by, g.answers)
       IN  classifications' = Append(classifications,
             [target |-> t, by |-> g.by, proposed |-> DOMAIN decided,
              accepted |-> {f \in DOMAIN decided : decided[f] = "accepted"}])
  /\ UNCHANGED <<reviews, view, interrupted>>

(***************************************************************************)
(* record_review: the superseded review is checked against one reading of  *)
(* the reviews, conflicts against a second one, then the review is written.*)
(***************************************************************************)
Supersedable(n, s) ==
  s = NoReview \/ \E r \in Active : r.id = s /\ classifications[r.on].target = classifications[n].target

RecordReview(p, n, fields, s) ==
  /\ fields # {} /\ fields \subseteq classifications[n].proposed
  /\ Supersedable(n, s)
  /\ Enter(p, [phase |-> "conflicts", on |-> n, fields |-> fields, supersedes |-> s, id |-> 0])
  /\ UNCHANGED reviewVars

Overlapping(n, fields) == {r \in Active : r.on = n /\ r.fields \cap fields # {}}

\* Ids are minted in the order of time, some for reviews not written yet.
Minted == {r.id : r \in reviews} \cup {call[q].id : q \in {q \in Callers : call[q].phase = "review"}}

\* Mutant: whoever supersedes any review may resolve any field.
AnySupersession(n, fields, s) == Overlapping(n, fields) = {} \/ s # NoReview
Reconciled(n, fields, s) ==
  Overlapping(n, fields) = {} \/ \E r \in Overlapping(n, fields) : r.id = s

CheckConflicts(p) ==
  /\ call[p].phase = "conflicts"
  /\ IF Reconciled(call[p].on, call[p].fields, call[p].supersedes)
     THEN Go(p, [call[p] EXCEPT !.phase = "review", !.id = 1 + Max(Minted \cup {0})])
     ELSE Go(p, Idle)
  /\ UNCHANGED reviewVars

WriteReview(p) ==
  /\ call[p].phase = "review"
  /\ reviews' = reviews \cup {[id |-> call[p].id, on |-> call[p].on, fields |-> call[p].fields,
                               supersedes |-> call[p].supersedes]}
  /\ Go(p, [phase |-> "rebuild"])
  /\ UNCHANGED <<classifications, view, interrupted>>

(***************************************************************************)
(* rebuild_effective_projection: build from the records, then write.       *)
(***************************************************************************)
ReadRecords(p) ==
  /\ call[p].phase = "rebuild"
  /\ Go(p, [phase |-> "view", view |-> BuildView])
  /\ UNCHANGED reviewVars

WriteView(p) ==
  /\ call[p].phase = "view"
  /\ view' = call[p].view
  /\ interrupted' = FALSE
  /\ Go(p, Idle)
  /\ UNCHANGED <<classifications, reviews>>

ReviewInit == /\ classifications = <<>> /\ reviews = {}
              /\ view = [t \in Targets |-> [f \in Fields |-> Undecided]]
              /\ interrupted = FALSE

Review(p) ==
  \/ WriteClassification(p)
  \/ \E n \in DOMAIN classifications, fields \in SUBSET Fields,
        s \in {r.id : r \in reviews} \cup {NoReview} : RecordReview(p, n, fields, s)
  \/ CheckConflicts(p) \/ WriteReview(p) \/ ReadRecords(p) \/ WriteView(p)

(***************************************************************************)
(* Reviewers who come one after the other never override each other        *)
(* unawares: of two reviews in force on one field of a classification, the *)
(* later one superseded a review it conflicted with, and no review is      *)
(* superseded twice.                                                       *)
(***************************************************************************)
ReviewsAreReconciled ==
  ~overlapped =>
    \A r, q \in reviews : r.id < q.id =>
      /\ q.supersedes # NoReview => q.supersedes # r.supersedes
      /\ r \in Active /\ q \in Overlapping(r.on, r.fields) =>
           \E s \in reviews : s.id = q.supersedes /\ s.on = q.on /\ s.fields \cap q.fields # {}

(***************************************************************************)
(* Between calls that did not overlap, and once somebody rebuilt the view  *)
(* after a crash, it shows for each field a record nobody superseded and   *)
(* after which nothing decides that field: no later classification of the  *)
(* target, and no review in force of a later one or of that one.           *)
(***************************************************************************)
Decides(f, d) ==  \* d decides the field, and is of this classification
  IF d[1] = "review" THEN {r.on : r \in {r \in Active : r.id = d[2] /\ f \in r.fields}}
  ELSE {n \in DOMAIN classifications : n = d[2] /\ f \in classifications[n].accepted}

ViewShowsWhoDecides ==
  ~overlapped /\ ~interrupted /\ AllIdle =>
    \A t \in Targets, f \in Fields :
      LET d == view[t][f]
          mine == {n \in DOMAIN classifications : classifications[n].target = t}
          deciding == {n \in mine : f \in classifications[n].accepted \/ Resolving(n, f) # {}}
      IN  IF deciding = {} THEN d = Undecided
          ELSE /\ Decides(f, d) # {}
               /\ \A n \in Decides(f, d) : n \in mine /\ \A m \in deciding : m <= n
               /\ \A n \in Decides(f, d) : \A r \in Resolving(n, f) :
                    d[1] = "review" /\ r.id <= d[2]

(***************************************************************************)
(* What the view shows without anybody's review was decided by the rules:  *)
(* a model's proposals, however sure, are never applied on their own.      *)
(***************************************************************************)
OnlyRulesDecideAlone ==
  \A t \in Targets, f \in Fields :
    view[t][f][1] = "classification" => classifications[view[t][f][2]].by = "rules"
=============================================================================
