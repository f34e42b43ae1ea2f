------------------------------ MODULE Answers ------------------------------
(***************************************************************************)
(* What becomes of a provider's answers (classification): they must answer *)
(* every field of the taxonomy, within the taxonomy, with probabilities;   *)
(* then each field is decided by its score against the threshold, and a    *)
(* model's fields are all left to people.                                  *)
(*                                                                         *)
(* A field is a tag, answered by a probability, or a choice (the category, *)
(* a dimension) among Labels.  Probabilities are counted in hundredths:    *)
(* floating point is left out.                                             *)
(***************************************************************************)
EXTENDS Integers, FiniteSetsExt

CONSTANTS ChoiceFields, TagFields, Labels,
          Threshold,  \* minimum_confidence
          NoChoice    \* the provider abstains

Fields == ChoiceFields \cup TagFields

ASSUME FieldsAreApart == ChoiceFields \cap TagFields = {} /\ NoChoice \notin Labels
ASSUME ThresholdIsAProbability == Threshold \in 0..100

Probability(score) == score \in 0..100

FieldDecision(score) ==
  IF score >= Threshold THEN "accepted"
  ELSE IF score <= 100 - Threshold THEN "rejected"
  ELSE "review_required"

\* The most probable label is chosen, and the probabilities add up to 1, within 0.01.
ValidChoice(a) ==
  /\ a.choice \in Labels /\ DOMAIN a.probabilities = Labels
  /\ \A l \in Labels : /\ Probability(a.probabilities[l])
                       /\ a.probabilities[l] <= a.probabilities[a.choice]
  /\ MapThenSumSet(LAMBDA l : a.probabilities[l], Labels) \in 99..101

WellFormed(f, a) == IF f \in TagFields THEN Probability(a.noul)
                ELSE a.choice = NoChoice \/ ValidChoice(a)

Scored(f, a) == IF f \in TagFields THEN FieldDecision(a.noul)
                ELSE IF a.choice = NoChoice THEN "abstained"
                ELSE FieldDecision(a.probabilities[a.choice])

\* A model's answers are proposals.  Mutant: only the unsure ones are.
AsScored(provider, status) == status
Status(provider, status) == IF provider = "rules" THEN status ELSE "review_required"

\* One answer that is missing or invalid fails all of them.
FieldDecisions(provider, answers) ==
  IF \A f \in Fields : f \in DOMAIN answers /\ WellFormed(f, answers[f])
  THEN [f \in Fields |-> Status(provider, Scored(f, answers[f]))]
  ELSE [f \in {} |-> "failed"]
=============================================================================
