---------------------------- MODULE MCDecisions ----------------------------
(***************************************************************************)
(* Small instances of Decisions for TLC.                                   *)
(***************************************************************************)
EXTENDS Decisions

CONSTANTS p1, p2, t1, t2, g1, g2, l1, l2, r1, r2, c1, c2, e1, e2

\* answers that fail, for want of a maximal choice; a model that is sure; rules that are
Answering(sure, unsure, score) ==
  g1 :> [choice |-> l1, probabilities |-> l1 :> sure @@ l2 :> unsure] @@ g2 :> [noul |-> score]
ThreeAnswers == {[by |-> "laya", answers |-> Answering(20, 80, 90)],
                 [by |-> "laya", answers |-> Answering(75, 25, 90)],
                 [by |-> "rules", answers |-> Answering(75, 26, 75)]}

\* the file at first, without a final newline; another text; one that is refused
LocalText == [provider |-> "rules", default |-> "rules", remote |-> TRUE,
              keyName |-> e1, sound |-> TRUE, newline |-> FALSE]
ThreeTexts == {LocalText,
               [LocalText EXCEPT !.provider = "jev", !.default = "jev", !.keyName = e2,
                                 !.newline = TRUE],
               [LocalText EXCEPT !.default = "jev", !.newline = TRUE]}

(***************************************************************************)
(* Workflows, reviews, settings, downloads and handoffs share no record:   *)
(* they are explored one at a time, which leaves out only runs that        *)
(* interleave unrelated steps.  Reviews that overlap, and settings, stop   *)
(* after three calls.                                                      *)
(***************************************************************************)
Busy(phases) == \E p \in Callers : call[p].phase \in phases
Workflows == attempts # <<>> \/ Busy({"prior", "ask", "result"})
Reviews == classifications # <<>>
Settings == \/ config # LocalText \/ keys # {} \/ \E p \in Callers : revision[p] # NoText
            \/ Busy({"compare", "store", "reply", "key", "keys"})
Downloads == (\E c \in Consoles : download[c] # "idle") \/ Busy({"spawn"})
Parts == {part \in 1..5 : <<Workflows, Reviews, Settings, Downloads, handoffs # <<>> >>[part]}
OnePart == /\ Cardinality(Parts) <= 1
           /\ (Reviews /\ overlapped) \/ Settings => calls <= 3

Symmetry == Permutations({p1, p2}) \cup Permutations({t1, t2}) \cup Permutations({c1, c2})
=============================================================================
