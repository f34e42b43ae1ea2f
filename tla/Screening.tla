----------------------------- MODULE Screening -----------------------------
(***************************************************************************)
(* Selection of records in a systematic review (research_methods):         *)
(* independent decisions of protocol-listed human reviewers at two stages, *)
(* and the adjudication of disagreements.  Decision records are appended,  *)
(* never changed, and no lock is taken: a call reads the records, checks   *)
(* them, mints an id and only then writes, so several writers can each     *)
(* pass a check that the other's write would have made fail.  A call that  *)
(* dies before its write leaves nothing behind, like a call never made.    *)
(***************************************************************************)
EXTENDS ReviewTeam

CONSTANTS OutcomesTried,  \* bound: per stage, the outcomes reviewers give
          TitleSources,   \* bound: the sources title decisions name, or None
          MaxMinted       \* bound: per stage, records of one candidate

Stages == {"title_abstract", "full_text"}
ASSUME NoOutcomeIsNone == None \notin {"include", "exclude", "uncertain"}
ASSUME BoundsOK == /\ OutcomesTried \in [Stages -> SUBSET {"include", "exclude", "uncertain"}]
                   /\ TitleSources \subseteq Sources \cup {None}
                   /\ MaxMinted \in [Stages -> Nat]

VARIABLES decisions,  \* per candidate and stage, the decision records on disk
          minted,     \* per candidate and stage, ids minted: uuid7s ascend
          pending     \* calls past their checks, their record not yet written

screeningVars == <<decisions, minted, pending, team>>

Outcomes == {"include", "exclude", "uncertain"}
Decision == [id : Nat, kind : {"independent", "adjudication"},
             reviewer : Reviewers \cup {None}, outcome : Outcomes,
             source : Sources \cup {None}, resolves : SUBSET Nat]
Submission == [writer : Callers, candidate : Candidates, stage : Stages,
               decision : Decision]

Independent(ds) == {d \in ds : d.kind = "independent"}
Adjudications(ds) == {d \in ds : d.kind = "adjudication"}
Ids(ds) == {d.id : d \in ds}
Latest(ds) == CHOOSE d \in ds : \A e \in ds : e.id <= d.id

\* Mutant: decisions are compared whole, not by their outcome.
AgreedWhole(ds) == \A d, e \in ds : d = e
Agreed(ds) == \A d, e \in ds : d.outcome = e.outcome
Common(ds) == (CHOOSE d \in ds : TRUE).outcome
\* Mutant: one reviewer is enough.
AnyReviewer(ds) == ds # {}
TwoReviewers(ds) == \E d, e \in ds : d.reviewer # e.reviewer
TwoGroupsIn(ds) == \E d, e \in ds : Group[d.reviewer] # Group[e.reviewer]

\* Mutant: any two reviewers who agree settle a stage.
FinalByMajority(ds) ==
  LET ind == Independent(ds)
      adj == Adjudications(ds)
      pair == {d \in ind : \E e \in ind \ {d} : d.outcome = e.outcome}
  IN  IF pair # {} THEN Common(pair)
      ELSE IF adj # {} THEN Latest(adj).outcome
      ELSE None

\* _final_decision: the outcome that gates full-text screening, appraisal,
\* extraction and completion.
FinalDecision(ds) ==
  LET ind == Independent(ds)
      adj == Adjudications(ds)
  IN  IF ~TwoReviewers(ind) THEN None
      ELSE IF Agreed(ind) THEN Common(ind)
      ELSE IF adj # {} /\ Latest(adj).resolves = Ids(ind) THEN Latest(adj).outcome
      ELSE None

\* screening_flow's outcome, behind the PRISMA counts: it asks for two
\* independence groups, and takes any adjudication of a disagreement.
FlowDecision(ds) ==
  LET ind == Independent(ds)
      adj == Adjudications(ds)
  IN  IF ~TwoReviewers(ind) \/ ~TwoGroupsIn(ind) THEN None
      ELSE IF Agreed(ind) THEN Common(ind)
      ELSE IF adj # {} THEN Latest(adj).outcome
      ELSE None

\* A stage with decisions but no outcome counts as unresolved.
FlowUnresolved(ds) == ds # {} /\ FlowDecision(ds) = None

ScreeningInit ==
  /\ TeamInit
  /\ decisions = [c \in Candidates |-> [s \in Stages |-> {}]]
  /\ minted = [c \in Candidates |-> [s \in Stages |-> 0]]
  /\ pending = {}

-----------------------------------------------------------------------------
\* A full-text inclusion names an acquired source; other decisions may.
SourcesFor(s, o) ==
  IF s = "title_abstract" THEN TitleSources
  ELSE IF o = "include" THEN Sources ELSE Sources \cup {None}

Submit(w, c, s, kind, r, o, src, resolves) ==
  /\ ~\E p \in pending : p.writer = w
  /\ minted[c][s] < MaxMinted[s]
  /\ pending' = pending \cup
       {[writer |-> w, candidate |-> c, stage |-> s,
         decision |-> [id |-> minted[c][s] + 1, kind |-> kind, reviewer |-> r,
                       outcome |-> o, source |-> src, resolves |-> resolves]]}
  /\ minted' = [minted EXCEPT ![c][s] = @ + 1]
  /\ Overlap(pending)
  /\ UNCHANGED decisions

\* Mutant: a reviewer's earlier decision is not looked for.
ScreenAgain(w, c) ==
  \E s \in Stages, r \in panel : \E o \in OutcomesTried[s] :
    /\ s = "full_text" => FinalDecision(decisions[c]["title_abstract"]) = "include"
    /\ \E src \in SourcesFor(s, o) : Submit(w, c, s, "independent", r, o, src, {})

\* record_screening_decision, up to its write.
Screen(w, c) ==
  \E s \in Stages, r \in panel : \E o \in OutcomesTried[s] :
    /\ s = "full_text" => FinalDecision(decisions[c]["title_abstract"]) = "include"
    /\ ~\E d \in Independent(decisions[c][s]) : d.reviewer = r
    /\ \E src \in SourcesFor(s, o) : Submit(w, c, s, "independent", r, o, src, {})

\* adjudicate_screening, up to its write.
Adjudicate(w, c) ==
  \E s \in Stages : \E o \in OutcomesTried[s] :
    LET ind == Independent(decisions[c][s])
    IN  /\ ~Agreed(ind)
        /\ Adjudications(decisions[c][s]) = {}
        /\ \E src \in SourcesFor(s, o) :
             Submit(w, c, s, "adjudication", None, o, src, Ids(ind))

\* write_atomic of the record the call prepared.
Commit(w) ==
  \E p \in pending :
    /\ p.writer = w
    /\ decisions' = [decisions EXCEPT ![p.candidate][p.stage] = @ \cup {p.decision}]
    /\ pending' = pending \ {p}
    /\ UNCHANGED <<minted, team>>

ScreeningNext ==
  \E w \in Callers : Commit(w) \/ \E c \in Candidates : Screen(w, c) \/ Adjudicate(w, c)

ScreeningSpec == ScreeningInit /\ [][ScreeningNext]_screeningVars

-----------------------------------------------------------------------------
\* Every variable has its type.
ScreeningTypeOK ==
  /\ TeamOK
  /\ decisions \in [Candidates -> [Stages -> SUBSET Decision]]
  /\ minted \in [Candidates -> [Stages -> Nat]]
  /\ pending \subseteq Submission

\* An adjudication resolves decisions that are on record for its own candidate
\* and stage, and that disagree ("only when two independent decisions
\* disagree", adjudicate_screening), in whatever order the writers ran.
AdjudicationsRestOnDisagreement ==
  \A c \in Candidates, s \in Stages : \A a \in Adjudications(decisions[c][s]) :
    \E d, e \in Independent(decisions[c][s]) :
      {d.id, e.id} \subseteq a.resolves /\ d.outcome # e.outcome

\* When both readings of the records settle a stage, they settle it alike: the
\* PRISMA counts and the completion check never count it as different outcomes.
FlowAgreesWithFinal ==
  \A c \in Candidates, s \in Stages :
    LET ds == decisions[c][s]
    IN  None \notin {FinalDecision(ds), FlowDecision(ds)}
          => FinalDecision(ds) = FlowDecision(ds)

\* No reviewer decides a stage twice, unless calls overlapped.
OneDecisionPerReviewer ==
  ~overlapped =>
    \A c \in Candidates, s \in Stages : \A d, e \in Independent(decisions[c][s]) :
      d.reviewer = e.reviewer => d = e

\* With a panel of two, and unless calls overlapped, a settled stage stays as it
\* was settled: nothing recorded later reopens or overturns it.
SettledStaysSettled ==
  [][Cardinality(panel) = 2 /\ ~overlapped' =>
       \A c \in Candidates, s \in Stages :
         FinalDecision(decisions[c][s]) # None
           => FinalDecision(decisions'[c][s]) = FinalDecision(decisions[c][s])]_screeningVars

\* With a panel of two, and unless calls overlapped, a candidate has full-text
\* decisions only while its title and abstract stand included.
FullTextOnlyWhenIncluded ==
  Cardinality(panel) = 2 /\ ~overlapped =>
    \A c \in Candidates :
      decisions[c]["full_text"] # {}
        => FinalDecision(decisions[c]["title_abstract"]) = "include"

\* "An independent human adjudicator resolves disagreement" (research-methods):
\* reviewers who disagree are resolved, or can still be adjudicated.  Refuted, by
\* one caller: a third reviewer may decide after the one adjudication of a stage.
DisagreementCanBeResolved ==
  \A c \in Candidates, s \in Stages :
    LET ds == decisions[c][s]
    IN  TwoReviewers(Independent(ds)) /\ FinalDecision(ds) = None
          => Adjudications(ds) = {}
=============================================================================
