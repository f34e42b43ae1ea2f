-------------------------- MODULE SystematicReview -------------------------
(***************************************************************************)
(* A systematic review from its first search to its completion: Retrieval, *)
(* Screening and Extraction composed with appraisals, the audit report and *)
(* the completion check.  Registrations may race with each other, and so   *)
(* may extractions; otherwise a call ends before the next one starts.  The *)
(* races of screening are Screening's own.  The run has its frozen         *)
(* protocol and is active at the start: RunProtocol models how it got      *)
(* there.                                                                  *)
(***************************************************************************)
EXTENDS Retrieval, Screening, Extraction, FiniteSetsExt

CONSTANTS AppraisalRequired,  \* the protocol's appraisal_plan.required
          MaxRecords          \* bound: decisions and extractions begun

ASSUME ReviewBounds == AppraisalRequired \in BOOLEAN /\ MaxRecords \in Nat

VARIABLES appraisals,  \* the appraisal records
          report,      \* the audit report: none, or fresh or stale
          status       \* the run's status

retrieved == <<searches, candidates, registering>>
screened == <<decisions, minted, pending>>
extracted == <<extractions, numbered, extracting>>
reviewVars == <<retrieved, screened, extracted, team, appraisals, report, status>>

ReviewInit ==
  /\ RetrievalInit /\ ScreeningInit /\ ExtractionInit
  /\ appraisals = {}
  /\ report = "none"
  /\ status = "active"

Quiet == registering = {} /\ pending = {} /\ extracting = {}
Calling == Quiet /\ status = "active"
Total(n, S) == MapThenSumSet(LAMBDA c : MapThenSumSet(LAMBDA x : n[c][x], S), Candidates)
InBounds == Total(minted, Stages) + Total(numbered, Fields) < MaxRecords

\* Any record the report indexes, and any claim or conflict on one of the
\* review's sources, makes its hashes stale.
Touch == report' = IF report = "none" THEN "none" ELSE "stale"

-----------------------------------------------------------------------------
\* What the final outcomes of screening say of a candidate.
Full(c) == decisions[c]["full_text"]
Title(c) == decisions[c]["title_abstract"]

Linked(c) == {d.source : d \in Full(c)} \ {None}

\* Mutant: the first full-text decision that names a source.
FirstSource(c) ==
  IF Linked(c) = {} THEN None
  ELSE (CHOOSE d \in Full(c) : /\ d.source # None
                               /\ \A e \in Full(c) : e.source # None => d.id <= e.id).source

\* The source of the last full-text decision that names one.
FinalSource(c) ==
  IF Linked(c) = {} THEN None ELSE Latest({d \in Full(c) : d.source # None}).source

\* The results that the searches in S report.
Executed == {s \in Searches : searches[s] # None}
Results(found, S) == MapThenSumSet(LAMBDA s : found[s].count, S)

\* screening_flow: the PRISMA-style counts.
FlowAt(s, o) == {c \in Unique : FlowDecision(decisions[c][s]) = o}
Flow ==
  LET included == FlowAt("full_text", "include")
  IN  [identified |-> Results(searches, Executed),
       represented |-> Cardinality(Registered),
       duplicates |-> Cardinality(Registered \ Unique),
       screened |-> Cardinality(Unique),
       excludedTitle |-> Cardinality(FlowAt("title_abstract", "exclude")),
       sought |-> Cardinality(FlowAt("title_abstract", "include")),
       assessed |-> Cardinality({c \in Unique : FlowDecision(Full(c)) # None}),
       excludedFull |-> Cardinality(FlowAt("full_text", "exclude")),
       included |-> Cardinality(included),
       unresolved |-> Cardinality({x \in Candidates \X Stages :
                                     FlowUnresolved(decisions[x[1]][x[2]])}),
       fieldsRequired |-> Cardinality(included \X Fields),
       fieldsResolved |-> Cardinality({x \in included \X Fields :
                                         FinalExtraction(extractions[x[1]][x[2]]) # None})]

\* validate_run_for_completion, on what screening leaves of each candidate.
CandidateDone(c) ==
  LET title == FinalDecision(Title(c))
      full == FinalDecision(Full(c))
  IN  /\ title # None
      /\ title = "include" => full # None
      /\ title = "include" /\ full = "include" =>
           /\ FinalSource(c) # None
           /\ AppraisalRequired => <<c, FinalSource(c)>> \in appraisals
           /\ \A f \in Fields :
                /\ FinalExtraction(extractions[c][f]) # None
                /\ \A x \in extractions[c][f] : x.source = FinalSource(c)

EvidenceComplete ==
  /\ AllQueriesExecuted /\ ResultsRepresented /\ KeysAreUnique
  /\ \A c \in Unique : CandidateDone(c)
  /\ Flow.unresolved = 0

-----------------------------------------------------------------------------
SearchStep ==
  /\ Calling /\ RecordSearch /\ Touch
  /\ UNCHANGED <<screened, extracted, appraisals, status>>

RegisterStep ==
  /\ status = "active" /\ pending = {} /\ extracting = {}
  /\ \E p \in Callers : Register(p)
  /\ UNCHANGED <<screened, extracted, appraisals, report, status>>

ScreenStep(c) ==
  /\ InBounds /\ Calling /\ c \in Unique
  /\ \E p \in Callers : Screen(p, c) \/ Adjudicate(p, c)
  /\ UNCHANGED <<retrieved, extracted, appraisals, report, status>>

ExtractStep(c) ==
  /\ InBounds /\ status = "active" /\ registering = {} /\ pending = {} /\ c \in Unique
  /\ FinalDecision(Full(c)) = "include"
  /\ \E p \in Callers : Extract(p, c, Linked(c)) \/ AdjudicateExtraction(p, c, Linked(c))
  /\ UNCHANGED <<retrieved, screened, appraisals, report, status>>

\* The write that ends one of the calls above.
WriteStep ==
  /\ Touch
  /\ \E p \in Callers :
       \/ WriteCandidate(p) /\ UNCHANGED <<screened, extracted>>
       \/ Commit(p) /\ UNCHANGED <<retrieved, extracted>>
       \/ WriteExtraction(p) /\ UNCHANGED <<retrieved, screened>>
  /\ UNCHANGED <<appraisals, status>>

RecordAppraisal(c) ==
  /\ Calling /\ c \in Unique
  /\ FinalDecision(Full(c)) = "include"
  /\ \E src \in Linked(c) : appraisals' = appraisals \cup {<<c, src>>}
  /\ Touch
  /\ UNCHANGED <<retrieved, screened, extracted, team, status>>

\* A claim or a conflict on one of the review's sources: the evidence store
\* does not ask for the run's status.
TouchEvidence ==
  /\ report = "fresh" /\ Quiet
  /\ \E c \in Unique : Linked(c) # {}
  /\ Touch
  /\ UNCHANGED <<retrieved, screened, extracted, team, appraisals, status>>

\* generate_review_report: a stale report is a blocker here, too.
GenerateReport ==
  /\ Calling /\ EvidenceComplete /\ report # "stale"
  /\ report' = "fresh"
  /\ UNCHANGED <<retrieved, screened, extracted, team, appraisals, status>>

\* update_run_status to completed, and back: no transition is refused.
Complete ==
  /\ Quiet /\ EvidenceComplete /\ report = "fresh"
  /\ status' = "completed"
  /\ UNCHANGED <<retrieved, screened, extracted, team, appraisals, report>>

Reactivate ==
  /\ Quiet /\ status = "completed" /\ status' = "active"
  /\ UNCHANGED <<retrieved, screened, extracted, team, appraisals, report>>

ReviewNext ==
  \/ SearchStep \/ RegisterStep \/ WriteStep
  \/ \E c \in Candidates : ScreenStep(c) \/ ExtractStep(c) \/ RecordAppraisal(c)
  \/ TouchEvidence \/ GenerateReport \/ Complete \/ Reactivate

ReviewSpec == ReviewInit /\ [][ReviewNext]_reviewVars

-----------------------------------------------------------------------------
\* Every study that a completed review counts as included rests on one source:
\* a reviewer or the adjudicator included that source, it was appraised, and
\* reviewers of two groups extracted every field from it -- with a panel of two.  A
\* third reviewer may overturn the title of a record whose full text is included
\* already: the counts keep it, and the completion check passes over it.
IncludedStudiesRestOnOneSource ==
  Cardinality(panel) = 2 /\ status = "completed" =>
    \A c \in FlowAt("full_text", "include") : \E src \in Sources :
      /\ \E d \in Full(c) : d.outcome = "include" /\ d.source = src
      /\ AppraisalRequired => <<c, src>> \in appraisals
      /\ \A f \in Fields : /\ \A x \in extractions[c][f] : x.source = src
                           /\ IndependentlyDone(Inputs(extractions[c][f]))

\* The counts of a completed review add up: every result identified is a
\* duplicate or was screened, every record screened was excluded, left uncertain
\* or sought, and every report sought was assessed -- with a panel of two, for the
\* same reason.
FlowBalances ==
  Cardinality(panel) = 2 /\ status = "completed" =>
    LET uncertain(s) == Cardinality(FlowAt(s, "uncertain"))
    IN  /\ Flow.identified = Flow.represented
        /\ Flow.represented = Flow.duplicates + Flow.screened
        /\ Flow.screened = Flow.excludedTitle + Flow.sought + uncertain("title_abstract")
        /\ Flow.sought = Flow.assessed
        /\ Flow.assessed = Flow.excludedFull + Flow.included + uncertain("full_text")
        /\ Flow.fieldsRequired = Flow.fieldsResolved
=============================================================================
