----------------------- MODULE SystematicReviewProofs -----------------------
(***************************************************************************)
(* Proofs about whole reviews, for any number of searches, candidates,     *)
(* reviewers, fields and callers: the invariants of the parts hold of      *)
(* their composition, and a completed review is what its counts say.       *)
(***************************************************************************)
EXTENDS SystematicReview, ReviewProofs

-----------------------------------------------------------------------------
(***************************************************************************)
(* Sums.  A property of the subsets of a finite set that the empty set has *)
(* and that one more element keeps holds of all of them; it is stated of   *)
(* the set of the subsets that have it.                                    *)
(***************************************************************************)
LEMMA SubsetsAll ==
  ASSUME NEW S, IsFiniteSet(S), NEW Having, {} \in Having,
         \A T \in SUBSET S : (\A x \in T : T \ {x} \in Having) => T \in Having
  PROVE  SUBSET S \subseteq Having
<1> DEFINE Rest == (SUBSET S) \ Having
<1> SUFFICES ASSUME Rest # {} PROVE FALSE
  OBVIOUS
<1>1. PICK T \in Rest : \A U \in Rest : <<U, T>> \notin StrictSubsetOrdering(S)
  <2>1. IsWellFoundedOn(StrictSubsetOrdering(S), SUBSET S)
    <3>1. IsWellFoundedOn(StrictSubsetOrdering(S), FiniteSubsetsOf(S))
      BY FS_StrictSubsetOrderingWellFounded
    <3>2. FiniteSubsetsOf(S) = SUBSET S
      BY FS_FiniteSubsetsOfFinite
    <3> QED  BY <3>1, <3>2
  <2> HIDE DEF Rest
  <2>2. Rest \subseteq SUBSET S
    BY DEF Rest
  <2> QED  BY <2>1, <2>2, WFMin
<1>2. PICK x \in T : T \ {x} \notin Having
  <2>1. T \in SUBSET S /\ T \notin Having
    BY <1>1
  <2> QED  BY <2>1
<1>3. T \ {x} \in SUBSET S /\ <<T \ {x}, T>> \in StrictSubsetOrdering(S)
  BY <1>1, <1>2 DEF StrictSubsetOrdering
<1> QED  BY <1>1, <1>2, <1>3

Some(T) == CHOOSE x \in T : TRUE

\* g adds up the counts of found over the subsets of S.
AddsUp(g, found, S) ==
  g = [T \in SUBSET S |-> IF T = {} THEN 0 ELSE found[Some(T)].count + g[T \ {Some(T)}]]


LEMMA SumsAgree ==
  ASSUME NEW S, IsFiniteSet(S), NEW found, NEW g, NEW h, AddsUp(g, found, S), AddsUp(h, found, S)
  PROVE  g[S] = h[S]
<1> DEFINE Having == {T \in SUBSET S : g[T] = h[T]}
<1>1. \A T \in SUBSET S :
        /\ g[T] = IF T = {} THEN 0 ELSE found[Some(T)].count + g[T \ {Some(T)}]
        /\ h[T] = IF T = {} THEN 0 ELSE found[Some(T)].count + h[T \ {Some(T)}]
  BY DEF AddsUp
<1>2. {} \in Having
  BY <1>1
<1>3. ASSUME NEW T \in SUBSET S, \A x \in T : T \ {x} \in Having PROVE T \in Having
  <2>1. CASE T = {}
    BY <1>2, <2>1
  <2>2. CASE T # {}
    <3>1. Some(T) \in T
      BY <2>2 DEF Some
    <3>2. g[T \ {Some(T)}] = h[T \ {Some(T)}]
      BY <1>3, <3>1
    <3> QED  BY <1>1, <2>2, <3>2
  <2> QED  BY <2>1, <2>2
<1> HIDE DEF Having
<1>4. SUBSET S \subseteq Having
  BY <1>2, <1>3, SubsetsAll
<1> QED  BY <1>4 DEF Having

\* What MapThenSumSet adds up is what any such function adds up.
LEMMA ResultsAre ==
  ASSUME NEW S, IsFiniteSet(S), NEW found, NEW h, AddsUp(h, found, S)
  PROVE  Results(found, S) = h[S]
<1> DEFINE g == CHOOSE g : AddsUp(g, found, S)
<1>1. AddsUp(g, found, S)
  OBVIOUS
<1>2. g[S] = Results(found, S)
  BY DEF AddsUp, Some, Results, MapThenSumSet, MapThenFoldSet
<1> QED  BY <1>1, <1>2, SumsAgree

\* The candidates found by the searches in T.
FoundBy(of, T) == {c \in Registered : of[c].search \in T}

\* If every search has as many candidates as it reports results, there are as many
\* candidates as results.
LEMMA AllRepresented ==
  ASSUME NEW S, IsFiniteSet(S), NEW found, NEW of, IsFiniteSet(Registered),
         \A s \in S : found[s].count = Cardinality(FoundBy(of, {s}))
  PROVE  Results(found, S) = Cardinality(FoundBy(of, S))
<1> DEFINE h == [T \in SUBSET S |-> Cardinality(FoundBy(of, T))]
<1>1. \A T : IsFiniteSet(FoundBy(of, T)) /\ Cardinality(FoundBy(of, T)) \in Nat
  BY FS_Subset, FS_CardinalityType DEF FoundBy
<1>2. Cardinality(FoundBy(of, {})) = 0
  BY FS_EmptySet DEF FoundBy
<1>3. ASSUME NEW T \in SUBSET S, T # {}
      PROVE  Cardinality(FoundBy(of, T)) = found[Some(T)].count + Cardinality(FoundBy(of, T \ {Some(T)}))
  <2> DEFINE x == Some(T)
             new == FoundBy(of, {x})
             old == FoundBy(of, T \ {x})
  <2>1. x \in T
    BY <1>3 DEF Some
  <2>2. FoundBy(of, T) = new \cup old /\ new \cap old = {}
    BY <2>1 DEF FoundBy
  <2>3. Cardinality(new \cup old) = Cardinality(new) + Cardinality(old) - Cardinality(new \cap old)
    BY <1>1, FS_Union
  <2>4. Cardinality(new \cap old) = 0
    BY <2>2, FS_EmptySet
  <2>5. found[x].count = Cardinality(new)
    BY <2>1
  <2>6. Cardinality(new) \in Nat /\ Cardinality(old) \in Nat
    BY <1>1
  <2> HIDE DEF x, new, old
  <2>7. Cardinality(FoundBy(of, T)) = found[x].count + Cardinality(old)
    BY <2>2, <2>3, <2>4, <2>5, <2>6
  <2> QED  BY <2>7 DEF x, old
<1>4. \A T \in SUBSET S : T \ {Some(T)} \in SUBSET S
  OBVIOUS
<1>5. AddsUp(h, found, S)
  BY <1>2, <1>3, <1>4 DEF AddsUp
<1>6. Results(found, S) = h[S]
  BY <1>5, ResultsAre
<1> QED  BY <1>6
-----------------------------------------------------------------------------
(***************************************************************************)
(* The parts in the whole.  A step of the review is a step of one part or  *)
(* leaves its records alone; the history variable may change in either     *)
(* case, as any two calls overlap.                                         *)
(***************************************************************************)
TeamGrows == panel' = panel /\ overlapped' \in BOOLEAN /\ (overlapped => overlapped')

LEMMA StepParts ==
  ASSUME ScreeningTypeOK, [ReviewNext]_reviewVars
  PROVE  /\ TeamGrows
         /\ [RetrievalNext]_retrievalVars \/ UNCHANGED retrieved
         /\ [ScreeningNext]_screeningVars \/ UNCHANGED screened
         /\ [ExtractionNext]_extractionVars \/ UNCHANGED extracted
<1>0. TeamOK
  BY DEF ScreeningTypeOK
<1>1. \A others : Overlap(others) => TeamGrows
  BY <1>0 DEF TeamOK, Overlap, TeamGrows
<1>2. UNCHANGED team => TeamGrows
  BY <1>0 DEF TeamOK, team, TeamGrows
<1>3. ASSUME NEW c \in Candidates PROVE Linked(c) \subseteq Sources
  BY DEF ScreeningTypeOK, Stages, Decision, Linked, Full
<1>4. CASE SearchStep
  BY <1>2, <1>4 DEF SearchStep, RecordSearch, RetrievalNext, screened, extracted
<1>5. CASE RegisterStep
  BY <1>1, <1>5 DEF RegisterStep, Register, RetrievalNext, screened, extracted
<1>6. ASSUME NEW c \in Candidates, ScreenStep(c)
      PROVE  TeamGrows /\ ScreeningNext /\ UNCHANGED <<retrieved, extracted>>
  <2>1. PICK p \in Callers : Screen(p, c) \/ Adjudicate(p, c)
    BY <1>6 DEF ScreenStep
  <2>2. TeamGrows
    BY <1>1, <2>1 DEF Screen, Adjudicate, Submit
  <2> QED  BY <1>6, <2>1, <2>2 DEF ScreenStep, ScreeningNext
<1>7. ASSUME NEW c \in Candidates, ExtractStep(c)
      PROVE  TeamGrows /\ ExtractionNext /\ UNCHANGED <<retrieved, screened>>
  <2>1. PICK p \in Callers : Extract(p, c, Linked(c)) \/ AdjudicateExtraction(p, c, Linked(c))
    BY <1>7 DEF ExtractStep
  <2>2. Extract(p, c, Sources) \/ AdjudicateExtraction(p, c, Sources)
    BY <1>3, <2>1 DEF Extract, AdjudicateExtraction
  <2>3. TeamGrows
    BY <1>1, <2>1 DEF Extract, AdjudicateExtraction, Prepare
  <2> QED  BY <1>7, <2>2, <2>3 DEF ExtractStep, ExtractionNext
<1>8. CASE WriteStep
  BY <1>2, <1>8 DEF WriteStep, WriteCandidate, Commit, WriteExtraction, RetrievalNext, ScreeningNext,
                    ExtractionNext
<1>9. ASSUME NEW c \in Candidates, RecordAppraisal(c) PROVE UNCHANGED <<retrieved, screened, extracted, team>>
  BY <1>9 DEF RecordAppraisal
<1>10. CASE TouchEvidence \/ GenerateReport \/ Complete \/ Reactivate \/ UNCHANGED reviewVars
  BY <1>2, <1>10 DEF TouchEvidence, GenerateReport, Complete, Reactivate, reviewVars
<1> QED  BY <1>2, <1>4, <1>5, <1>6, <1>7, <1>8, <1>9, <1>10 DEF ReviewNext

LEMMA TeamStaysOK == ASSUME TeamOK, TeamGrows PROVE TeamOK'
BY DEF TeamOK, TeamGrows, Panels

LEMMA RetrievalFramed ==
  ASSUME RetrievalInv, UNCHANGED retrieved, TeamGrows PROVE RetrievalInv'
<1>1. /\ UNCHANGED <<searches, candidates, registering>> /\ TeamOK' /\ (overlapped => overlapped')
      /\ UNCHANGED <<Registered, Unique>> /\ \A u : Key(u)' = Key(u)
  BY TeamStaysOK DEF RetrievalInv, RetrievalTypeOK, retrieved, TeamGrows, Registered, Unique, Key, DedupeKey
<1> QED  BY <1>1 DEF RetrievalInv, RetrievalTypeOK, ReservedFit, DuplicatesPointAtCanonical, AloneSoFar,
                     OneCanonicalPerKey, KeysAreUnique

LEMMA ScreeningFramed ==
  ASSUME ScreeningInv, UNCHANGED screened, TeamGrows PROVE ScreeningInv'
<1>1. UNCHANGED <<decisions, minted, pending>> /\ TeamOK' /\ (overlapped => overlapped')
  BY TeamStaysOK DEF ScreeningInv, ScreeningTypeOK, screened, TeamGrows
<1>2. ScreeningTypeOK' /\ PendingRests'
  BY <1>1 DEF ScreeningInv, ScreeningTypeOK, PendingRests, Rests, Independent
<1>3. AdjudicationsRestOnDisagreement'
  BY <1>1 DEF ScreeningInv, AdjudicationsRestOnDisagreement, Adjudications, Independent
<1>4. ScreeningAlone' /\ OneDecisionPerReviewer'
  BY <1>1 DEF ScreeningInv, ScreeningAlone, OneDecisionPerReviewer, Independent
<1> QED  BY <1>2, <1>3, <1>4 DEF ScreeningInv

LEMMA ValuesFramed ==
  ASSUME ValuesInv, UNCHANGED extracted, TeamGrows PROVE ValuesInv'
<1>1. UNCHANGED <<extractions, numbered, extracting, panel>> /\ TeamOK' /\ (overlapped => overlapped')
  BY TeamStaysOK DEF ValuesInv, ExtractionInv, ExtractionTypeOK, extracted, TeamGrows
<1>2. ExtractionTypeOK' /\ ExtractingKeeps'
  BY <1>1 DEF ValuesInv, ExtractionInv, ExtractionTypeOK, ExtractingKeeps, Keeps, Inputs
<1>3. ResolutionsKeepInputs'
  BY <1>1 DEF ValuesInv, ExtractionInv, ResolutionsKeepInputs, Resolutions, Inputs
<1>4. ExtractedByPanel'
  BY <1>1 DEF ValuesInv, ExtractedByPanel, Inputs
<1>5. ExtractingAlone'
  BY <1>1 DEF ValuesInv, ExtractingAlone, StillDue, SameValue, Resolutions, Inputs
<1> QED  BY <1>2, <1>3, <1>4, <1>5 DEF ValuesInv, ExtractionInv

PartsInv == RetrievalInv /\ ScreeningInv /\ ValuesInv

LEMMA PartsStart == ReviewInit => PartsInv
BY RetrievalStarts, ScreeningStarts, ValuesStart DEF ReviewInit, PartsInv

LEMMA PartsStep == PartsInv /\ [ReviewNext]_reviewVars => PartsInv'
<1> SUFFICES ASSUME PartsInv, [ReviewNext]_reviewVars PROVE PartsInv'
  OBVIOUS
<1>1. /\ TeamGrows
      /\ [RetrievalNext]_retrievalVars \/ UNCHANGED retrieved
      /\ [ScreeningNext]_screeningVars \/ UNCHANGED screened
      /\ [ExtractionNext]_extractionVars \/ UNCHANGED extracted
  BY StepParts DEF PartsInv, ScreeningInv
<1>2. RetrievalInv'
  BY <1>1, RetrievalStep, RetrievalFramed DEF PartsInv
<1>3. ScreeningInv'
  BY <1>1, ScreeningStep, ScreeningFramed DEF PartsInv
<1>4. ValuesInv'
  BY <1>1, ValuesStep, ValuesFramed DEF PartsInv
<1> QED  BY <1>2, <1>3, <1>4 DEF PartsInv

\* The composed review keeps what its parts promise, although registrations race with
\* each other and extractions with each other (DuplicatesPointAtCanonical,
\* OneCanonicalPerKey, ResolutionsKeepInputs).
THEOREM ReviewKeepsItsParts ==
  ReviewSpec => [](DuplicatesPointAtCanonical /\ OneCanonicalPerKey /\ ResolutionsKeepInputs)
<1>1. PartsInv => DuplicatesPointAtCanonical /\ OneCanonicalPerKey /\ ResolutionsKeepInputs
  BY DEF PartsInv, RetrievalInv, ValuesInv, ExtractionInv
<1> QED  BY <1>1, PartsStart, PartsStep, PTL DEF ReviewSpec

\* In a whole review, too, a field keeps the value it has settled on, with a panel of two
\* and unless calls overlapped (SettledValueStays).
THEOREM ValuesStaySettled == ReviewSpec => SettledValueStays
<1>1. ASSUME PartsInv, [ReviewNext]_reviewVars, Pair, ~overlapped',
             NEW c \in Candidates, NEW f \in Fields, FinalExtraction(extractions[c][f]) # None
      PROVE  FinalExtraction(extractions'[c][f]) = FinalExtraction(extractions[c][f])
  <2>1. [ExtractionNext]_extractionVars \/ UNCHANGED extracted
    BY <1>1, StepParts DEF PartsInv, ScreeningInv
  <2>2. extractions'[c][f] = extractions[c][f]
    BY <1>1, <2>1, ValueStays DEF PartsInv, extracted
  <2> QED  BY <2>2
<1>2. PartsInv /\ [ReviewNext]_reviewVars =>
        [Cardinality(panel) = 2 /\ ~overlapped' =>
           \A c \in Candidates, f \in Fields :
             FinalExtraction(extractions[c][f]) # None
               => FinalExtraction(extractions'[c][f]) = FinalExtraction(extractions[c][f])]_extractionVars
  BY <1>1 DEF Pair
<1> QED  BY <1>2, PartsStart, PartsStep, PTL DEF ReviewSpec, SettledValueStays

-----------------------------------------------------------------------------
(***************************************************************************)
(* Screening within a review.  One call at a time screens, whatever else   *)
(* overlapped, so what it found still holds when it writes.                *)
(***************************************************************************)

\* Decisions of one candidate at one stage, with ids up to last.
Orderly(ds, last) ==
  /\ \A d \in ds : d.id <= last
  /\ \A d \in Independent(ds) : d.reviewer \in panel
  /\ \A a \in Adjudications(ds) :
       /\ \A b \in Adjudications(ds) : a = b
       /\ ~Agreed(Independent(ds))
       /\ \A n \in a.resolves : n < a.id

\* A decision that may be added to them.
Due(d, ds, last) ==
  /\ d.id <= last
  /\ d.kind = "independent" =>
       d.reviewer \in panel /\ \A e \in Independent(ds) : e.reviewer # d.reviewer
  /\ d.kind = "adjudication" =>
       /\ ~Agreed(Independent(ds)) /\ Adjudications(ds) = {}
       /\ \A n \in d.resolves : n < d.id

\* A full-text inclusion names its source.
Sourced(s, d) == s = "full_text" /\ d.outcome = "include" => d.source \in Sources

\* With a panel of two, the full text may be screened.
TitleStands(c) == Pair => FinalDecision(Title(c)) = "include"

ScreenedInOrder ==
  /\ \A p, q \in pending : p = q
  /\ \A p \in pending :
       /\ Due(p.decision, decisions[p.candidate][p.stage], minted[p.candidate][p.stage])
       /\ Sourced(p.stage, p.decision)
       /\ p.candidate \in Unique
       /\ p.stage = "full_text" => TitleStands(p.candidate)
  /\ \A c \in Candidates, s \in Stages :
       /\ Orderly(decisions[c][s], minted[c][s])
       /\ \A d \in decisions[c][s] : Sourced(s, d)
       /\ decisions[c][s] # {} => c \in Unique
  /\ \A c \in Candidates : Full(c) # {} => TitleStands(c)

\* What is due keeps the order, and none is due where the panel has settled.
LEMMA DueKeepsOrder ==
  ASSUME NEW ds, NEW d, NEW last, Orderly(ds, last), Due(d, ds, last),
         d.kind \in {"independent", "adjudication"}
  PROVE  Orderly(ds \cup {d}, last)
<1>1. CASE d.kind = "independent"
  <2>1. Independent(ds \cup {d}) = Independent(ds) \cup {d} /\ Adjudications(ds \cup {d}) = Adjudications(ds)
    BY <1>1 DEF Independent, Adjudications
  <2>2. ~Agreed(Independent(ds)) => ~Agreed(Independent(ds) \cup {d})
    BY DEF Agreed
  <2> QED  BY <1>1, <2>1, <2>2 DEF Orderly, Due
<1>2. CASE d.kind = "adjudication"
  <2>1. Independent(ds \cup {d}) = Independent(ds) /\ Adjudications(ds \cup {d}) = Adjudications(ds) \cup {d}
    BY <1>2 DEF Independent, Adjudications
  <2> QED  BY <1>2, <2>1 DEF Orderly, Due
<1> QED  BY <1>1, <1>2

LEMMA NoneIsDue ==
  ASSUME TeamOK, Pair, NEW ds, NEW d, NEW last, Orderly(ds, last), Due(d, ds, last),
         d.kind \in {"independent", "adjudication"}
  PROVE  FinalDecision(ds) = None
<1> SUFFICES ASSUME FinalDecision(ds) # None PROVE FALSE
  OBVIOUS
<1>1. CASE d.kind = "independent"
  <2>1. PICK x \in Independent(ds), y \in Independent(ds) : x.reviewer # y.reviewer
    BY DEF FinalDecision, TwoReviewers
  <2>2. x.reviewer \in panel /\ y.reviewer \in panel /\ d.reviewer \in panel
    BY <1>1 DEF Orderly, Due
  <2>3. d.reviewer = x.reviewer \/ d.reviewer = y.reviewer
    BY <2>1, <2>2, TwoReviewersAreAll
  <2> QED  BY <1>1, <2>3 DEF Due
<1>2. CASE d.kind = "adjudication"
  BY <1>2 DEF Due, FinalDecision
<1> QED  BY <1>1, <1>2

LEMMA UniqueStays ==
  ASSUME RetrievalInv, [RetrievalNext]_retrievalVars \/ UNCHANGED retrieved
  PROVE  Unique \subseteq Unique'
<1>1. ASSUME NEW p \in Callers, WriteCandidate(p) PROVE Unique \subseteq Unique'
  <2> PICK r \in registering : candidates' = [candidates EXCEPT ![r.id] = r.record]
    BY <1>1 DEF WriteCandidate
  <2>1. candidates[r.id] = None /\ DOMAIN candidates = Candidates
    BY DEF RetrievalInv, ReservedFit, RetrievalTypeOK
  <2>2. \A u \in Unique : candidates'[u] = candidates[u]
    BY <2>1 DEF Unique, Registered
  <2> QED  BY <2>2 DEF Unique, Registered
<1>2. CASE UNCHANGED candidates
  BY <1>2 DEF Unique, Registered
<1> QED  BY <1>1, <1>2 DEF RetrievalNext, RecordSearch, Register, retrievalVars, retrieved

LEMMA OrderStarts == ReviewInit => ScreenedInOrder
<1> SUFFICES ASSUME ReviewInit PROVE ScreenedInOrder
  OBVIOUS
<1>1. pending = {} /\ \A c \in Candidates, s \in Stages : decisions[c][s] = {} /\ minted[c][s] = 0
  BY DEF ReviewInit, ScreeningInit
<1>2. Independent({}) = {} /\ Adjudications({}) = {} /\ "full_text" \in Stages
  BY DEF Independent, Adjudications, Stages
<1> QED  BY <1>1, <1>2 DEF ScreenedInOrder, Orderly, Full

LEMMA OrderFramed ==
  ASSUME ScreenedInOrder, UNCHANGED <<screened, panel>>, Unique \subseteq Unique'
  PROVE  ScreenedInOrder'
<1>1. UNCHANGED <<decisions, minted, pending, panel>>
  BY DEF screened
<1> QED  BY <1>1 DEF ScreenedInOrder, Orderly, Due, TitleStands, Title, Full, Pair

\* A call to screen or to adjudicate, when no other is under way.
LEMMA SubmitInOrder ==
  ASSUME ScreeningInv, ScreenedInOrder, pending = {}, UNCHANGED candidates,
         NEW w \in Callers, NEW c \in Unique, NEW s \in Stages, NEW kind, NEW r, NEW o, NEW src,
         NEW resolves, Submit(w, c, s, kind, r, o, src, resolves),
         kind = "independent" =>
           r \in panel /\ \A e \in Independent(decisions[c][s]) : e.reviewer # r,
         kind = "adjudication" => /\ ~Agreed(Independent(decisions[c][s]))
                                  /\ Adjudications(decisions[c][s]) = {}
                                  /\ resolves = Ids(Independent(decisions[c][s])),
         s = "full_text" /\ o = "include" => src \in Sources,
         s = "full_text" => TitleStands(c)
  PROVE  ScreenedInOrder'
<1> DEFINE new == [writer |-> w, candidate |-> c, stage |-> s,
                   decision |-> [id |-> minted[c][s] + 1, kind |-> kind, reviewer |-> r,
                                 outcome |-> o, source |-> src, resolves |-> resolves]]
<1>1. /\ pending' = {new} /\ decisions' = decisions /\ panel' = panel
      /\ minted' = [minted EXCEPT ![c][s] = @ + 1]
  BY DEF Submit, Overlap
<1>2. c \in Candidates /\ Unique' = Unique
  BY DEF Unique, Registered
<1>3. /\ minted[c][s] \in Nat /\ minted'[c][s] = minted[c][s] + 1
      /\ \A b \in Candidates, t \in Stages :
           minted[b][t] \in Nat /\ minted'[b][t] \in Nat /\ minted[b][t] <= minted'[b][t]
  BY <1>1, <1>2 DEF ScreeningInv, ScreeningTypeOK
<1>4. \A b \in Candidates, t \in Stages : \A d \in decisions[b][t] : d.id \in Nat /\ d.id <= minted[b][t]
  BY DEF ScreeningInv, ScreeningTypeOK, Decision, ScreenedInOrder, Orderly
<1>5. Due(new.decision, decisions[c][s], minted'[c][s])
  <2>1. kind = "adjudication" => \A n \in resolves : n < minted[c][s] + 1
    BY <1>2, <1>3, <1>4 DEF Ids, Independent
  <2> QED  BY <1>3, <2>1 DEF Due
<1>6. \A b \in Candidates, t \in Stages : Orderly(decisions[b][t], minted'[b][t])
  BY <1>3, <1>4 DEF ScreenedInOrder, Orderly
<1>7. \A b : TitleStands(b)' = TitleStands(b)
  BY <1>1 DEF TitleStands, Title, Pair
<1>8. \A ds, last : Orderly(ds, last)' = Orderly(ds, last)
  BY <1>1 DEF Orderly
<1>9. Sourced(s, new.decision)
  BY DEF Sourced
<1>10. \A p \in pending' :
         /\ Due(p.decision, decisions[p.candidate][p.stage], minted'[p.candidate][p.stage])
         /\ Sourced(p.stage, p.decision)
         /\ p.candidate \in Unique
         /\ p.stage = "full_text" => TitleStands(p.candidate)
  BY <1>1, <1>5, <1>9
<1> QED  BY <1>1, <1>2, <1>6, <1>7, <1>8, <1>10 DEF ScreenedInOrder, Due, Full

LEMMA ScreenInOrder ==
  ASSUME ScreeningInv, ScreenedInOrder, NEW c \in Candidates, ScreenStep(c)
  PROVE  ScreenedInOrder'
<1>1. pending = {} /\ UNCHANGED candidates /\ c \in Unique
  BY DEF ScreenStep, Calling, Quiet, retrieved
<1>2. \A s, o, src : src \in SourcesFor(s, o) /\ s = "full_text" /\ o = "include" => src \in Sources
  BY DEF SourcesFor
<1>3. "full_text" \in Stages
  BY DEF Stages
<1>4. ASSUME NEW p \in Callers, Screen(p, c) PROVE ScreenedInOrder'
  <2> PICK s, r, o, src :
        /\ s \in Stages /\ r \in panel
        /\ s = "full_text" => FinalDecision(decisions[c]["title_abstract"]) = "include"
        /\ ~\E d \in Independent(decisions[c][s]) : d.reviewer = r
        /\ src \in SourcesFor(s, o) /\ Submit(p, c, s, "independent", r, o, src, {})
    BY <1>4 DEF Screen
  <2>1. s = "full_text" => TitleStands(c)
    BY DEF TitleStands, Title
  <2> QED  BY <1>1, <1>2, <2>1, SubmitInOrder
<1>5. ASSUME NEW p \in Callers, Adjudicate(p, c) PROVE ScreenedInOrder'
  <2> DEFINE ind(s) == Independent(decisions[c][s])
  <2> PICK s, o, src :
        /\ s \in Stages
        /\ ~Agreed(ind(s)) /\ Adjudications(decisions[c][s]) = {}
        /\ src \in SourcesFor(s, o) /\ Submit(p, c, s, "adjudication", None, o, src, Ids(ind(s)))
    BY <1>5 DEF Adjudicate
  <2>1. decisions[c][s] # {}
    BY DEF Agreed, Independent
  <2>2. s = "full_text" => TitleStands(c)
    BY <2>1 DEF ScreenedInOrder, Full
  <2> QED  BY <1>1, <1>2, <2>2, SubmitInOrder
<1> QED  BY <1>4, <1>5 DEF ScreenStep

LEMMA CommitInOrder ==
  ASSUME ScreeningInv, ScreenedInOrder, NEW w \in Callers, Commit(w), UNCHANGED candidates
  PROVE  ScreenedInOrder'
<1> PICK p \in pending :
      /\ p.candidate \in Candidates /\ p.stage \in Stages
      /\ decisions'[p.candidate][p.stage] = decisions[p.candidate][p.stage] \cup {p.decision}
      /\ \A b \in Candidates, t \in Stages :
           b # p.candidate \/ t # p.stage => decisions'[b][t] = decisions[b][t]
      /\ pending' = pending \ {p} /\ UNCHANGED <<panel, overlapped>>
  BY Committed
<1> DEFINE c == p.candidate
           s == p.stage
<1>1. minted' = minted /\ pending' = {} /\ Unique' = Unique
  BY DEF Commit, ScreenedInOrder, Unique, Registered
<1>2. TeamOK /\ p.decision.kind \in {"independent", "adjudication"}
  BY DEF ScreeningInv, ScreeningTypeOK, Submission, Decision
<1>3. /\ Orderly(decisions[c][s], minted[c][s]) /\ Due(p.decision, decisions[c][s], minted[c][s])
      /\ Sourced(s, p.decision) /\ c \in Unique
      /\ s = "full_text" => TitleStands(c)
  BY DEF ScreenedInOrder
<1>4. Orderly(decisions'[c][s], minted[c][s])
  BY <1>2, <1>3, DueKeepsOrder
<1>5. \A ds, last : Orderly(ds, last)' = Orderly(ds, last)
  BY DEF Orderly
<1>6. ASSUME NEW b \in Candidates, NEW t \in Stages
      PROVE  /\ Orderly(decisions'[b][t], minted[b][t])
             /\ \A d \in decisions'[b][t] : Sourced(t, d)
             /\ decisions'[b][t] # {} => b \in Unique
  <2>1. CASE b = c /\ t = s
    BY <1>3, <1>4, <2>1 DEF ScreenedInOrder
  <2>2. CASE b # c \/ t # s
    BY <2>2 DEF ScreenedInOrder
  <2> QED  BY <2>1, <2>2
<1>7. ASSUME NEW b \in Candidates, decisions'[b]["full_text"] # {}
      PROVE  TitleStands(b)'
  <2>0. "full_text" \in Stages /\ "title_abstract" \in Stages /\ "include" # None
    BY NoOutcomeIsNone DEF Stages
  <2>1. TitleStands(b)
    <3>1. CASE decisions[b]["full_text"] # {}
      BY <3>1 DEF ScreenedInOrder, Full
    <3>2. CASE decisions[b]["full_text"] = {}
      BY <1>3, <1>7, <2>0, <3>2
    <3> QED  BY <3>1, <3>2
  <2>2. Pair => decisions'[b]["title_abstract"] = decisions[b]["title_abstract"]
    <3>1. Pair => FinalDecision(decisions[c][s]) = None
      BY <1>2, <1>3, NoneIsDue
    <3>2. Pair => FinalDecision(decisions[b]["title_abstract"]) # None
      BY <2>0, <2>1 DEF TitleStands, Title
    <3> QED  BY <2>0, <3>1, <3>2
  <2> QED  BY <2>1, <2>2 DEF TitleStands, Title, Pair
<1> QED  BY <1>1, <1>5, <1>6, <1>7 DEF ScreenedInOrder, Full

\* Screening follows its order in every step of a review.
LEMMA OrderStep == PartsInv /\ ScreenedInOrder /\ [ReviewNext]_reviewVars => ScreenedInOrder'
<1> SUFFICES ASSUME PartsInv, ScreenedInOrder, [ReviewNext]_reviewVars PROVE ScreenedInOrder'
  OBVIOUS
<1>1. Unique \subseteq Unique' /\ UNCHANGED panel
  BY StepParts, UniqueStays DEF PartsInv, ScreeningInv, TeamGrows
<1>2. CASE UNCHANGED screened
  BY <1>1, <1>2, OrderFramed
<1>3. CASE \E c \in Candidates : ScreenStep(c)
  BY <1>3, ScreenInOrder DEF PartsInv
<1>4. CASE WriteStep
  <2>1. CASE \E p \in Callers : Commit(p) /\ UNCHANGED <<retrieved, extracted>>
    BY <2>1, CommitInOrder DEF PartsInv, retrieved
  <2> QED  BY <1>2, <1>4, <2>1 DEF WriteStep
<1> QED
  BY <1>2, <1>3, <1>4 DEF ReviewNext, SearchStep, RegisterStep, ExtractStep, RecordAppraisal, TouchEvidence,
                          GenerateReport, Complete, Reactivate, reviewVars

-----------------------------------------------------------------------------
(***************************************************************************)
(* What a completed review rests on: nothing is recorded while the run is  *)
(* completed, so all that the completion check asked for still holds.      *)
(***************************************************************************)
Unresolved == {x \in Candidates \X Stages : FlowUnresolved(decisions[x[1]][x[2]])}

CompletionHolds ==
  /\ Quiet
  /\ ResultsRepresented
  /\ \A c \in Unique : CandidateDone(c)
  /\ Cardinality(Unresolved) = 0

CompletedInv == status \in {"active", "completed"} /\ (status = "completed" => CompletionHolds)

\* Candidates come from searches on record, and there are finitely many of each.
Traced ==
  /\ IsFiniteSet(Registered) /\ IsFiniteSet(Executed)
  /\ \A r \in registering : r.record.search \in Executed
  /\ \A c \in Registered : candidates[c].search \in Executed

LEMMA TracedStarts == ReviewInit => Traced
<1> SUFFICES ASSUME ReviewInit PROVE Traced
  OBVIOUS
<1>1. Registered = {} /\ Executed = {} /\ registering = {}
  BY DEF ReviewInit, RetrievalInit, Registered, Executed
<1> QED  BY <1>1, FS_EmptySet DEF Traced

LEMMA TracedStep ==
  ASSUME RetrievalInv, Traced, [RetrievalNext]_retrievalVars \/ UNCHANGED retrieved
  PROVE  Traced'
<1> USE DEF Traced
<1>0. RetrievalTypeOK
  BY DEF RetrievalInv
<1>1. CASE UNCHANGED retrieved \/ UNCHANGED retrievalVars
  BY <1>1 DEF retrieved, retrievalVars, Registered, Executed
<1>2. CASE RecordSearch
  <2> PICK s \in Searches : /\ UNCHANGED <<candidates, registering>>
                            /\ \A t \in Searches : t # s => searches'[t] = searches[t]
                            /\ searches[s] = None
    BY <1>0, <1>2 DEF RecordSearch, RetrievalTypeOK
  <2>1. Executed \subseteq Executed' /\ Executed' \subseteq Executed \cup {s} /\ Registered' = Registered
    BY DEF Executed, Registered
  <2>2. IsFiniteSet(Executed \cup {s})
    BY FS_AddElement
  <2>3. IsFiniteSet(Executed')
    BY <2>1, <2>2, FS_Subset
  <2> QED  BY <2>1, <2>3
<1>3. ASSUME NEW p \in Callers, Register(p) PROVE Traced'
  <2> PICK s, rec :
        /\ s \in Searches /\ searches[s] # None /\ rec.record.search = s /\ registering' = registering \cup {rec}
        /\ UNCHANGED <<searches, candidates>>
    BY <1>3 DEF Register
  <2> QED  BY DEF Executed, Registered
<1>4. ASSUME NEW p \in Callers, WriteCandidate(p) PROVE Traced'
  <2> PICK r \in registering : /\ candidates' = [candidates EXCEPT ![r.id] = r.record]
                               /\ registering' = registering \ {r} /\ UNCHANGED searches
    BY <1>4 DEF WriteCandidate
  <2>1. /\ r.id \in Candidates /\ DOMAIN candidates = Candidates
        /\ candidates'[r.id] = r.record /\ \A c \in Candidates : c # r.id => candidates'[c] = candidates[c]
    BY <1>0 DEF RetrievalTypeOK
  <2>2. Registered' \subseteq Registered \cup {r.id} /\ Executed' = Executed
    BY <2>1 DEF Registered, Executed
  <2>3. IsFiniteSet(Registered \cup {r.id})
    BY FS_AddElement
  <2>4. IsFiniteSet(Registered')
    BY <2>2, <2>3, FS_Subset
  <2>5. \A c \in Registered' : candidates'[c].search \in Executed
    BY <2>1, <2>2
  <2> QED  BY <2>2, <2>4, <2>5
<1> QED  BY <1>1, <1>2, <1>3, <1>4 DEF RetrievalNext

LEMMA HoldsFramed ==
  ASSUME CompletionHolds, UNCHANGED <<retrieved, screened, extracted, appraisals>> PROVE CompletionHolds'
<1>1. UNCHANGED <<searches, candidates, registering, decisions, pending, extractions, extracting, appraisals>>
  BY DEF retrieved, screened, extracted
<1>2. UNCHANGED <<Registered, Unique, Quiet, ResultsRepresented, Unresolved>>
  BY <1>1 DEF Registered, Unique, Quiet, ResultsRepresented, Unresolved
<1>3. \A c : CandidateDone(c)' = CandidateDone(c)
  BY <1>1 DEF CandidateDone, Title, Full, FinalSource, Linked
<1> QED  BY <1>2, <1>3 DEF CompletionHolds

LEMMA CompletedStep == ASSUME CompletedInv, [ReviewNext]_reviewVars PROVE CompletedInv'
<1>1. CASE Complete
  <2>1. CompletionHolds
    BY <1>1 DEF Complete, EvidenceComplete, CompletionHolds, Flow, Unresolved
  <2>2. CompletionHolds'
    BY <1>1, <2>1, HoldsFramed DEF Complete
  <2> QED  BY <1>1, <2>2 DEF Complete, CompletedInv
<1>2. CASE Reactivate
  BY <1>2 DEF Reactivate, CompletedInv
<1>3. CASE TouchEvidence \/ GenerateReport \/ UNCHANGED reviewVars
  <2>1. UNCHANGED <<retrieved, screened, extracted, appraisals, status>>
    BY <1>3 DEF TouchEvidence, GenerateReport, reviewVars
  <2> QED  BY <2>1, HoldsFramed DEF CompletedInv
<1>4. CASE SearchStep \/ RegisterStep \/ \E c \in Candidates : ScreenStep(c) \/ ExtractStep(c) \/ RecordAppraisal(c)
  <2>1. status = "active" /\ status' = status
    BY <1>4 DEF SearchStep, RegisterStep, ScreenStep, ExtractStep, RecordAppraisal, Calling
  <2> QED  BY <2>1 DEF CompletedInv
<1>5. CASE WriteStep
  <2>1. status' = status /\ ~Quiet
    BY <1>5 DEF WriteStep, WriteCandidate, Commit, WriteExtraction, Quiet
  <2> QED  BY <2>1 DEF CompletedInv, CompletionHolds
<1> QED  BY <1>1, <1>2, <1>3, <1>4, <1>5 DEF ReviewNext

ReviewInv == PartsInv /\ ScreenedInOrder /\ Traced /\ CompletedInv

LEMMA ReviewHolds == ReviewSpec => []ReviewInv
<1>1. ReviewInit => ReviewInv
  BY PartsStart, OrderStarts, TracedStarts DEF ReviewInit, ReviewInv, CompletedInv
<1>2. ReviewInv /\ [ReviewNext]_reviewVars => ReviewInv'
  <2> SUFFICES ASSUME ReviewInv, [ReviewNext]_reviewVars PROVE ReviewInv'
    OBVIOUS
  <2>1. PartsInv' /\ ScreenedInOrder' /\ CompletedInv'
    BY PartsStep, OrderStep, CompletedStep DEF ReviewInv
  <2>2. Traced'
    BY StepParts, TracedStep DEF ReviewInv, PartsInv, ScreeningInv
  <2> QED  BY <2>1, <2>2 DEF ReviewInv
<1> QED  BY <1>1, <1>2, PTL DEF ReviewSpec

-----------------------------------------------------------------------------
(***************************************************************************)
(* The last decision, and the outcome behind the counts.                   *)
(***************************************************************************)
LEMMA SomeLast ==
  ASSUME NEW last \in Nat, NEW T \in SUBSET (0..last), T # {}
  PROVE  \E m \in T : \A n \in T : n <= m
<1> DEFINE S == 0..last
           Having == {U \in SUBSET S : U = {} \/ \E m \in U : \A n \in U : n <= m}
<1>1. IsFiniteSet(S)
  BY FS_Interval
<1>2. ASSUME NEW U \in SUBSET S, \A x \in U : U \ {x} \in Having PROVE U \in Having
  <2> SUFFICES ASSUME U # {} PROVE \E m \in U : \A n \in U : n <= m
    OBVIOUS
  <2> PICK x \in U : TRUE
    OBVIOUS
  <2>1. CASE U = {x}
    BY <2>1
  <2>2. CASE U # {x}
    <3>0. U \ {x} \in Having /\ U \ {x} # {}
      BY <1>2, <2>2
    <3>1. PICK m \in U \ {x} : \A n \in U \ {x} : n <= m
      BY <3>0
    <3>2. CASE x <= m
      BY <3>1, <3>2
    <3>3. CASE ~(x <= m)
      BY <3>1, <3>3
    <3> QED  BY <3>2, <3>3
  <2> QED  BY <2>1, <2>2
<1> HIDE DEF Having
<1>3. SUBSET S \subseteq Having
  <2> HIDE DEF S
  <2>1. {} \in Having
    BY DEF Having
  <2> QED  BY <1>1, <1>2, <2>1, SubsetsAll
<1> QED  BY <1>3 DEF Having

\* The one adjudication is the latest.
LEMMA OneIsLatest ==
  ASSUME NEW adj, NEW a \in adj, \A b \in adj : a = b /\ b.id \in Nat PROVE Latest(adj) = a
BY DEF Latest

LEMMA FlowOutcome ==
  ASSUME NEW ds \in SUBSET Decision, NEW last, Orderly(ds, last), FlowDecision(ds) # None
  PROVE  FlowDecision(ds) \in Outcomes
<1> DEFINE ind == Independent(ds)
           adj == Adjudications(ds)
<1>1. ind # {} /\ \A d \in ds : d.outcome \in Outcomes /\ d.id \in Nat
  BY DEF FlowDecision, TwoReviewers, Decision
<1>2. CASE Agreed(ind)
  BY <1>1, <1>2 DEF FlowDecision, Common, Independent
<1>3. CASE ~Agreed(ind)
  <2>1. adj # {} /\ FlowDecision(ds) = Latest(adj).outcome
    BY <1>3 DEF FlowDecision
  <2>2. PICK a \in adj : TRUE
    BY <2>1
  <2>3. \A b \in adj : a = b /\ b.id \in Nat
    BY <1>1 DEF Orderly, Adjudications
  <2>4. Latest(adj) = a
    BY <2>3, OneIsLatest
  <2> QED  BY <1>1, <2>1, <2>4 DEF Adjudications
<1> QED  BY <1>2, <1>3

\* The two rules for an outcome settle a stage alike.
LEMMA SettledAlike ==
  ASSUME NEW ds, FinalDecision(ds) # None, FlowDecision(ds) # None PROVE FinalDecision(ds) = FlowDecision(ds)
<1>1. CASE Agreed(Independent(ds))
  BY <1>1 DEF FinalDecision, FlowDecision
<1>2. CASE ~Agreed(Independent(ds))
  BY <1>2 DEF FinalDecision, FlowDecision
<1> QED  BY <1>1, <1>2

-----------------------------------------------------------------------------
(***************************************************************************)
(* A completed review of a panel of two.                                   *)
(***************************************************************************)

\* The last decision that names a source is an inclusion when the outcome is one.
LEMMA LastIsInclusion ==
  ASSUME NEW last \in Nat, NEW ds \in SUBSET Decision, Orderly(ds, last),
         \A d \in ds : Sourced("full_text", d), FinalDecision(ds) = "include",
         NEW sourced, sourced = {d \in ds : d.source # None}, sourced # {}
  PROVE  Latest(sourced) \in ds /\ Latest(sourced).outcome = "include"
<1> DEFINE ind == Independent(ds)
           adj == Adjudications(ds)
<1>1. /\ \A d \in ds : d.id \in Nat /\ d.id \in 0..last /\ d.kind \in {"independent", "adjudication"}
      /\ ds = ind \cup adj /\ "include" # None
  BY NoOutcomeIsNone DEF Decision, Orderly, Independent, Adjudications
<1>2. CASE Agreed(ind)
  <2>1. adj = {} /\ \A d \in ind : d.outcome = "include"
    BY <1>1, <1>2 DEF Orderly, FinalDecision, TwoReviewers, Common, Agreed
  <2>2. \E m \in {d.id : d \in sourced} : \A n \in {d.id : d \in sourced} : n <= m
    <3>1. {d.id : d \in sourced} \in SUBSET (0..last) /\ {d.id : d \in sourced} # {}
      BY <1>1
    <3> QED  BY <3>1, SomeLast
  <2>3. Latest(sourced) \in sourced
    BY <2>2 DEF Latest
  <2> QED  BY <1>1, <2>1, <2>3
<1>3. CASE ~Agreed(ind)
  <2>1. adj # {} /\ Latest(adj).resolves = Ids(ind) /\ Latest(adj).outcome = "include"
    BY <1>1, <1>3 DEF FinalDecision
  <2>2. PICK a \in adj : TRUE
    BY <2>1
  <2>3. \A b \in adj : a = b /\ b.id \in Nat
    BY <1>1 DEF Orderly
  <2>4. Latest(adj) = a
    BY <2>3, OneIsLatest
  <2>5. \A d \in ind : d.id < a.id
    BY <2>1, <2>4 DEF Orderly, Ids
  <2>6. a \in sourced
    BY <1>1, <2>1, <2>4, NoneIsNew DEF Sourced
  <2>7. \A d \in sourced : d.id <= a.id /\ (a.id <= d.id => d = a)
    BY <1>1, <2>3, <2>5
  <2>8. Latest(sourced) = a
    BY <2>6, <2>7 DEF Latest
  <2> QED  BY <1>1, <2>1, <2>4, <2>8
<1> QED  BY <1>2, <1>3

\* A study that the counts include went through both stages and the completion check.
LEMMA IncludedIsDone ==
  ASSUME ReviewInv, Pair, status = "completed", NEW c \in FlowAt("full_text", "include")
  PROVE  /\ FinalDecision(Title(c)) = "include" /\ FinalDecision(Full(c)) = "include"
         /\ CandidateDone(c)
<1>1. c \in Candidates /\ FlowDecision(Full(c)) = "include" /\ "include" # None /\ CandidateDone(c)
  BY NoOutcomeIsNone DEF FlowAt, Full, Unique, Registered, ReviewInv, CompletedInv, CompletionHolds
<1>2. Full(c) # {}
  BY <1>1 DEF FlowDecision, TwoReviewers, Independent
<1>3. FinalDecision(Title(c)) = "include"
  BY <1>1, <1>2 DEF ReviewInv, ScreenedInOrder, TitleStands
<1>4. FinalDecision(Full(c)) # None
  BY <1>1, <1>3 DEF CandidateDone
<1> QED  BY <1>1, <1>3, <1>4, SettledAlike

\* An included study of a completed review rests on one source: it was included from it,
\* it was appraised, and two groups extracted every field from it
\* (IncludedStudiesRestOnOneSource).
THEOREM IncludedStudiesAreSourced == ReviewSpec => []IncludedStudiesRestOnOneSource
<1>1. ASSUME ReviewInv, Pair, status = "completed", NEW c \in FlowAt("full_text", "include")
      PROVE  \E src \in Sources :
               /\ \E d \in Full(c) : d.outcome = "include" /\ d.source = src
               /\ AppraisalRequired => <<c, src>> \in appraisals
               /\ \A f \in Fields : /\ \A x \in extractions[c][f] : x.source = src
                                    /\ IndependentlyDone(Inputs(extractions[c][f]))
  <2> DEFINE sourced == {d \in Full(c) : d.source # None}
             src == FinalSource(c)
  <2>1. /\ src # None /\ FinalDecision(Full(c)) = "include"
        /\ AppraisalRequired => <<c, src>> \in appraisals
        /\ \A f \in Fields : /\ FinalExtraction(extractions[c][f]) # None
                             /\ \A x \in extractions[c][f] : x.source = src
    BY <1>1, IncludedIsDone DEF CandidateDone
  <2>2. sourced # {} /\ src = Latest(sourced).source
    BY <2>1 DEF FinalSource, Linked
  <2>3. c \in Candidates /\ "full_text" \in Stages
    BY DEF FlowAt, Unique, Registered, Stages
  <2>4. /\ Full(c) \in SUBSET Decision /\ minted[c]["full_text"] \in Nat
        /\ Orderly(Full(c), minted[c]["full_text"]) /\ \A d \in Full(c) : Sourced("full_text", d)
    BY <1>1, <2>3 DEF ReviewInv, PartsInv, ScreeningInv, ScreeningTypeOK, ScreenedInOrder, Full
  <2>5. Latest(sourced) \in Full(c) /\ Latest(sourced).outcome = "include"
    BY <2>1, <2>2, <2>4, LastIsInclusion
  <2>6. src \in Sources
    BY <2>1, <2>2, <2>4, <2>5 DEF Decision
  <2>7. \A f \in Fields : IndependentlyDone(Inputs(extractions[c][f]))
    BY <2>1 DEF FinalExtraction
  <2> HIDE DEF sourced, src
  <2> QED  BY <2>1, <2>2, <2>5, <2>6, <2>7
<1>2. ReviewInv => IncludedStudiesRestOnOneSource
  BY <1>1 DEF IncludedStudiesRestOnOneSource, Pair
<1> QED  BY <1>2, ReviewHolds, PTL

\* Sets that share nothing are counted one after the other.
LEMMA Disjoint ==
  ASSUME NEW S, NEW T, IsFiniteSet(S), IsFiniteSet(T), S \cap T = {}
  PROVE  Cardinality(S \cup T) = Cardinality(S) + Cardinality(T)
<1>1. Cardinality(S \cup T) = Cardinality(S) + Cardinality(T) - Cardinality(S \cap T)
  BY FS_Union
<1>2. Cardinality(S \cap T) = 0
  BY FS_EmptySet
<1>3. Cardinality(S) \in Nat /\ Cardinality(T) \in Nat
  BY FS_CardinalityType
<1> QED  BY <1>1, <1>2, <1>3

LEMMA ThreeParts ==
  ASSUME NEW S, IsFiniteSet(S), NEW A, NEW B, NEW C, S = A \cup B \cup C,
         A \cap B = {}, A \cap C = {}, B \cap C = {}
  PROVE  Cardinality(S) = Cardinality(A) + Cardinality(B) + Cardinality(C)
<1>1. IsFiniteSet(A) /\ IsFiniteSet(B) /\ IsFiniteSet(C)
  BY FS_Subset
<1>2. Cardinality(A \cup B) = Cardinality(A) + Cardinality(B)
  BY <1>1, Disjoint
<1>3. IsFiniteSet(A \cup B)
  BY FS_Subset
<1>4. (A \cup B) \cap C = {}
  OBVIOUS
<1>5. Cardinality((A \cup B) \cup C) = Cardinality(A \cup B) + Cardinality(C)
  BY <1>1, <1>3, <1>4, Disjoint
<1> QED  BY <1>2, <1>5

\* In a completed review, whatever its panel, every stage with decisions has an outcome in
\* the counts, and every unique candidate has one for its title.
LEMMA EveryStageCounts ==
  ASSUME ReviewInv, status = "completed", NEW c \in Unique
  PROVE  /\ c \in Candidates /\ CandidateDone(c)
         /\ \A s \in Stages : decisions[c][s] # {} => FlowDecision(decisions[c][s]) \in Outcomes
         /\ FlowDecision(Title(c)) = FinalDecision(Title(c)) /\ FlowDecision(Title(c)) \in Outcomes
<1>1. c \in Candidates /\ CandidateDone(c) /\ Cardinality(Unresolved) = 0
  BY DEF Unique, Registered, ReviewInv, CompletedInv, CompletionHolds
<1>2. Unresolved \subseteq Unique \X Stages
  <2>1. \A b \in Candidates, s \in Stages : FlowUnresolved(decisions[b][s]) => b \in Unique
    BY DEF ReviewInv, ScreenedInOrder, FlowUnresolved
  <2> QED  BY <2>1 DEF Unresolved
<1>3. Unresolved = {}
  <2>1. IsFiniteSet(Unique)
    BY FS_Subset DEF Unique, ReviewInv, Traced
  <2>2. IsFiniteSet(Stages)
    <3>1. Stages = {"title_abstract"} \cup {"full_text"}
      BY DEF Stages
    <3>2. IsFiniteSet({"title_abstract"}) /\ IsFiniteSet({"full_text"})
      BY FS_Singleton
    <3> QED  BY <3>1, <3>2, FS_Union
  <2>3. IsFiniteSet(Unique \X Stages)
    BY <2>1, <2>2, FS_Product
  <2>4. IsFiniteSet(Unresolved)
    BY <1>2, <2>3, FS_Subset
  <2> QED  BY <1>1, <2>4, FS_EmptySet
<1>4. ASSUME NEW s \in Stages, decisions[c][s] # {} PROVE FlowDecision(decisions[c][s]) \in Outcomes
  <2>1. FlowDecision(decisions[c][s]) # None
    <3>1. <<c, s>> \in Candidates \X Stages /\ <<c, s>> \notin Unresolved
      BY <1>1, <1>3
    <3> QED  BY <1>4, <3>1 DEF Unresolved, FlowUnresolved
  <2>2. decisions[c][s] \in SUBSET Decision /\ Orderly(decisions[c][s], minted[c][s])
    BY <1>1 DEF ReviewInv, PartsInv, ScreeningInv, ScreeningTypeOK, ScreenedInOrder
  <2> QED  BY <2>1, <2>2, FlowOutcome
<1>5. FinalDecision(Title(c)) # None
  BY <1>1 DEF CandidateDone
<1>6. Title(c) # {} /\ "title_abstract" \in Stages
  BY <1>5 DEF FinalDecision, TwoReviewers, Independent, Stages
<1>7. FlowDecision(Title(c)) \in Outcomes
  BY <1>4, <1>6 DEF Title
<1> QED  BY <1>1, <1>4, <1>5, <1>7, SettledAlike, NoOutcomeIsNone DEF Outcomes

\* The candidates whose full text has an outcome in the counts.
Assessed == {c \in Unique : FlowDecision(Full(c)) # None}

\* A report that is sought is assessed.
LEMMA SoughtAreAssessed ==
  ASSUME ReviewInv, status = "completed" PROVE FlowAt("title_abstract", "include") \subseteq Assessed
<1> SUFFICES ASSUME NEW c \in Unique, FlowDecision(Title(c)) = "include"
             PROVE  FlowDecision(Full(c)) # None
  BY DEF FlowAt, Title, Assessed
<1>1. /\ c \in Candidates /\ CandidateDone(c) /\ "full_text" \in Stages /\ None \notin Outcomes
      /\ FlowDecision(Title(c)) = FinalDecision(Title(c))
  BY EveryStageCounts, NoOutcomeIsNone DEF Stages, Outcomes
<1>2. FinalDecision(Full(c)) # None
  BY <1>1 DEF CandidateDone
<1>3. Full(c) # {}
  BY <1>2 DEF FinalDecision, TwoReviewers, Independent
<1> QED  BY <1>1, <1>3, EveryStageCounts DEF Full

\* With a panel of two, a report that is assessed was sought.
LEMMA AssessedAreSought ==
  ASSUME ReviewInv, Pair, status = "completed" PROVE Assessed \subseteq FlowAt("title_abstract", "include")
<1> SUFFICES ASSUME NEW c \in Unique, FlowDecision(Full(c)) # None
             PROVE  FlowDecision(Title(c)) = "include"
  BY DEF FlowAt, Title, Assessed
<1>1. c \in Candidates /\ FlowDecision(Title(c)) = FinalDecision(Title(c))
  BY EveryStageCounts
<1>2. Full(c) # {}
  BY DEF FlowDecision, TwoReviewers, Independent
<1> QED  BY <1>1, <1>2 DEF ReviewInv, ScreenedInOrder, TitleStands

\* The counts of each stage, whatever the panel.
LEMMA StagesCount ==
  ASSUME ReviewInv, status = "completed"
  PROVE  /\ IsFiniteSet(Assessed)
         /\ Cardinality(Unique)
              = Cardinality(FlowAt("title_abstract", "exclude"))
                  + Cardinality(FlowAt("title_abstract", "include"))
                  + Cardinality(FlowAt("title_abstract", "uncertain"))
         /\ Cardinality(Assessed)
              = Cardinality(FlowAt("full_text", "exclude"))
                  + Cardinality(FlowAt("full_text", "include"))
                  + Cardinality(FlowAt("full_text", "uncertain"))
<1>1. IsFiniteSet(Unique) /\ IsFiniteSet(Assessed)
  <2>1. IsFiniteSet(Unique)
    BY FS_Subset DEF ReviewInv, Traced, Unique
  <2> QED  BY <2>1, FS_Subset DEF Assessed
<1>2. Unique = FlowAt("title_abstract", "exclude") \cup FlowAt("title_abstract", "include")
                 \cup FlowAt("title_abstract", "uncertain")
  BY EveryStageCounts DEF FlowAt, Outcomes, Title
<1>3. Assessed = FlowAt("full_text", "exclude") \cup FlowAt("full_text", "include")
                   \cup FlowAt("full_text", "uncertain")
  <2>1. ASSUME NEW c \in Unique, FlowDecision(Full(c)) # None PROVE FlowDecision(Full(c)) \in Outcomes
    <3>1. Full(c) # {} /\ "full_text" \in Stages
      BY <2>1 DEF FlowDecision, TwoReviewers, Independent, Stages
    <3> QED  BY <2>1, <3>1, EveryStageCounts DEF Full
  <2> QED  BY <2>1, NoOutcomeIsNone DEF FlowAt, Outcomes, Full, Assessed
<1>4. \A s : /\ FlowAt(s, "exclude") \cap FlowAt(s, "include") = {}
             /\ FlowAt(s, "exclude") \cap FlowAt(s, "uncertain") = {}
             /\ FlowAt(s, "include") \cap FlowAt(s, "uncertain") = {}
  BY DEF FlowAt
<1>5. Cardinality(Unique) = Cardinality(FlowAt("title_abstract", "exclude"))
         + Cardinality(FlowAt("title_abstract", "include"))
         + Cardinality(FlowAt("title_abstract", "uncertain"))
  BY <1>1, <1>2, <1>4, ThreeParts
<1>6. Cardinality(Assessed) = Cardinality(FlowAt("full_text", "exclude"))
         + Cardinality(FlowAt("full_text", "include"))
         + Cardinality(FlowAt("full_text", "uncertain"))
  BY <1>1, <1>3, <1>4, ThreeParts
<1> QED  BY <1>1, <1>5, <1>6

\* Every result is a candidate, and every candidate is a duplicate or was screened,
\* whatever the panel.
LEMMA ResultsCount ==
  ASSUME ReviewInv, status = "completed"
  PROVE  /\ Results(searches, Executed) = Cardinality(Registered)
         /\ Cardinality(Registered) = Cardinality(Registered \ Unique) + Cardinality(Unique)
<1>0. IsFiniteSet(Registered) /\ IsFiniteSet(Executed) /\ Unique \subseteq Registered
  BY DEF ReviewInv, Traced, Unique
<1>1. Results(searches, Executed) = Cardinality(Registered)
  <2>1. ASSUME NEW s \in Executed PROVE searches[s].count = Cardinality(FoundBy(candidates, {s}))
    <3>1. FoundBy(candidates, {s}) = {c \in Registered : candidates[c].search = s}
      BY DEF FoundBy
    <3> QED  BY <3>1 DEF Executed, ReviewInv, CompletedInv, CompletionHolds, ResultsRepresented
  <2>2. FoundBy(candidates, Executed) = Registered
    BY DEF FoundBy, ReviewInv, Traced
  <2>3. Results(searches, Executed) = Cardinality(FoundBy(candidates, Executed))
    BY <1>0, <2>1, AllRepresented
  <2> QED  BY <2>2, <2>3
<1>2. Cardinality(Registered) = Cardinality(Registered \ Unique) + Cardinality(Unique)
  <2>1. IsFiniteSet(Unique) /\ IsFiniteSet(Registered \ Unique)
    BY <1>0, FS_Subset
  <2>2. (Registered \ Unique) \cup Unique = Registered /\ (Registered \ Unique) \cap Unique = {}
    BY <1>0
  <2> QED  BY <2>1, <2>2, Disjoint
<1> QED  BY <1>1, <1>2

\* The counts of a completed review add up, for any number of searches and candidates
\* (FlowBalances).
THEOREM CountsAddUp == ReviewSpec => []FlowBalances
<1> DEFINE included == FlowAt("full_text", "include")
           resolved == {x \in included \X Fields : FinalExtraction(extractions[x[1]][x[2]]) # None}
<1>1. ASSUME ReviewInv, Pair, status = "completed"
      PROVE  FlowAt("title_abstract", "include") = Assessed /\ included \X Fields = resolved
  <2>1. FlowAt("title_abstract", "include") = Assessed
    BY <1>1, SoughtAreAssessed, AssessedAreSought
  <2>2. included \X Fields = resolved
    <3>1. ASSUME NEW c \in included PROVE \A f \in Fields : FinalExtraction(extractions[c][f]) # None
      BY <1>1, IncludedIsDone DEF CandidateDone
    <3> HIDE DEF included
    <3> QED  BY <3>1
  <2> QED  BY <2>1, <2>2
<1>2. ReviewInv => FlowBalances
  BY <1>1, ResultsCount, StagesCount DEF FlowBalances, Flow, Pair, Assessed
<1> QED  BY <1>2, ReviewHolds, PTL

\* With three reviewers or more, a late vote may overturn the title of a record whose full
\* text is assessed already, and the counts keep both.  All else still adds up: no result
\* and no stage is lost, and no report is sought that was not assessed.
FlowBalancesForAnyPanel ==
  status = "completed" =>
    LET uncertain(s) == Cardinality(FlowAt(s, "uncertain"))
    IN  /\ Flow.identified = Flow.represented
        /\ Flow.represented = Flow.duplicates + Flow.screened
        /\ Flow.screened = Flow.excludedTitle + Flow.sought + uncertain("title_abstract")
        /\ Flow.sought <= Flow.assessed
        /\ Flow.assessed = Flow.excludedFull + Flow.included + uncertain("full_text")

\* Whatever the panel, the counts of a completed review lose no result and no report
\* (screening_flow, validate_run_for_completion).
THEOREM CountsOfAnyPanel == ReviewSpec => []FlowBalancesForAnyPanel
<1>1. ASSUME ReviewInv, status = "completed"
      PROVE  Cardinality(FlowAt("title_abstract", "include")) <= Cardinality(Assessed)
  BY <1>1, SoughtAreAssessed, StagesCount, FS_Subset
<1>2. ReviewInv => FlowBalancesForAnyPanel
  BY <1>1, ResultsCount, StagesCount DEF FlowBalancesForAnyPanel, Flow, Assessed
<1> QED  BY <1>2, ReviewHolds, PTL
=============================================================================
