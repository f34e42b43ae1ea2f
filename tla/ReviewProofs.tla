---------------------------- MODULE ReviewProofs ---------------------------
(***************************************************************************)
(* Proofs about Retrieval, Screening and Extraction, each on its own, for  *)
(* any number of candidates, reviewers and racing callers.  What is        *)
(* settled stays so with a panel of two, whose reviewers settle a stage or *)
(* a field as soon as both have answered.                                  *)
(***************************************************************************)
EXTENDS Retrieval, Screening, Extraction, FiniteSetTheorems, TLAPS

LEMMA TeamStart == TeamInit => TeamOK
BY DEF TeamInit, TeamOK

LEMMA TeamStays == ASSUME TeamOK, NEW others, Overlap(others) PROVE TeamOK'
<1>1. overlapped' \in BOOLEAN
  BY DEF Overlap
<1> QED  BY <1>1 DEF Overlap, TeamOK, Panels

-----------------------------------------------------------------------------
\* Candidates.  A call that will write a duplicate holds the canonical candidate
\* it found, and nobody changes a candidate on record.
ReservedFit ==
  \A r \in registering :
    /\ candidates[r.id] = None
    /\ \A q \in registering : q.id = r.id => q = r
    /\ r.record.status = "duplicate" =>
         r.record.of \in Unique /\ Key(r.record.of) = DedupeKey(r.record.hit)

\* Without overlap one call at a time registers, so what it found is still true
\* when it writes.
AloneSoFar ==
  ~overlapped =>
    /\ \A r, q \in registering : r = q
    /\ \A r \in registering :
         r.record.status = "unique" => \A u \in Unique : Key(u) # DedupeKey(r.record.hit)

RetrievalInv == RetrievalTypeOK /\ ReservedFit /\ DuplicatesPointAtCanonical
                /\ AloneSoFar /\ OneCanonicalPerKey

LEMMA RetrievalStarts == RetrievalInit => RetrievalInv
<1> SUFFICES ASSUME RetrievalInit PROVE RetrievalInv
  OBVIOUS
<1>1. RetrievalTypeOK
  BY TeamStart DEF RetrievalInit, RetrievalTypeOK
<1>2. Registered = {} /\ Unique = {} /\ registering = {}
  BY DEF RetrievalInit, Registered, Unique
<1> QED  BY <1>1, <1>2 DEF RetrievalInv, ReservedFit, DuplicatesPointAtCanonical,
                          AloneSoFar, OneCanonicalPerKey, KeysAreUnique

LEMMA RetrievalStep == ASSUME RetrievalInv, [RetrievalNext]_retrievalVars PROVE RetrievalInv'
<1> USE DEF RetrievalInv
<1>1. CASE RecordSearch \/ UNCHANGED retrievalVars
  <2>1. UNCHANGED <<candidates, registering, team>>
    BY <1>1 DEF RecordSearch, retrievalVars
  <2>2. RetrievalTypeOK'
    BY <1>1, <2>1 DEF RecordSearch, retrievalVars, RetrievalTypeOK, SearchRecord,
                      team, TeamOK, Panels
  <2>3. UNCHANGED <<Registered, Unique, overlapped>> /\ \A u : Key(u)' = Key(u)
    BY <2>1 DEF Registered, Unique, Key, DedupeKey, team
  <2>4. ReservedFit' /\ AloneSoFar'
    BY <2>1, <2>3 DEF ReservedFit, AloneSoFar
  <2>5. DuplicatesPointAtCanonical' /\ OneCanonicalPerKey'
    BY <2>1, <2>3 DEF DuplicatesPointAtCanonical, OneCanonicalPerKey, KeysAreUnique
  <2> QED  BY <2>2, <2>4, <2>5
<1>2. ASSUME NEW p \in Callers, Register(p) PROVE RetrievalInv'
  <2> PICK c \in Candidates, s \in Searches, h \in Hits :
        /\ \A r \in registering : r.process # p /\ r.id # c
        /\ candidates[c] = None /\ searches[s] # None
        /\ \E of \in IF Canonicals(h) = {} THEN {None} ELSE Canonicals(h) :
             registering' = registering \cup
               {[process |-> p, id |-> c,
                 record |-> [search |-> s, hit |-> h, of |-> of,
                             status |-> IF of = None THEN "unique" ELSE "duplicate"]]}
    BY <1>2 DEF Register
  <2> PICK of \in IF Canonicals(h) = {} THEN {None} ELSE Canonicals(h) :
        registering' = registering \cup
          {[process |-> p, id |-> c,
            record |-> [search |-> s, hit |-> h, of |-> of,
                        status |-> IF of = None THEN "unique" ELSE "duplicate"]]}
    OBVIOUS
  <2> DEFINE new == [process |-> p, id |-> c,
                     record |-> [search |-> s, hit |-> h, of |-> of,
                                 status |-> IF of = None THEN "unique" ELSE "duplicate"]]
  <2>1. UNCHANGED <<searches, candidates>> /\ Overlap(registering)
    BY <1>2 DEF Register
  <2>2. Canonicals(h) \subseteq Candidates /\ None \notin Canonicals(h)
    BY NoneIsNew DEF Canonicals, Unique, Registered
  <2>3. \/ of = None /\ Canonicals(h) = {} /\ new.record.status = "unique"
        \/ of \in Canonicals(h) /\ of # None /\ new.record.status = "duplicate"
    BY <2>2
  <2>4. new \in [process : Callers, id : Candidates, record : CandidateRecord]
    BY <2>2, <2>3 DEF CandidateRecord
  <2>5. RetrievalTypeOK'
    BY <2>1, <2>4, TeamStays DEF RetrievalTypeOK
  <2>6. UNCHANGED <<Registered, Unique>> /\ \A u : Key(u)' = Key(u)
    BY <2>1 DEF Registered, Unique, Key, DedupeKey
  <2>7. ReservedFit'
    <3>1. new.record.status = "duplicate" => of \in Unique /\ Key(of) = DedupeKey(h)
      BY <2>3 DEF Canonicals
    <3> SUFFICES ASSUME NEW r \in registering'
                 PROVE  /\ candidates[r.id] = None
                        /\ \A q \in registering' : q.id = r.id => q = r
                        /\ r.record.status = "duplicate" =>
                             r.record.of \in Unique /\ Key(r.record.of) = DedupeKey(r.record.hit)
      BY <2>1, <2>6 DEF ReservedFit
    <3>2. CASE r \in registering
      BY <3>2 DEF ReservedFit
    <3>3. CASE r = new
      <4>1. r.id = c /\ r.record.hit = h /\ r.record.of = of
        BY <3>3
      <4> QED  BY <3>1, <3>3, <4>1
    <3> QED  BY <3>2, <3>3
  <2>8. DuplicatesPointAtCanonical'
    BY <2>1, <2>6 DEF DuplicatesPointAtCanonical
  <2>9. ~overlapped' => ~overlapped /\ registering = {}
    BY <2>1 DEF Overlap
  <2>10. AloneSoFar'
    <3>1. new.record.status = "unique" => \A u \in Unique : Key(u) # DedupeKey(h)
      BY <2>3 DEF Canonicals
    <3> QED  BY <2>6, <2>9, <3>1 DEF AloneSoFar
  <2>11. OneCanonicalPerKey'
    BY <2>6, <2>9 DEF OneCanonicalPerKey, KeysAreUnique
  <2> QED  BY <2>5, <2>7, <2>8, <2>10, <2>11
<1>3. ASSUME NEW p \in Callers, WriteCandidate(p) PROVE RetrievalInv'
  <2> PICK r \in registering : /\ r.process = p
                               /\ candidates' = [candidates EXCEPT ![r.id] = r.record]
                               /\ registering' = registering \ {r}
    BY <1>3 DEF WriteCandidate
  <2>1. UNCHANGED <<searches, panel, overlapped>>
    BY <1>3 DEF WriteCandidate, team
  <2>2. /\ r.id \in Candidates /\ r.record \in CandidateRecord /\ candidates[r.id] = None
        /\ candidates'[r.id] = r.record
        /\ \A c \in Candidates \ {r.id} : candidates'[c] = candidates[c]
    BY DEF RetrievalTypeOK, ReservedFit
  <2>3. RetrievalTypeOK'
    BY <2>1, <2>2 DEF RetrievalTypeOK, TeamOK, Panels
  <2>4. /\ Unique \subseteq Unique' /\ Unique' \subseteq Unique \cup {r.id} /\ r.id \notin Unique
        /\ \A u \in Unique : Key(u)' = Key(u)
        /\ Key(r.id)' = DedupeKey(r.record.hit)
        /\ r.id \in Unique' => r.record.status = "unique"
        /\ Registered' \subseteq Registered \cup {r.id}
    <3>1. r.id \notin Registered /\ Registered' \subseteq Registered \cup {r.id}
      BY <2>2 DEF Registered
    <3>2. \A c \in Candidates : c # r.id => (c \in Unique' <=> c \in Unique)
      BY <2>2 DEF Unique, Registered
    <3>3. r.id \in Unique' => r.record.status = "unique"
      BY <2>2 DEF Unique
    <3>4. Key(r.id)' = DedupeKey(r.record.hit)
      BY <2>2 DEF Key, DedupeKey
    <3>5. \A u \in Candidates : u # r.id => Key(u)' = Key(u)
      BY <2>2 DEF Key, DedupeKey
    <3>6. Unique \subseteq Registered /\ Unique' \subseteq Candidates /\ Registered \subseteq Candidates
      BY DEF Unique, Registered
    <3> QED  BY <3>1, <3>2, <3>3, <3>4, <3>5, <3>6
  <2>5. DuplicatesPointAtCanonical'
    <3>1. ASSUME NEW c \in Registered', c \notin Unique'
          PROVE  candidates'[c].of \in Unique /\ Key(candidates'[c].of) = Key(c)'
      <4>1. CASE c = r.id
        <5>1. r.record.status = "duplicate"
          BY <2>2, <3>1, <4>1 DEF Registered, Unique, CandidateRecord
        <5> QED  BY <2>2, <2>4, <4>1, <5>1 DEF ReservedFit
      <4>2. CASE c # r.id
        <5>1. c \in Registered \ Unique /\ candidates'[c] = candidates[c]
          BY <2>2, <3>1, <4>2 DEF Registered, Unique
        <5>2. Key(c)' = Key(c)
          BY <5>1 DEF Key, DedupeKey
        <5> QED  BY <5>1, <5>2 DEF DuplicatesPointAtCanonical
      <4> QED  BY <4>1, <4>2
    <3>2. ASSUME NEW c \in Registered', c \notin Unique'
          PROVE  (candidates[c].of \in Unique /\ Key(candidates[c].of) = Key(c))'
      <4> PICK u \in Unique : u = candidates'[c].of /\ Key(u) = Key(c)'
        BY <3>1, <3>2
      <4>1. u \in Unique' /\ Key(u)' = Key(u)
        BY <2>4
      <4> QED  BY <4>1 DEF Key
    <3> QED  BY <3>2 DEF DuplicatesPointAtCanonical
  <2>6. ReservedFit'
    <3>1. \A q \in registering' : q \in registering /\ q.id # r.id /\ q.id \in Candidates
      BY DEF ReservedFit, RetrievalTypeOK
    <3>2. \A q \in registering' : candidates'[q.id] = None
      BY <2>2, <3>1 DEF ReservedFit
    <3> QED  BY <2>4, <3>1, <3>2 DEF ReservedFit
  <2>7. AloneSoFar'
    <3>1. ~overlapped => registering' = {}
      BY DEF AloneSoFar
    <3> QED  BY <2>1, <3>1 DEF AloneSoFar
  <2>8. OneCanonicalPerKey'
    <3>1. ~overlapped /\ r.id \in Unique' => \A u \in Unique : Key(u) # Key(r.id)'
      BY <2>4 DEF AloneSoFar
    <3> QED  BY <2>1, <2>4, <3>1 DEF OneCanonicalPerKey, KeysAreUnique
  <2> QED  BY <2>3, <2>5, <2>6, <2>7, <2>8
<1> QED  BY <1>1, <1>2, <1>3 DEF RetrievalNext

\* Every duplicate names a canonical candidate of its own key, for any number of
\* racing registrations (DuplicatesPointAtCanonical).
THEOREM DuplicatesAreGrounded == RetrievalSpec => []DuplicatesPointAtCanonical
<1>1. RetrievalInv => DuplicatesPointAtCanonical
  BY DEF RetrievalInv
<1> QED  BY <1>1, RetrievalStarts, RetrievalStep, PTL DEF RetrievalSpec

\* As long as registrations do not overlap, no key has two canonical candidates
\* (OneCanonicalPerKey): register_candidate's search for one is complete.
THEOREM KeysStayUnique == RetrievalSpec => []OneCanonicalPerKey
<1>1. RetrievalInv => OneCanonicalPerKey
  BY DEF RetrievalInv
<1> QED  BY <1>1, RetrievalStarts, RetrievalStep, PTL DEF RetrievalSpec

-----------------------------------------------------------------------------
\* Screening.  Decisions are only added, so the disagreement an adjudication
\* found is still on record when it is written, and ever after.
Rests(a, ds) ==
  \E d, e \in Independent(ds) : {d.id, e.id} \subseteq a.resolves /\ d.outcome # e.outcome

PendingRests ==
  \A p \in pending :
    p.decision.kind = "adjudication" => Rests(p.decision, decisions[p.candidate][p.stage])

\* Without overlap, what a call found of its reviewer's decisions is still true.
ScreeningAlone ==
  ~overlapped =>
    /\ \A p, q \in pending : p = q
    /\ \A p \in pending : \A d \in Independent(decisions[p.candidate][p.stage]) :
         p.decision.kind = "independent" => d.reviewer # p.decision.reviewer

ScreeningInv == ScreeningTypeOK /\ PendingRests /\ AdjudicationsRestOnDisagreement
                /\ ScreeningAlone /\ OneDecisionPerReviewer

LEMMA RestsStays == ASSUME NEW a, NEW ds, NEW es, ds \subseteq es, Rests(a, ds)
                    PROVE  Rests(a, es)
BY DEF Rests, Independent

LEMMA ScreeningStarts == ScreeningInit => ScreeningInv
<1> SUFFICES ASSUME ScreeningInit PROVE ScreeningInv
  OBVIOUS
<1>1. ScreeningTypeOK
  BY TeamStart DEF ScreeningInit, ScreeningTypeOK
<1>2. pending = {} /\ \A c \in Candidates, s \in Stages : decisions[c][s] = {}
  BY DEF ScreeningInit
<1> QED  BY <1>1, <1>2 DEF ScreeningInv, PendingRests, AdjudicationsRestOnDisagreement,
              ScreeningAlone, OneDecisionPerReviewer, Adjudications, Independent

LEMMA SubmitKeeps ==
  ASSUME ScreeningInv, NEW w \in Callers, NEW c \in Candidates, NEW s \in Stages,
         NEW kind \in {"independent", "adjudication"}, NEW r \in Reviewers \cup {None},
         NEW o \in Outcomes, NEW src \in Sources \cup {None}, NEW resolves \in SUBSET Nat,
         Submit(w, c, s, kind, r, o, src, resolves),
         kind = "adjudication" =>
           \E d, e \in Independent(decisions[c][s]) :
             {d.id, e.id} \subseteq resolves /\ d.outcome # e.outcome,
         kind = "independent" => \A d \in Independent(decisions[c][s]) : d.reviewer # r
  PROVE  ScreeningInv'
<1> USE DEF ScreeningInv
<1> DEFINE new == [writer |-> w, candidate |-> c, stage |-> s,
                   decision |-> [id |-> minted[c][s] + 1, kind |-> kind, reviewer |-> r,
                                 outcome |-> o, source |-> src, resolves |-> resolves]]
<1>1. /\ pending' = pending \cup {new} /\ minted' = [minted EXCEPT ![c][s] = @ + 1]
      /\ Overlap(pending) /\ decisions' = decisions
  BY DEF Submit
<1>2. ScreeningTypeOK'
  <2>1. minted[c][s] \in Nat
    BY DEF ScreeningTypeOK
  <2>2. new.decision \in Decision
    BY <2>1 DEF Decision
  <2>3. new \in Submission
    BY <2>2 DEF Submission
  <2>4. minted' \in [Candidates -> [Stages -> Nat]]
    BY <1>1, <2>1 DEF ScreeningTypeOK
  <2> QED  BY <1>1, <2>3, <2>4, TeamStays DEF ScreeningTypeOK
<1>3. PendingRests'
  <2>1. ASSUME NEW p \in pending', p.decision.kind = "adjudication"
        PROVE  Rests(p.decision, decisions[p.candidate][p.stage])
    <3>1. CASE p \in pending
      BY <2>1, <3>1 DEF PendingRests
    <3>2. CASE p = new
      BY <2>1, <3>2 DEF Rests
    <3> QED  BY <1>1, <3>1, <3>2
  <2> QED  BY <1>1, <2>1 DEF PendingRests, Rests, Independent
<1>4. AdjudicationsRestOnDisagreement'
  BY <1>1 DEF AdjudicationsRestOnDisagreement, Adjudications, Independent
<1>5. ~overlapped' => ~overlapped /\ pending = {}
  BY <1>1 DEF Overlap
<1>6. ScreeningAlone'
  <2>1. ~overlapped' => pending' = {new}
    BY <1>1, <1>5
  <2> QED  BY <1>1, <2>1 DEF ScreeningAlone, Independent
<1>7. OneDecisionPerReviewer'
  BY <1>1, <1>5 DEF OneDecisionPerReviewer, Independent
<1> QED  BY <1>2, <1>3, <1>4, <1>6, <1>7

LEMMA CommitKeeps == ASSUME ScreeningInv, NEW w \in Callers, Commit(w) PROVE ScreeningInv'
<1> USE DEF ScreeningInv
<1> PICK p \in pending :
      /\ decisions' = [decisions EXCEPT ![p.candidate][p.stage] = @ \cup {p.decision}]
      /\ pending' = pending \ {p}
  BY DEF Commit
<1> DEFINE c == p.candidate
           s == p.stage
           d == p.decision
<1>1. UNCHANGED <<minted, panel, overlapped>>
  BY DEF Commit, team
<1>2. c \in Candidates /\ s \in Stages /\ d \in Decision
  BY DEF ScreeningTypeOK, Submission
<1>3. /\ decisions'[c][s] = decisions[c][s] \cup {d}
      /\ \A b \in Candidates, t \in Stages :
           /\ decisions[b][t] \subseteq decisions'[b][t]
           /\ b # c \/ t # s => decisions'[b][t] = decisions[b][t]
  BY <1>2 DEF ScreeningTypeOK
<1>4. ScreeningTypeOK'
  BY <1>1, <1>2 DEF ScreeningTypeOK, TeamOK, Panels
<1>5. PendingRests'
  <2>1. ASSUME NEW q \in pending', q.decision.kind = "adjudication"
        PROVE  Rests(q.decision, decisions'[q.candidate][q.stage])
    <3>1. q.candidate \in Candidates /\ q.stage \in Stages
      BY DEF ScreeningTypeOK, Submission
    <3>2. Rests(q.decision, decisions[q.candidate][q.stage])
      BY <2>1 DEF PendingRests
    <3>3. decisions[q.candidate][q.stage] \subseteq decisions'[q.candidate][q.stage]
      BY <1>3, <3>1
    <3> QED  BY <3>2, <3>3, RestsStays
  <2> QED  BY <2>1 DEF PendingRests, Rests, Independent
<1>6. AdjudicationsRestOnDisagreement'
  <2>1. ASSUME NEW b \in Candidates, NEW t \in Stages,
               NEW a \in decisions'[b][t], a.kind = "adjudication"
        PROVE  Rests(a, decisions'[b][t])
    <3>1. CASE a \in decisions[b][t]
      <4>1. Rests(a, decisions[b][t])
        BY <2>1, <3>1 DEF AdjudicationsRestOnDisagreement, Adjudications, Rests
      <4>2. decisions[b][t] \subseteq decisions'[b][t]
        BY <1>3
      <4> QED  BY <4>1, <4>2, RestsStays
    <3>2. CASE a \notin decisions[b][t]
      <4>1. a = d /\ b = c /\ t = s
        BY <1>3, <2>1, <3>2
      <4>2. Rests(a, decisions[b][t])
        BY <2>1, <4>1 DEF PendingRests
      <4>3. decisions[b][t] \subseteq decisions'[b][t]
        BY <1>3
      <4> QED  BY <4>2, <4>3, RestsStays
    <3> QED  BY <3>1, <3>2
  <2> QED  BY <2>1 DEF AdjudicationsRestOnDisagreement, Adjudications, Rests, Independent
<1>7. ScreeningAlone'
  <2>1. ~overlapped => pending' = {}
    BY DEF ScreeningAlone
  <2> QED  BY <1>1, <2>1 DEF ScreeningAlone
<1>8. OneDecisionPerReviewer'
  <2> SUFFICES ASSUME ~overlapped, NEW b \in Candidates, NEW t \in Stages,
                      NEW x \in decisions'[b][t], NEW y \in decisions'[b][t],
                      x.kind = "independent", y.kind = "independent",
                      x.reviewer = y.reviewer
               PROVE  x = y
    BY <1>1 DEF OneDecisionPerReviewer, Independent
  <2>1. CASE x \in decisions[b][t] /\ y \in decisions[b][t]
    BY <2>1 DEF OneDecisionPerReviewer, Independent
  <2>2. CASE ~(x \in decisions[b][t] /\ y \in decisions[b][t])
    <3>1. b = c /\ t = s /\ d.kind = "independent"
      BY <1>3, <2>2
    <3>2. \A z \in decisions[b][t] : z.kind = "independent" => z.reviewer # d.reviewer
      BY <3>1 DEF ScreeningAlone, Independent
    <3> QED  BY <1>3, <2>2, <3>1, <3>2
  <2> QED  BY <2>1, <2>2
<1> QED  BY <1>4, <1>5, <1>6, <1>7, <1>8

LEMMA ScreeningStep == ASSUME ScreeningInv, [ScreeningNext]_screeningVars PROVE ScreeningInv'
<1>0. \A s, o : SourcesFor(s, o) \subseteq Sources \cup {None}
  BY BoundsOK DEF SourcesFor
<1>1. ASSUME NEW w \in Callers, NEW c \in Candidates, Screen(w, c) PROVE ScreeningInv'
  <2> PICK s \in Stages, r \in panel : \E o \in OutcomesTried[s] :
        /\ ~\E d \in Independent(decisions[c][s]) : d.reviewer = r
        /\ \E src \in SourcesFor(s, o) : Submit(w, c, s, "independent", r, o, src, {})
    BY <1>1 DEF Screen
  <2> PICK o \in OutcomesTried[s], src \in Sources \cup {None} :
        /\ ~\E d \in Independent(decisions[c][s]) : d.reviewer = r
        /\ src \in SourcesFor(s, o) /\ Submit(w, c, s, "independent", r, o, src, {})
    BY <1>0
  <2>1. r \in Reviewers /\ o \in Outcomes
    BY BoundsOK DEF ScreeningInv, ScreeningTypeOK, TeamOK, Panels, Outcomes
  <2> QED  BY <2>1, SubmitKeeps
<1>2. ASSUME NEW w \in Callers, NEW c \in Candidates, Adjudicate(w, c) PROVE ScreeningInv'
  <2> PICK s \in Stages : \E o \in OutcomesTried[s] :
        /\ ~Agreed(Independent(decisions[c][s]))
        /\ \E src \in SourcesFor(s, o) :
             Submit(w, c, s, "adjudication", None, o, src, Ids(Independent(decisions[c][s])))
    BY <1>2 DEF Adjudicate
  <2> DEFINE ind == Independent(decisions[c][s])
  <2> PICK o \in OutcomesTried[s], src \in Sources \cup {None} :
        ~Agreed(ind) /\ Submit(w, c, s, "adjudication", None, o, src, Ids(ind))
    BY <1>0
  <2>1. o \in Outcomes
    BY BoundsOK DEF Outcomes
  <2>2. Ids(ind) \in SUBSET Nat
    BY DEF ScreeningInv, ScreeningTypeOK, Ids, Independent, Decision
  <2>3. \E d, e \in ind : {d.id, e.id} \subseteq Ids(ind) /\ d.outcome # e.outcome
    BY DEF Agreed, Ids
  <2> QED  BY <2>1, <2>2, <2>3, SubmitKeeps
<1>3. CASE UNCHANGED screeningVars
  BY <1>3 DEF screeningVars, team, ScreeningInv, ScreeningTypeOK, PendingRests, Rests,
              AdjudicationsRestOnDisagreement, ScreeningAlone, OneDecisionPerReviewer,
              Adjudications, Independent, TeamOK, Panels
<1> QED  BY <1>1, <1>2, <1>3, CommitKeeps DEF ScreeningNext

\* An adjudication rests on recorded decisions that disagree, for any number of
\* reviewers and racing writers (AdjudicationsRestOnDisagreement).
THEOREM AdjudicationsAreGrounded == ScreeningSpec => []AdjudicationsRestOnDisagreement
<1>1. ScreeningInv => AdjudicationsRestOnDisagreement
  BY DEF ScreeningInv
<1> QED  BY <1>1, ScreeningStarts, ScreeningStep, PTL DEF ScreeningSpec

\* The two rules for the outcome of a stage, behind the counts and behind the
\* completion check, never give two outcomes (FlowAgreesWithFinal), whatever
\* decisions are on record.
THEOREM RulesAgree == ScreeningSpec => []FlowAgreesWithFinal
<1>1. FlowAgreesWithFinal
  <2> SUFFICES ASSUME NEW ds, FinalDecision(ds) # None, FlowDecision(ds) # None
               PROVE  FinalDecision(ds) = FlowDecision(ds)
    BY DEF FlowAgreesWithFinal
  <2>1. CASE Agreed(Independent(ds))
    BY <2>1 DEF FinalDecision, FlowDecision
  <2>2. CASE ~Agreed(Independent(ds))
    BY <2>2 DEF FinalDecision, FlowDecision
  <2> QED  BY <2>1, <2>2
<1> QED  BY <1>1, PTL

\* As long as calls do not overlap, no reviewer decides a stage twice
\* (OneDecisionPerReviewer).
THEOREM ReviewersDecideOnce == ScreeningSpec => []OneDecisionPerReviewer
<1>1. ScreeningInv => OneDecisionPerReviewer
  BY DEF ScreeningInv
<1> QED  BY <1>1, ScreeningStarts, ScreeningStep, PTL DEF ScreeningSpec

-----------------------------------------------------------------------------
\* Extraction.  An adjudication holds the inputs it resolves before its write.
Keeps(a, xs) ==
  LET resolved == {x \in Inputs(xs) : x.id \in a.resolves}
  IN  /\ {x.id : x \in resolved} = a.resolves
      /\ \E x, y \in resolved : Group[x.reviewer] # Group[y.reviewer]
      /\ \E x, y \in resolved : x.value # y.value

ExtractingKeeps ==
  \A e \in extracting :
    e.record.kind = "adjudication" => Keeps(e.record, extractions[e.candidate][e.field])

ExtractionInv == ExtractionTypeOK /\ ExtractingKeeps /\ ResolutionsKeepInputs

LEMMA KeepsStays == ASSUME NEW a, NEW xs, NEW ys, xs \subseteq ys, Keeps(a, xs)
                    PROVE  Keeps(a, ys)
<1> DEFINE Resolved(S) == {x \in Inputs(S) : x.id \in a.resolves}
<1>1. Resolved(xs) \subseteq Resolved(ys)
  BY DEF Inputs
<1>2. {x.id : x \in Resolved(xs)} = a.resolves
  BY DEF Keeps
<1>3. {x.id : x \in Resolved(ys)} = a.resolves
  BY <1>1, <1>2
<1>4. /\ \E x, y \in Resolved(xs) : Group[x.reviewer] # Group[y.reviewer]
      /\ \E x, y \in Resolved(xs) : x.value # y.value
  BY DEF Keeps
<1> QED  BY <1>1, <1>3, <1>4 DEF Keeps

LEMMA ExtractionStarts == ExtractionInit => ExtractionInv
<1> SUFFICES ASSUME ExtractionInit PROVE ExtractionInv
  OBVIOUS
<1>1. ExtractionTypeOK
  BY TeamStart DEF ExtractionInit, ExtractionTypeOK
<1>2. extracting = {} /\ \A c \in Candidates, f \in Fields : extractions[c][f] = {}
  BY DEF ExtractionInit
<1> QED  BY <1>1, <1>2 DEF ExtractionInv, ExtractingKeeps, ResolutionsKeepInputs, Resolutions

LEMMA PrepareKeeps ==
  ASSUME ExtractionInv, NEW p \in Callers, NEW c \in Candidates, NEW f \in Fields,
         NEW kind \in {"independent", "adjudication"}, NEW r \in Reviewers \cup {None},
         NEW v \in Values, NEW src \in Sources, NEW resolves \in SUBSET Nat,
         Prepare(p, c, f, kind, r, v, src, resolves),
         kind = "adjudication" => Keeps([id |-> numbered[c][f] + 1, kind |-> kind,
                                         reviewer |-> r, value |-> v, source |-> src,
                                         resolves |-> resolves], extractions[c][f])
  PROVE  ExtractionInv'
<1> USE DEF ExtractionInv
<1> DEFINE rec == [id |-> numbered[c][f] + 1, kind |-> kind, reviewer |-> r,
                   value |-> v, source |-> src, resolves |-> resolves]
           new == [process |-> p, candidate |-> c, field |-> f, record |-> rec]
<1>1. /\ extracting' = extracting \cup {new} /\ numbered' = [numbered EXCEPT ![c][f] = @ + 1]
      /\ Overlap(extracting) /\ extractions' = extractions
  BY DEF Prepare
<1>2. ExtractionTypeOK'
  <2>1. numbered[c][f] \in Nat
    BY DEF ExtractionTypeOK
  <2>2. rec \in ExtractionRecord
    BY <2>1 DEF ExtractionRecord
  <2>3. new \in ExtractionCall
    BY <2>2 DEF ExtractionCall
  <2>4. numbered' \in [Candidates -> [Fields -> Nat]]
    BY <1>1, <2>1 DEF ExtractionTypeOK
  <2> QED  BY <1>1, <2>3, <2>4, TeamStays DEF ExtractionTypeOK
<1>3. ExtractingKeeps'
  <2>1. ASSUME NEW e \in extracting', e.record.kind = "adjudication"
        PROVE  Keeps(e.record, extractions[e.candidate][e.field])
    <3>1. CASE e \in extracting
      BY <2>1, <3>1 DEF ExtractingKeeps
    <3>2. CASE e = new
      <4>1. e.record = rec /\ e.candidate = c /\ e.field = f /\ kind = "adjudication"
        BY <2>1, <3>2
      <4> QED  BY <4>1
    <3> HIDE DEF new, rec
    <3> QED  BY <1>1, <3>1, <3>2
  <2>2. extractions' = extractions
    BY <1>1
  <2> HIDE DEF new, rec
  <2> QED  BY <2>1, <2>2 DEF ExtractingKeeps, Keeps, Inputs
<1>4. ResolutionsKeepInputs'
  BY <1>1 DEF ResolutionsKeepInputs, Resolutions, Inputs
<1> QED  BY <1>2, <1>3, <1>4

LEMMA WriteExtractionKeeps ==
  ASSUME ExtractionInv, NEW p \in Callers, WriteExtraction(p) PROVE ExtractionInv'
<1> USE DEF ExtractionInv
<1> PICK e \in extracting :
      /\ extractions' = [extractions EXCEPT ![e.candidate][e.field] = @ \cup {e.record}]
      /\ extracting' = extracting \ {e}
  BY DEF WriteExtraction
<1> DEFINE c == e.candidate
           f == e.field
<1>1. UNCHANGED <<numbered, panel, overlapped>>
  BY DEF WriteExtraction, team
<1>2. c \in Candidates /\ f \in Fields /\ e.record \in ExtractionRecord
  BY DEF ExtractionTypeOK, ExtractionCall
<1>3. /\ extractions'[c][f] = extractions[c][f] \cup {e.record}
      /\ \A b \in Candidates, g \in Fields :
           /\ extractions[b][g] \subseteq extractions'[b][g]
           /\ b # c \/ g # f => extractions'[b][g] = extractions[b][g]
  BY <1>2 DEF ExtractionTypeOK
<1>4. ExtractionTypeOK'
  BY <1>1, <1>2 DEF ExtractionTypeOK, TeamOK, Panels
<1>5. ExtractingKeeps'
  <2>1. ASSUME NEW q \in extracting', q.record.kind = "adjudication"
        PROVE  Keeps(q.record, extractions'[q.candidate][q.field])
    <3>1. q.candidate \in Candidates /\ q.field \in Fields
      BY DEF ExtractionTypeOK, ExtractionCall
    <3>2. Keeps(q.record, extractions[q.candidate][q.field])
      BY <2>1 DEF ExtractingKeeps
    <3>3. extractions[q.candidate][q.field] \subseteq extractions'[q.candidate][q.field]
      BY <1>3, <3>1
    <3> QED  BY <3>2, <3>3, KeepsStays
  <2> QED  BY <2>1 DEF ExtractingKeeps, Keeps, Inputs
<1>6. ResolutionsKeepInputs'
  <2>1. ASSUME NEW b \in Candidates, NEW g \in Fields,
               NEW a \in extractions'[b][g], a.kind = "adjudication"
        PROVE  Keeps(a, extractions'[b][g])
    <3>1. CASE a \in extractions[b][g]
      <4>1. Keeps(a, extractions[b][g])
        BY <2>1, <3>1 DEF ResolutionsKeepInputs, Resolutions, Keeps
      <4> QED  BY <1>3, <4>1, KeepsStays
    <3>2. CASE a \notin extractions[b][g]
      <4>1. a = e.record /\ b = c /\ g = f
        BY <1>3, <2>1, <3>2
      <4>2. Keeps(a, extractions[b][g])
        BY <2>1, <4>1 DEF ExtractingKeeps
      <4> QED  BY <1>3, <4>2, KeepsStays
    <3> QED  BY <3>1, <3>2
  <2>2. \A b \in Candidates, g \in Fields : \A a \in Resolutions(extractions'[b][g]) :
          Keeps(a, extractions'[b][g])
    BY <2>1 DEF Resolutions
  <2> QED  BY <2>2 DEF ResolutionsKeepInputs, Keeps
<1> QED  BY <1>4, <1>5, <1>6

LEMMA ExtractionStep ==
  ASSUME ExtractionInv, [ExtractionNext]_extractionVars PROVE ExtractionInv'
<1>1. ASSUME NEW p \in Callers, NEW c \in Candidates, Extract(p, c, Sources)
      PROVE  ExtractionInv'
  <2> PICK f \in Fields, r \in panel, v \in Values, src \in Sources :
        Prepare(p, c, f, "independent", r, v, src, {})
    BY <1>1 DEF Extract
  <2>1. r \in Reviewers
    BY DEF ExtractionInv, ExtractionTypeOK, TeamOK, Panels
  <2> QED  BY <2>1, PrepareKeeps
<1>2. ASSUME NEW p \in Callers, NEW c \in Candidates, AdjudicateExtraction(p, c, Sources)
      PROVE  ExtractionInv'
  <2> PICK f \in Fields, v \in Values, src \in Sources :
        /\ IndependentlyDone(Inputs(extractions[c][f])) /\ ~SameValue(Inputs(extractions[c][f]))
        /\ Prepare(p, c, f, "adjudication", None, v, src, InputIds(Inputs(extractions[c][f])))
    BY <1>2 DEF AdjudicateExtraction
  <2> DEFINE ind == Inputs(extractions[c][f])
             rec == [id |-> numbered[c][f] + 1, kind |-> "adjudication", reviewer |-> None,
                     value |-> v, source |-> src, resolves |-> InputIds(ind)]
  <2>1. InputIds(ind) \in SUBSET Nat
    BY DEF ExtractionInv, ExtractionTypeOK, InputIds, Inputs, ExtractionRecord
  <2>2. {x \in ind : x.id \in InputIds(ind)} = ind
    BY DEF InputIds
  <2>3. Keeps(rec, extractions[c][f])
    <3>1. /\ {x.id : x \in ind} = InputIds(ind)
          /\ \E x, y \in ind : Group[x.reviewer] # Group[y.reviewer]
          /\ \E x, y \in ind : x.value # y.value
      BY DEF InputIds, IndependentlyDone, SameValue
    <3>2. rec.resolves = InputIds(ind)
      OBVIOUS
    <3> HIDE DEF ind, rec
    <3>3. {x \in Inputs(extractions[c][f]) : x.id \in rec.resolves} = ind
      BY <2>2, <3>2 DEF ind
    <3> QED  BY <3>1, <3>2, <3>3 DEF Keeps
  <2> QED  BY <2>1, <2>3, PrepareKeeps
<1>3. CASE UNCHANGED extractionVars
  <2>1. UNCHANGED <<extractions, numbered, extracting, panel, overlapped>>
    BY <1>3 DEF extractionVars, team
  <2>2. ExtractionTypeOK'
    BY <2>1 DEF ExtractionInv, ExtractionTypeOK, TeamOK, Panels
  <2>3. ExtractingKeeps'
    BY <2>1 DEF ExtractionInv, ExtractingKeeps, Keeps, Inputs
  <2>4. ResolutionsKeepInputs'
    BY <2>1 DEF ExtractionInv, ResolutionsKeepInputs, Resolutions, Inputs
  <2> QED  BY <2>2, <2>3, <2>4 DEF ExtractionInv
<1> QED  BY <1>1, <1>2, <1>3, WriteExtractionKeeps DEF ExtractionNext

\* An adjudicated extraction keeps the inputs it resolves, of two groups and with
\* two values, for any number of reviewers and racing callers
\* (ResolutionsKeepInputs).
THEOREM InputsAreKept == ExtractionSpec => []ResolutionsKeepInputs
<1>1. ExtractionInv => ResolutionsKeepInputs
  BY DEF ExtractionInv
<1> QED  BY <1>1, ExtractionStarts, ExtractionStep, PTL DEF ExtractionSpec
-----------------------------------------------------------------------------
\* A panel of two: as long as calls do not overlap, a stage that is settled stays
\* settled.
Pair == Cardinality(panel) = 2

\* Independent decisions, written or on their way, are those of the panel.
DecidedByPanel ==
  /\ \A c \in Candidates, s \in Stages : \A d \in Independent(decisions[c][s]) : d.reviewer \in panel
  /\ \A p \in pending : p.decision.kind = "independent" => p.decision.reviewer \in panel

\* What a call found when it was made, as far as it matters here.
Justified(p) ==
  /\ p.decision.kind = "adjudication" =>
       /\ ~Agreed(Independent(decisions[p.candidate][p.stage]))
       /\ Adjudications(decisions[p.candidate][p.stage]) = {}
  /\ p.stage = "full_text" =>
       \/ decisions[p.candidate]["full_text"] # {}
       \/ FinalDecision(decisions[p.candidate]["title_abstract"]) = "include"

SettledInv == /\ ScreeningInv /\ DecidedByPanel
              /\ ~overlapped => \A p \in pending : Justified(p)
              /\ FullTextOnlyWhenIncluded

LEMMA TwoReviewersAreAll ==
  ASSUME TeamOK, Pair, NEW r \in panel, NEW q \in panel, r # q, NEW x \in panel
  PROVE  x = r \/ x = q
<1>1. IsFiniteSet(panel)
  BY ReviewersAreFinite, FS_Subset DEF TeamOK, Panels
<1>2. IsFiniteSet(panel \ {r}) /\ Cardinality(panel \ {r}) = 1
  BY <1>1, FS_RemoveElement DEF Pair
<1>3. PICK y : panel \ {r} = {y}
  BY <1>2, FS_Singleton
<1> QED  BY <1>3

\* No record is on its way to a stage that is settled.
LEMMA NothingOnItsWay ==
  ASSUME SettledInv, Pair, ~overlapped, NEW p \in pending
  PROVE  FinalDecision(decisions[p.candidate][p.stage]) = None
<1> DEFINE ds == decisions[p.candidate][p.stage]
<1> SUFFICES ASSUME FinalDecision(ds) # None PROVE FALSE
  OBVIOUS
<1>1. p.candidate \in Candidates /\ p.stage \in Stages /\ p.decision.kind \in {"independent", "adjudication"}
  BY DEF SettledInv, ScreeningInv, ScreeningTypeOK, Submission, Decision
<1>2. PICK d \in Independent(ds), e \in Independent(ds) : d.reviewer # e.reviewer
  BY DEF FinalDecision, TwoReviewers
<1>3. d.reviewer \in panel /\ e.reviewer \in panel
  BY <1>1 DEF SettledInv, DecidedByPanel
<1>4. CASE p.decision.kind = "independent"
  <2>1. p.decision.reviewer \in panel
    BY <1>4 DEF SettledInv, DecidedByPanel
  <2>2. p.decision.reviewer = d.reviewer \/ p.decision.reviewer = e.reviewer
    BY <1>2, <1>3, <2>1, TwoReviewersAreAll DEF SettledInv, ScreeningInv, ScreeningTypeOK
  <2> QED  BY <1>4, <2>2 DEF SettledInv, ScreeningInv, ScreeningAlone
<1>5. CASE p.decision.kind = "adjudication"
  BY <1>5 DEF SettledInv, Justified, FinalDecision
<1> QED  BY <1>1, <1>4, <1>5

\* What a write changes.
LEMMA Committed ==
  ASSUME ScreeningInv, NEW w \in Callers, Commit(w)
  PROVE  \E p \in pending :
           /\ p.candidate \in Candidates /\ p.stage \in Stages
           /\ decisions'[p.candidate][p.stage] = decisions[p.candidate][p.stage] \cup {p.decision}
           /\ \A b \in Candidates, t \in Stages :
                b # p.candidate \/ t # p.stage => decisions'[b][t] = decisions[b][t]
           /\ pending' = pending \ {p} /\ UNCHANGED <<panel, overlapped>>
<1> PICK p \in pending :
      /\ decisions' = [decisions EXCEPT ![p.candidate][p.stage] = @ \cup {p.decision}]
      /\ pending' = pending \ {p}
  BY DEF Commit
<1>1. UNCHANGED <<panel, overlapped>>
  BY DEF Commit, team
<1>2. p.candidate \in Candidates /\ p.stage \in Stages
  BY DEF ScreeningInv, ScreeningTypeOK, Submission
<1>3. /\ decisions'[p.candidate][p.stage] = decisions[p.candidate][p.stage] \cup {p.decision}
      /\ \A b \in Candidates, t \in Stages :
           b # p.candidate \/ t # p.stage => decisions'[b][t] = decisions[b][t]
  BY <1>2 DEF ScreeningInv, ScreeningTypeOK
<1> QED  BY <1>1, <1>2, <1>3

LEMMA SettledStays ==
  ASSUME SettledInv, [ScreeningNext]_screeningVars, Pair, ~overlapped',
         NEW c \in Candidates, NEW s \in Stages, FinalDecision(decisions[c][s]) # None
  PROVE  decisions'[c][s] = decisions[c][s]
<1>1. ASSUME NEW w \in Callers, Commit(w) PROVE decisions'[c][s] = decisions[c][s]
  <2> PICK p \in pending :
        /\ \A b \in Candidates, t \in Stages :
             b # p.candidate \/ t # p.stage => decisions'[b][t] = decisions[b][t]
        /\ UNCHANGED <<panel, overlapped>>
    BY <1>1, Committed DEF SettledInv
  <2>1. FinalDecision(decisions[p.candidate][p.stage]) = None
    BY NothingOnItsWay
  <2> QED  BY <2>1
<1>2. ASSUME NEW w \in Callers, NEW b \in Candidates, Screen(w, b) \/ Adjudicate(w, b)
      PROVE  decisions' = decisions
  BY <1>2 DEF Screen, Adjudicate, Submit
<1> QED  BY <1>1, <1>2 DEF ScreeningNext, screeningVars

LEMMA SettledStarts == ScreeningInit => SettledInv
<1> SUFFICES ASSUME ScreeningInit PROVE SettledInv
  OBVIOUS
<1>1. pending = {} /\ \A c \in Candidates, s \in Stages : decisions[c][s] = {}
  BY DEF ScreeningInit
<1>2. "full_text" \in Stages
  BY DEF Stages
<1> QED  BY <1>1, <1>2, ScreeningStarts DEF SettledInv, DecidedByPanel, FullTextOnlyWhenIncluded, Independent

\* A call is made: it found what it needs.
LEMMA SubmitJustified ==
  ASSUME SettledInv, NEW w \in Callers, NEW c \in Candidates, NEW s \in Stages,
         NEW kind, NEW r, NEW o, NEW src, NEW resolves,
         Submit(w, c, s, kind, r, o, src, resolves), ScreeningInv',
         kind = "independent" => r \in panel,
         kind = "adjudication" => /\ ~Agreed(Independent(decisions[c][s]))
                                  /\ Adjudications(decisions[c][s]) = {},
         s = "full_text" => \/ decisions[c]["full_text"] # {}
                            \/ FinalDecision(decisions[c]["title_abstract"]) = "include"
  PROVE  SettledInv'
<1> DEFINE new == [writer |-> w, candidate |-> c, stage |-> s,
                   decision |-> [id |-> minted[c][s] + 1, kind |-> kind, reviewer |-> r,
                                 outcome |-> o, source |-> src, resolves |-> resolves]]
<1>1. /\ pending' = pending \cup {new} /\ decisions' = decisions /\ panel' = panel
      /\ overlapped' = (overlapped \/ pending # {})
  BY DEF Submit, Overlap
<1>2. DecidedByPanel'
  BY <1>1 DEF SettledInv, DecidedByPanel, Independent
<1>3. Justified(new)
  BY DEF Justified
<1>4. ASSUME ~overlapped', NEW p \in pending' PROVE Justified(p)'
  <2>1. p = new
    BY <1>1, <1>4
  <2> QED  BY <1>1, <1>3, <2>1 DEF Justified
<1>5. FullTextOnlyWhenIncluded'
  BY <1>1 DEF SettledInv, FullTextOnlyWhenIncluded
<1> QED  BY <1>2, <1>4, <1>5 DEF SettledInv

LEMMA SettledStep == ASSUME SettledInv, [ScreeningNext]_screeningVars PROVE SettledInv'
<1>0. ScreeningInv'
  BY ScreeningStep DEF SettledInv
<1>1. ASSUME NEW w \in Callers, NEW c \in Candidates, Screen(w, c) PROVE SettledInv'
  <2> PICK s \in Stages, r \in panel : \E o \in OutcomesTried[s] :
        /\ s = "full_text" => FinalDecision(decisions[c]["title_abstract"]) = "include"
        /\ \E src \in SourcesFor(s, o) : Submit(w, c, s, "independent", r, o, src, {})
    BY <1>1 DEF Screen
  <2> PICK o, src : /\ s = "full_text" => FinalDecision(decisions[c]["title_abstract"]) = "include"
                    /\ Submit(w, c, s, "independent", r, o, src, {})
    OBVIOUS
  <2> QED  BY <1>0, SubmitJustified
<1>2. ASSUME NEW w \in Callers, NEW c \in Candidates, Adjudicate(w, c) PROVE SettledInv'
  <2> PICK s \in Stages : \E o \in OutcomesTried[s] :
        /\ ~Agreed(Independent(decisions[c][s])) /\ Adjudications(decisions[c][s]) = {}
        /\ \E src \in SourcesFor(s, o) :
             Submit(w, c, s, "adjudication", None, o, src, Ids(Independent(decisions[c][s])))
    BY <1>2 DEF Adjudicate
  <2> PICK o, src : /\ ~Agreed(Independent(decisions[c][s])) /\ Adjudications(decisions[c][s]) = {}
                    /\ Submit(w, c, s, "adjudication", None, o, src,
                              Ids(Independent(decisions[c][s])))
    OBVIOUS
  <2>1. decisions[c][s] # {}
    BY DEF Agreed, Independent
  <2> QED  BY <1>0, <2>1, SubmitJustified
<1>3. ASSUME NEW w \in Callers, Commit(w) PROVE SettledInv'
  <2> PICK p \in pending :
        /\ p.candidate \in Candidates /\ p.stage \in Stages
        /\ decisions'[p.candidate][p.stage] = decisions[p.candidate][p.stage] \cup {p.decision}
        /\ \A b \in Candidates, t \in Stages :
             b # p.candidate \/ t # p.stage => decisions'[b][t] = decisions[b][t]
        /\ pending' = pending \ {p} /\ UNCHANGED <<panel, overlapped>>
    BY <1>3, Committed DEF SettledInv
  <2>1. DecidedByPanel'
    <3>1. ASSUME NEW b \in Candidates, NEW t \in Stages, NEW d \in Independent(decisions'[b][t])
          PROVE  d.reviewer \in panel
      <4>1. d \in Independent(decisions[b][t]) \/ (d = p.decision /\ d.kind = "independent")
        BY <3>1 DEF Independent
      <4> QED  BY <4>1 DEF SettledInv, DecidedByPanel
    <3> QED  BY <3>1 DEF SettledInv, DecidedByPanel, Independent
  <2>2. ~overlapped => pending' = {}
    BY DEF SettledInv, ScreeningInv, ScreeningAlone
  <2>3. FullTextOnlyWhenIncluded'
    <3> SUFFICES ASSUME Pair, ~overlapped, NEW b \in Candidates, decisions'[b]["full_text"] # {}
                 PROVE  FinalDecision(decisions'[b]["title_abstract"]) = "include"
      BY DEF FullTextOnlyWhenIncluded, Pair
    <3>0. {"title_abstract", "full_text"} = Stages /\ "include" # None
      BY NoOutcomeIsNone DEF Stages
    <3>1. FinalDecision(decisions[b]["title_abstract"]) = "include"
      <4>1. CASE decisions[b]["full_text"] # {}
        BY <4>1 DEF SettledInv, FullTextOnlyWhenIncluded, Pair
      <4>2. CASE decisions[b]["full_text"] = {}
        <5>1. p.candidate = b /\ p.stage = "full_text"
          BY <3>0, <4>2
        <5> QED  BY <4>2, <5>1 DEF SettledInv, Justified
      <4> QED  BY <4>1, <4>2
    <3>2. decisions'[b]["title_abstract"] = decisions[b]["title_abstract"]
      BY <1>3, <3>0, <3>1, SettledStays DEF ScreeningNext
    <3> QED  BY <3>1, <3>2
  <2> QED  BY <1>0, <2>1, <2>2, <2>3 DEF SettledInv
<1>4. CASE UNCHANGED screeningVars
  BY <1>0, <1>4 DEF screeningVars, team, SettledInv, DecidedByPanel, Justified, FullTextOnlyWhenIncluded,
                    Independent, Adjudications, Agreed
<1> QED  BY <1>1, <1>2, <1>3, <1>4 DEF ScreeningNext

LEMMA SettledHolds == ScreeningSpec => []SettledInv
BY SettledStarts, SettledStep, PTL DEF ScreeningSpec

\* Full texts are screened only after their title and abstract were included, and
\* no later decision takes that back (FullTextOnlyWhenIncluded).
THEOREM FullTextsAreIncluded == ScreeningSpec => []FullTextOnlyWhenIncluded
<1>1. SettledInv => FullTextOnlyWhenIncluded
  BY DEF SettledInv
<1> QED  BY <1>1, SettledHolds, PTL

\* Nothing reopens or overturns a settled stage (SettledStaysSettled).
THEOREM StagesStaySettled == ScreeningSpec => SettledStaysSettled
<1>1. ASSUME SettledInv, [ScreeningNext]_screeningVars, Pair, ~overlapped',
             NEW c \in Candidates, NEW s \in Stages, FinalDecision(decisions[c][s]) # None
      PROVE  FinalDecision(decisions'[c][s]) = FinalDecision(decisions[c][s])
  BY <1>1, SettledStays
<1>2. SettledInv /\ [ScreeningNext]_screeningVars =>
        [Cardinality(panel) = 2 /\ ~overlapped' =>
           \A c \in Candidates, s \in Stages :
             FinalDecision(decisions[c][s]) # None
               => FinalDecision(decisions'[c][s]) = FinalDecision(decisions[c][s])]_screeningVars
  BY <1>1 DEF Pair
<1> QED  BY <1>2, SettledHolds, PTL DEF ScreeningSpec, SettledStaysSettled
-----------------------------------------------------------------------------
\* A panel of two: a field that has its value keeps it.  Both reviewers have then
\* extracted it, and an adjudication is made once.
ExtractedByPanel ==
  /\ \A c \in Candidates, f \in Fields : \A x \in Inputs(extractions[c][f]) : x.reviewer \in panel
  /\ \A x \in extracting : x.record.kind = "independent" => x.record.reviewer \in panel

\* What a call found when it was made.
StillDue(x) ==
  /\ x.record.kind = "independent" =>
       \A y \in Inputs(extractions[x.candidate][x.field]) : y.reviewer # x.record.reviewer
  /\ x.record.kind = "adjudication" =>
       /\ ~SameValue(Inputs(extractions[x.candidate][x.field]))
       /\ Resolutions(extractions[x.candidate][x.field]) = {}

ExtractingAlone ==
  ~overlapped =>
    /\ \A x, y \in extracting : x = y
    /\ \A x \in extracting : StillDue(x)

ValuesInv == ExtractionInv /\ ExtractedByPanel /\ ExtractingAlone

LEMMA ValuesStart == ExtractionInit => ValuesInv
<1> SUFFICES ASSUME ExtractionInit PROVE ValuesInv
  OBVIOUS
<1>1. extracting = {} /\ \A c \in Candidates, f \in Fields : extractions[c][f] = {}
  BY DEF ExtractionInit
<1> QED  BY <1>1, ExtractionStarts DEF ValuesInv, ExtractedByPanel, ExtractingAlone, Inputs

LEMMA PreparedIsDue ==
  ASSUME ValuesInv, NEW p \in Callers, NEW c \in Candidates, NEW f \in Fields,
         NEW kind, NEW r, NEW v, NEW src, NEW resolves,
         Prepare(p, c, f, kind, r, v, src, resolves), ExtractionInv',
         kind = "independent" =>
           r \in panel /\ \A y \in Inputs(extractions[c][f]) : y.reviewer # r,
         kind = "adjudication" => /\ ~SameValue(Inputs(extractions[c][f]))
                                  /\ Resolutions(extractions[c][f]) = {}
  PROVE  ValuesInv'
<1> DEFINE new == [process |-> p, candidate |-> c, field |-> f,
                   record |-> [id |-> numbered[c][f] + 1, kind |-> kind, reviewer |-> r,
                               value |-> v, source |-> src, resolves |-> resolves]]
<1>1. /\ extracting' = extracting \cup {new} /\ extractions' = extractions /\ panel' = panel
      /\ overlapped' = (overlapped \/ extracting # {})
  BY DEF Prepare, Overlap
<1>2. ExtractedByPanel'
  BY <1>1 DEF ValuesInv, ExtractedByPanel, Inputs
<1>3. StillDue(new)
  BY DEF StillDue
<1>4. ASSUME ~overlapped' PROVE extracting' = {new}
  BY <1>1, <1>4
<1> HIDE DEF new
<1>5. ASSUME NEW x, x = new PROVE StillDue(x)'
  <2>1. StillDue(x) /\ extractions' = extractions
    BY <1>1, <1>3, <1>5
  <2> QED  BY <2>1 DEF StillDue, Inputs, Resolutions, SameValue
<1>6. ExtractingAlone'
  <2> SUFFICES ASSUME ~overlapped'
               PROVE  (\A x, y \in extracting' : x = y) /\ (\A x \in extracting' : StillDue(x)')
    BY DEF ExtractingAlone
  <2> QED  BY <1>4, <1>5
<1> QED  BY <1>2, <1>6 DEF ValuesInv

\* What a write changes.
LEMMA ExtractionWritten ==
  ASSUME ExtractionInv, NEW p \in Callers, WriteExtraction(p)
  PROVE  \E x \in extracting :
           /\ x.candidate \in Candidates /\ x.field \in Fields
           /\ extractions'[x.candidate][x.field] = extractions[x.candidate][x.field] \cup {x.record}
           /\ \A b \in Candidates, g \in Fields :
                b # x.candidate \/ g # x.field => extractions'[b][g] = extractions[b][g]
           /\ extracting' = extracting \ {x} /\ UNCHANGED <<panel, overlapped>>
<1> PICK x \in extracting :
      /\ extractions' = [extractions EXCEPT ![x.candidate][x.field] = @ \cup {x.record}]
      /\ extracting' = extracting \ {x}
  BY DEF WriteExtraction
<1>1. UNCHANGED <<panel, overlapped>>
  BY DEF WriteExtraction, team
<1>2. x.candidate \in Candidates /\ x.field \in Fields
  BY DEF ExtractionInv, ExtractionTypeOK, ExtractionCall
<1>3. /\ extractions'[x.candidate][x.field] = extractions[x.candidate][x.field] \cup {x.record}
      /\ \A b \in Candidates, g \in Fields :
           b # x.candidate \/ g # x.field => extractions'[b][g] = extractions[b][g]
  BY <1>2 DEF ExtractionInv, ExtractionTypeOK
<1> QED  BY <1>1, <1>2, <1>3

LEMMA ValuesStep == ASSUME ValuesInv, [ExtractionNext]_extractionVars PROVE ValuesInv'
<1>0. ExtractionInv'
  BY ExtractionStep DEF ValuesInv
<1>1. ASSUME NEW p \in Callers, NEW c \in Candidates, Extract(p, c, Sources) PROVE ValuesInv'
  <2> PICK f \in Fields, r \in panel, v \in Values, src \in Sources :
        /\ ~\E x \in Inputs(extractions[c][f]) : x.reviewer = r
        /\ Prepare(p, c, f, "independent", r, v, src, {})
    BY <1>1 DEF Extract
  <2> QED  BY <1>0, PreparedIsDue
<1>2. ASSUME NEW p \in Callers, NEW c \in Candidates, AdjudicateExtraction(p, c, Sources)
      PROVE  ValuesInv'
  <2> PICK f \in Fields, v \in Values, src \in Sources :
        /\ Resolutions(extractions[c][f]) = {} /\ ~SameValue(Inputs(extractions[c][f]))
        /\ Prepare(p, c, f, "adjudication", None, v, src, InputIds(Inputs(extractions[c][f])))
    BY <1>2 DEF AdjudicateExtraction
  <2> QED  BY <1>0, PreparedIsDue
<1>3. ASSUME NEW p \in Callers, WriteExtraction(p) PROVE ValuesInv'
  <2> PICK x \in extracting :
        /\ x.candidate \in Candidates /\ x.field \in Fields
        /\ extractions'[x.candidate][x.field] = extractions[x.candidate][x.field] \cup {x.record}
        /\ \A b \in Candidates, g \in Fields :
             b # x.candidate \/ g # x.field => extractions'[b][g] = extractions[b][g]
        /\ extracting' = extracting \ {x} /\ UNCHANGED <<panel, overlapped>>
    BY <1>3, ExtractionWritten DEF ValuesInv
  <2>1. ExtractedByPanel'
    <3>1. ASSUME NEW b \in Candidates, NEW g \in Fields, NEW y \in Inputs(extractions'[b][g])
          PROVE  y.reviewer \in panel
      <4>1. y \in Inputs(extractions[b][g]) \/ (y = x.record /\ y.kind = "independent")
        BY <3>1 DEF Inputs
      <4> QED  BY <4>1 DEF ValuesInv, ExtractedByPanel
    <3> QED  BY <3>1 DEF ValuesInv, ExtractedByPanel, Inputs
  <2>2. ~overlapped => extracting' = {}
    BY DEF ValuesInv, ExtractingAlone
  <2> QED  BY <1>0, <2>1, <2>2 DEF ValuesInv, ExtractingAlone
<1>4. CASE UNCHANGED extractionVars
  BY <1>0, <1>4 DEF extractionVars, team, ValuesInv, ExtractedByPanel, ExtractingAlone, StillDue,
                    Inputs, Resolutions, SameValue
<1> QED  BY <1>1, <1>2, <1>3, <1>4 DEF ExtractionNext

LEMMA NoExtractionIsDue ==
  ASSUME ValuesInv, Pair, ~overlapped, NEW x \in extracting
  PROVE  FinalExtraction(extractions[x.candidate][x.field]) = None
<1> DEFINE xs == extractions[x.candidate][x.field]
<1> SUFFICES ASSUME FinalExtraction(xs) # None PROVE FALSE
  OBVIOUS
<1>1. /\ x.candidate \in Candidates /\ x.field \in Fields
      /\ x.record.kind \in {"independent", "adjudication"}
  BY DEF ValuesInv, ExtractionInv, ExtractionTypeOK, ExtractionCall, ExtractionRecord
<1>2. PICK y \in Inputs(xs), z \in Inputs(xs) : y.reviewer # z.reviewer
  BY DEF FinalExtraction, IndependentlyDone
<1>3. y.reviewer \in panel /\ z.reviewer \in panel
  BY <1>1 DEF ValuesInv, ExtractedByPanel
<1>4. StillDue(x)
  BY DEF ValuesInv, ExtractingAlone
<1>5. CASE x.record.kind = "independent"
  <2>1. x.record.reviewer \in panel
    BY <1>5 DEF ValuesInv, ExtractedByPanel
  <2>2. x.record.reviewer = y.reviewer \/ x.record.reviewer = z.reviewer
    BY <1>2, <1>3, <2>1, TwoReviewersAreAll DEF ValuesInv, ExtractionInv, ExtractionTypeOK
  <2> QED  BY <1>2, <1>4, <1>5, <2>2 DEF StillDue
<1>6. CASE x.record.kind = "adjudication"
  BY <1>4, <1>6 DEF StillDue, FinalExtraction
<1> QED  BY <1>1, <1>5, <1>6

LEMMA ValueStays ==
  ASSUME ValuesInv, [ExtractionNext]_extractionVars, Pair, ~overlapped',
         NEW c \in Candidates, NEW f \in Fields, FinalExtraction(extractions[c][f]) # None
  PROVE  extractions'[c][f] = extractions[c][f]
<1>1. ASSUME NEW p \in Callers, WriteExtraction(p) PROVE extractions'[c][f] = extractions[c][f]
  <2> PICK x \in extracting :
        /\ \A b \in Candidates, g \in Fields :
             b # x.candidate \/ g # x.field => extractions'[b][g] = extractions[b][g]
        /\ UNCHANGED <<panel, overlapped>>
    BY <1>1, ExtractionWritten DEF ValuesInv
  <2>1. FinalExtraction(extractions[x.candidate][x.field]) = None
    BY NoExtractionIsDue
  <2> QED  BY <2>1
<1>2. ASSUME NEW p \in Callers, NEW b \in Candidates,
             Extract(p, b, Sources) \/ AdjudicateExtraction(p, b, Sources)
      PROVE  extractions' = extractions
  BY <1>2 DEF Extract, AdjudicateExtraction, Prepare
<1> QED  BY <1>1, <1>2 DEF ExtractionNext, extractionVars
=============================================================================
