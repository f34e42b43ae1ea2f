---------------------------- MODULE Extraction -----------------------------
(***************************************************************************)
(* Duplicate data extraction in a systematic review (research_methods):    *)
(* two reviewers of different independence groups record a value for every *)
(* protocol field of an included candidate, citing the included source; a  *)
(* disagreement is adjudicated once.  Both inputs are kept.  Calls read,   *)
(* check, mint an id and write later, without a lock.                      *)
(***************************************************************************)
EXTENDS ReviewTeam

CONSTANTS Fields,      \* the protocol's extraction fields
          Values,      \* what may be extracted: status and reported text
          MaxExtracts  \* bound: records per candidate and field

ASSUME NoValueIsNone == None \notin Values
ASSUME ExtractionBound == MaxExtracts \in Nat

VARIABLES extractions,  \* per candidate and field, the records on disk
          numbered,     \* per candidate and field, ids minted
          extracting    \* calls past their checks, their record not yet written

extractionVars == <<extractions, numbered, extracting, team>>

ExtractionRecord == [id : Nat, kind : {"independent", "adjudication"},
                     reviewer : Reviewers \cup {None}, value : Values,
                     source : Sources, resolves : SUBSET Nat]
ExtractionCall == [process : Callers, candidate : Candidates, field : Fields,
                   record : ExtractionRecord]

Inputs(xs) == {x \in xs : x.kind = "independent"}
Resolutions(xs) == {x \in xs : x.kind = "adjudication"}
Newest(xs) == CHOOSE x \in xs : \A y \in xs : y.id <= x.id

\* Mutants: extractions are compared whole, one of them is enough.
SameWhole(xs) == \A x, y \in xs : x = y
AnyDone(xs) == xs # {}

SameValue(xs) == \A x, y \in xs : x.value = y.value
InputIds(xs) == {x.id : x \in xs}
IndependentlyDone(xs) == \E x, y \in xs : Group[x.reviewer] # Group[y.reviewer]

\* _final_extraction: the value a field settles on, None while it has none.
FinalExtraction(xs) ==
  LET ind == Inputs(xs)
      adj == Resolutions(xs)
  IN  IF ~IndependentlyDone(ind) THEN None
      ELSE IF SameValue(ind) THEN (CHOOSE x \in ind : TRUE).value
      ELSE IF adj # {} /\ Newest(adj).resolves = InputIds(ind) THEN Newest(adj).value
      ELSE None

ExtractionInit ==
  /\ TeamInit
  /\ extractions = [c \in Candidates |-> [f \in Fields |-> {}]]
  /\ numbered = [c \in Candidates |-> [f \in Fields |-> 0]]
  /\ extracting = {}

Prepare(p, c, f, kind, r, v, src, resolves) ==
  /\ ~\E x \in extracting : x.process = p
  /\ numbered[c][f] < MaxExtracts
  /\ extracting' = extracting \cup
       {[process |-> p, candidate |-> c, field |-> f,
         record |-> [id |-> numbered[c][f] + 1, kind |-> kind, reviewer |-> r,
                     value |-> v, source |-> src, resolves |-> resolves]]}
  /\ numbered' = [numbered EXCEPT ![c][f] = @ + 1]
  /\ Overlap(extracting)
  /\ UNCHANGED extractions

\* record_extraction, up to its write; "linked" are the sources that the
\* candidate's full-text decisions name.
Extract(p, c, linked) ==
  \E f \in Fields, r \in panel, v \in Values, src \in linked :
    /\ ~\E x \in Inputs(extractions[c][f]) : x.reviewer = r
    /\ Prepare(p, c, f, "independent", r, v, src, {})

\* adjudicate_extraction, up to its write.
AdjudicateExtraction(p, c, linked) ==
  \E f \in Fields, v \in Values, src \in linked :
    LET ind == Inputs(extractions[c][f])
    IN  /\ Resolutions(extractions[c][f]) = {}
        /\ IndependentlyDone(ind)
        /\ ~SameValue(ind)
        /\ Prepare(p, c, f, "adjudication", None, v, src, InputIds(ind))

\* write_atomic of the record the call prepared.
WriteExtraction(p) ==
  \E x \in extracting :
    /\ x.process = p
    /\ extractions' = [extractions EXCEPT ![x.candidate][x.field] = @ \cup {x.record}]
    /\ extracting' = extracting \ {x}
    /\ UNCHANGED <<numbered, team>>

ExtractionNext ==
  \E p \in Callers :
    \/ WriteExtraction(p)
    \/ \E c \in Candidates : Extract(p, c, Sources) \/ AdjudicateExtraction(p, c, Sources)

ExtractionSpec == ExtractionInit /\ [][ExtractionNext]_extractionVars

-----------------------------------------------------------------------------
\* Every variable has its type.
ExtractionTypeOK ==
  /\ TeamOK
  /\ extractions \in [Candidates -> [Fields -> SUBSET ExtractionRecord]]
  /\ numbered \in [Candidates -> [Fields -> Nat]]
  /\ extracting \subseteq ExtractionCall

\* The original extractions an adjudication resolves stay on record beside it
\* ("retaining both inputs"), come from two independence groups and disagree,
\* in whatever order the processes wrote.
ResolutionsKeepInputs ==
  \A c \in Candidates, f \in Fields : \A a \in Resolutions(extractions[c][f]) :
    LET resolved == {x \in Inputs(extractions[c][f]) : x.id \in a.resolves}
    IN  /\ {x.id : x \in resolved} = a.resolves
        /\ \E x, y \in resolved : Group[x.reviewer] # Group[y.reviewer]
        /\ \E x, y \in resolved : x.value # y.value

\* Once settled, a field keeps its value, with a panel of two and unless calls
\* overlapped.
SettledValueStays ==
  [][Cardinality(panel) = 2 /\ ~overlapped' =>
       \A c \in Candidates, f \in Fields :
         FinalExtraction(extractions[c][f]) # None
           => FinalExtraction(extractions'[c][f])
                = FinalExtraction(extractions[c][f])]_extractionVars
=============================================================================
