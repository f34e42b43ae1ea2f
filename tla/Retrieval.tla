----------------------------- MODULE Retrieval -----------------------------
(***************************************************************************)
(* Searches and the candidates they return (research_methods): every       *)
(* planned query is executed and recorded with its result count, and every *)
(* hit becomes a candidate, "unique" or a duplicate of a unique one with   *)
(* the same deduplication key.  As everywhere in that module a call reads  *)
(* and checks first and writes later, without a lock.                      *)
(***************************************************************************)
EXTENDS ReviewTeam

CONSTANTS Searches,    \* search ids that can be minted
          Queries,     \* the frozen protocol's queries
          Hits,        \* search hits: [identifier, url, title]
          MaxResults   \* bound: results of one search

ASSUME HitsOK == \A h \in Hits : DOMAIN h = {"identifier", "url", "title"}
ASSUME MaxResultsNat == MaxResults \in Nat

VARIABLES searches,    \* the search records on disk
          candidates,  \* the candidate records on disk
          registering  \* candidates past their checks, not yet written

retrievalVars == <<searches, candidates, registering, team>>

SearchRecord == [query : Queries, count : 0..MaxResults]
CandidateRecord == [search : Searches, hit : Hits, status : {"unique", "duplicate"},
                    of : Candidates \cup {None}]

\* _dedupe_key: the first identifier, else the normalized URL, else the title.
DedupeKey(h) ==
  IF h.identifier # None THEN <<"id", h.identifier>>
  ELSE IF h.url # None THEN <<"url", h.url>>
  ELSE <<"title", h.title>>

Registered == {c \in Candidates : candidates[c] # None}
Unique == {c \in Registered : candidates[c].status = "unique"}
Key(c) == DedupeKey(candidates[c].hit)

RetrievalInit ==
  /\ TeamInit
  /\ searches = [s \in Searches |-> None]
  /\ candidates = [c \in Candidates |-> None]
  /\ registering = {}

\* record_search: any planned query, as often as its caller likes.
RecordSearch ==
  \E s \in Searches, q \in Queries, n \in 0..MaxResults :
    /\ searches[s] = None
    /\ searches' = [searches EXCEPT ![s] = [query |-> q, count |-> n]]
    /\ UNCHANGED <<candidates, registering, team>>

\* Mutants: the whole hit is compared; candidates not yet written count, too.
SameHits(h) == {u \in Unique : candidates[u].hit = h}
WithReserved(h) ==
  {u \in Unique : Key(u) = DedupeKey(h)}
    \cup {r.id : r \in {x \in registering : DedupeKey(x.record.hit) = DedupeKey(h)}}

\* The unique candidates a hit duplicates.
Canonicals(h) == {u \in Unique : Key(u) = DedupeKey(h)}

\* register_candidate, up to its write.  Nothing bounds the hits registered
\* for a search by the number of its results.
Register(p) ==
  \E c \in Candidates, s \in Searches, h \in Hits :
    /\ \A r \in registering : r.process # p /\ r.id # c
    /\ candidates[c] = None /\ searches[s] # None
    /\ \E of \in IF Canonicals(h) = {} THEN {None} ELSE Canonicals(h) :
         registering' = registering \cup
           {[process |-> p, id |-> c,
             record |-> [search |-> s, hit |-> h, of |-> of,
                         status |-> IF of = None THEN "unique" ELSE "duplicate"]]}
    /\ Overlap(registering)
    /\ UNCHANGED <<searches, candidates>>

\* write_atomic of the candidate the call prepared.
WriteCandidate(p) ==
  \E r \in registering :
    /\ r.process = p
    /\ candidates' = [candidates EXCEPT ![r.id] = r.record]
    /\ registering' = registering \ {r}
    /\ UNCHANGED <<searches, team>>

RetrievalNext ==
  RecordSearch \/ \E p \in Callers : Register(p) \/ WriteCandidate(p)

RetrievalSpec == RetrievalInit /\ [][RetrievalNext]_retrievalVars

\* Completion conditions of validate_run_for_completion on these records.
AllQueriesExecuted ==
  \A q \in Queries : \E s \in Searches : searches[s] # None /\ searches[s].query = q

\* Mutant: results may be missing.
ResultsNotExceeded ==
  \A s \in Searches :
    searches[s] # None
      => Cardinality({c \in Registered : candidates[c].search = s}) <= searches[s].count

ResultsRepresented ==
  \A s \in Searches :
    searches[s] # None
      => Cardinality({c \in Registered : candidates[c].search = s}) = searches[s].count
KeysAreUnique == \A c, d \in Unique : Key(c) = Key(d) => c = d

-----------------------------------------------------------------------------
\* Every variable has its type.
RetrievalTypeOK ==
  /\ TeamOK
  /\ searches \in [Searches -> SearchRecord \cup {None}]
  /\ candidates \in [Candidates -> CandidateRecord \cup {None}]
  /\ registering \subseteq [process : Callers, id : Candidates, record : CandidateRecord]

\* A duplicate names a canonical candidate that is on record, is unique and has
\* its key, however the registering processes interleave.
DuplicatesPointAtCanonical ==
  \A c \in Registered \ Unique :
    candidates[c].of \in Unique /\ Key(candidates[c].of) = Key(c)

\* Two hits with one key are never both screened: at most one candidate of a key
\* is unique.  Only calls that overlapped break this (both find no canonical
\* candidate, both write one), and then completion is blocked for good.
OneCanonicalPerKey == ~overlapped => KeysAreUnique
=============================================================================
