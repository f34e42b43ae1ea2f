--------------------------- MODULE EvidenceStore ---------------------------
(***************************************************************************)
(* The evidence store (polder_research.evidence): source records and the   *)
(* segments, claims, entities, conflicts and edges that cite them.  No     *)
(* operation takes a lock: a call reads what it cites, or looks for a      *)
(* duplicate, and writes later.  A source is registered with its content   *)
(* or by its URL alone, and then acquired once.                            *)
(*                                                                         *)
(* Ids are places in the order of writing.  Content stands for its digest; *)
(* a raw file keeps its content, so where a source lies says no more than  *)
(* its content does.  A DOI, which intake never gives, is left out, and so *)
(* are gaps, which cite nothing.  The classification of a record between   *)
(* its two writes adds no more than a reference to the result and is       *)
(* modelled in Classification.                                             *)
(***************************************************************************)
EXTENDS Calls, Sequences, FiniteSets

CONSTANTS Urls, Contents, None,
          MaxEvidence  \* bound: records that cite sources

ASSUME NoneIsApart == None \notin Urls \cup Contents

VARIABLES sources,    \* source records: [url, content], content None if unacquired
          evidence    \* records that cite sources or each other

storeVars == <<sources, evidence, callVars>>

Ids == DOMAIN sources
Acquired(s) == sources[s].content # None
Kinds == {"segment", "claim", "entity", "edge", "conflict"}
Of(kind) == {e \in DOMAIN evidence : evidence[e].kind = kind}

(***************************************************************************)
(* find_duplicate_source, by URL or by content; nothing matches on what is *)
(* not given.                                                              *)
(***************************************************************************)
\* Mutant: sources without a URL match one another.
SameOrNoUrl(url) == {s \in Ids : sources[s].url = url}
SameUrl(url) == {s \in Ids : url # None /\ sources[s].url = url}
SameContent(content) == {s \in Ids : content # None /\ sources[s].content = content}

(***************************************************************************)
(* Records that cite: the parents are looked up, then the child written.   *)
(* "seen" is the content the caller quotes from.                           *)
(***************************************************************************)
Citable == {s \in Ids : Acquired(s)}

Cite(kind, cites, from, seen) == [kind |-> kind, cites |-> cites, from |-> from, seen |-> seen]

Segment == {Cite("segment", {}, {s}, sources[s].content) : s \in Citable}
Claim == {Cite("claim", {}, ss, None) : ss \in (SUBSET Citable) \ {{}}}
Entity == {Cite("entity", {}, ss, None) : ss \in SUBSET Ids}
Conflict == {Cite("conflict", cs, {}, None) : cs \in {cs \in SUBSET Of("claim") : Cardinality(cs) > 1}}
\* An edge goes from a claim to a segment, or to a place in an acquired source.
Edge == {Cite("edge", {c}, {s}, None) : c \in Of("claim"), s \in Citable} \cup
        {Cite("edge", {c, g}, evidence[g].from, None) : c \in Of("claim"), g \in Of("segment")}

CheckEvidence(p) ==
  /\ Len(evidence) + Cardinality({q \in Callers : call[q].phase = "citing"}) < MaxEvidence
  /\ \E e \in Segment \cup Claim \cup Entity \cup Conflict \cup Edge :
       Enter(p, [phase |-> "citing", record |-> e])
  /\ UNCHANGED <<sources, evidence>>

WriteEvidence(p) ==
  /\ call[p].phase = "citing"
  /\ evidence' = Append(evidence, call[p].record)
  /\ Go(p, Idle)
  /\ UNCHANGED sources

(***************************************************************************)
(* register_source writes a new record; whoever calls it has looked for    *)
(* duplicates before.  acquire_source reads the source, refuses one that   *)
(* is acquired or content that another source has, and later writes its    *)
(* copy back.                                                              *)
(***************************************************************************)
WriteSource(url, content) == sources' = Append(sources, [url |-> url, content |-> content])

\* Mutant: a source is acquired anew when its page has changed.
AcquirableAgain(s, content) == SameContent(content) \subseteq {s}
\* Mutant: nobody looks whether another source has the content.
AcquirableUnseen(s, content) == ~Acquired(s)
Acquirable(s, content) == ~Acquired(s) /\ SameContent(content) = {}
WriteAcquired(s, content) == sources' = [sources EXCEPT ![s].content = content]

StoreInit == /\ sources = <<>> /\ evidence = <<>>
             /\ CallsInit

(***************************************************************************)
(* What evidence cites is there, of the right kind and acquired, and what  *)
(* a segment quotes is still the content of its source: sources are        *)
(* acquired once and for all, unless two acquisitions race.                *)
(***************************************************************************)
EvidenceRests ==
  \A n \in DOMAIN evidence :
    LET e == evidence[n]
    IN  /\ e.from \subseteq Ids
        /\ e.kind # "entity" => \A s \in e.from : Acquired(s)
        /\ \A c \in e.cites : evidence[c].kind \in {"claim", "segment"}
        /\ e.kind = "segment" /\ ~overlapped => \A s \in e.from : sources[s].content = e.seen

\* Sources registered one after the other never share content.
OneSourcePerContent ==
  ~overlapped => \A s, t \in Ids : s # t /\ Acquired(s) => sources[s].content # sources[t].content
=============================================================================
