------------------------------- MODULE Intake -------------------------------
(***************************************************************************)
(* Intake of raw files and links (scripts/intake): a raw file gets a       *)
(* source, an intake record named by its content and kind, and a row in    *)
(* the queue of manifest.md.  The records are authoritative and the queue  *)
(* is a projection for people, but both are written by every operation,    *)
(* the queue as a whole from a text read earlier, and no lock is taken.    *)
(***************************************************************************)
EXTENDS EvidenceStore

CONSTANTS Files, RawKinds, Statuses,
          Raw,     \* content of each raw file; raw items are immutable
          Batches  \* bound: manifests registered, sequences of items

Item == [url : Urls \cup {None}, file : Files \cup {None}]
Content(i) == IF i.file = None THEN None ELSE Raw[i.file]
\* The name of an item in the queue.
Display(i) == IF i.file = None THEN i.url ELSE i.file

ASSUME RawIsKnown == Raw \in [Files -> Contents] /\ None \notin Files /\ Files \cap Urls = {}
ASSUME BatchesHaveItems ==
  \A b \in Batches : b \in Seq(Item) \ {<<>>} /\ \A n \in DOMAIN b : Display(b[n]) # None
ASSUME NoneIsNoRecord == None \notin [file : Files, source : Nat, status : Statuses]
ASSUME NoneIsNoStatus == None \notin Statuses

VARIABLES intake,      \* intake records, by content and kind
          queue,       \* rows of the queue: the status of each item listed
          interrupted  \* history: a call died, or failed half way

vars == <<storeVars, intake, queue, interrupted>>

Names == Files \cup Urls
Keys == Contents \X RawKinds
NoRows == [n \in Names |-> None]
Listed == {n \in Names : queue[n] # None}
RecordsOf(f) == {k \in Keys : intake[k] # None /\ intake[k].file = f}

(***************************************************************************)
(* A registration works through its items: source, intake record, row.     *)
(* text is the queue as it read it, with the rows it will add.             *)
(***************************************************************************)
Job(phase, items, kind, status) ==
  [phase |-> phase, items |-> items, kind |-> kind, status |-> status, source |-> None,
   text |-> queue, added |-> FALSE]
This(p) == Head(call[p].items)
Key(p) == <<Content(This(p)), call[p].kind>>
At(p, phase) == call[p].phase = phase
To(p, phase, source) == Go(p, [call[p] EXCEPT !.phase = phase, !.source = source])

RegisterFile(p, f, kind, status) ==
  /\ Enter(p, Job("resolve", <<[url |-> None, file |-> f]>>, kind, status))
  /\ UNCHANGED <<sources, evidence, intake, queue, interrupted>>

RegisterBatch(p, batch, kind, status) ==
  /\ Enter(p, Job("resolve", batch, kind, status))
  /\ UNCHANGED <<sources, evidence, intake, queue, interrupted>>

Row(job) == job.status

\* An item that is done gets a row unless it has one; the last one ends the loop.
Advance(p) ==
  LET job == call[p]
      n == Display(This(p))
      new == job.text[n] = None
      next == [job EXCEPT !.items = Tail(@), !.source = None, !.added = @ \/ new,
                          !.text[n] = IF new THEN Row(job) ELSE @]
  IN  Go(p, IF next.items # <<>> THEN [next EXCEPT !.phase = "resolve"]
            ELSE IF next.added THEN [next EXCEPT !.phase = "queue"]
            ELSE Idle)

\* A source of the same URL is taken, or acquired; else one of the same content.
Resolve(p) ==
  /\ At(p, "resolve")
  /\ LET i == This(p)
     IN  IF i.file = None
         THEN IF SameUrl(i.url) # {} THEN Advance(p) ELSE To(p, "register", None)
         ELSE IF SameUrl(i.url) # {}
         THEN \E s \in SameUrl(i.url) : To(p, IF Acquired(s) THEN "record" ELSE "acquire", s)
         ELSE IF SameContent(Content(i)) # {}
         THEN \E s \in SameContent(Content(i)) : To(p, "record", s)
         ELSE To(p, "register", None)
  /\ UNCHANGED <<sources, evidence, intake, queue, interrupted>>

RegisterSource(p) ==
  /\ At(p, "register")
  /\ WriteSource(This(p).url, Content(This(p)))
  /\ IF This(p).file = None THEN Advance(p) ELSE To(p, "record", Len(sources) + 1)
  /\ UNCHANGED <<evidence, intake, queue, interrupted>>

(***************************************************************************)
(* acquire_source, for an item or on its own (source acquire).  A refusal  *)
(* ends the whole call, with what it has written and without its rows.     *)
(***************************************************************************)
AcquireSource(p, s, f) ==
  /\ Enter(p, [Job("acquire", <<>>, None, None) EXCEPT !.source = s, !.text = f])
  /\ UNCHANGED <<sources, evidence, intake, queue, interrupted>>

Bytes(p) == IF call[p].items = <<>> THEN Raw[call[p].text] ELSE Content(This(p))

CheckAcquire(p) ==
  /\ At(p, "acquire")
  /\ IF Acquirable(call[p].source, Bytes(p))
     THEN To(p, "acquiring", call[p].source) /\ UNCHANGED interrupted
     ELSE Go(p, Idle) /\ interrupted' = (interrupted \/ call[p].added)
  /\ UNCHANGED <<sources, evidence, intake, queue>>

WriteAcquire(p) ==
  /\ At(p, "acquiring")
  /\ WriteAcquired(call[p].source, Bytes(p))
  /\ IF call[p].items = <<>> THEN Go(p, Idle) ELSE To(p, "record", call[p].source)
  /\ UNCHANGED <<evidence, intake, queue, interrupted>>

(***************************************************************************)
(* The intake record, once for a content and a kind; and the queue.        *)
(***************************************************************************)
CheckRecord(p) ==
  /\ At(p, "record")
  /\ IF intake[Key(p)] # None THEN Advance(p) ELSE To(p, "recording", call[p].source)
  /\ UNCHANGED <<sources, evidence, intake, queue, interrupted>>

WriteRecord(p) ==
  /\ At(p, "recording")
  /\ intake' = [intake EXCEPT ![Key(p)] =
       [file |-> This(p).file, source |-> call[p].source, status |-> call[p].status]]
  /\ Advance(p)
  /\ UNCHANGED <<sources, evidence, queue, interrupted>>

WriteQueue(p) ==
  /\ At(p, "queue")
  /\ queue' = call[p].text
  /\ Go(p, Idle)
  /\ UNCHANGED <<sources, evidence, intake, interrupted>>

(***************************************************************************)
(* A change of status: the row and the record are found, then the record   *)
(* is written and the queue after it.                                      *)
(***************************************************************************)
SetStatus(p, f, status) ==
  /\ f \in Listed
  /\ \E k \in RecordsOf(f) :  \* the first in the directory's order
       Enter(p, [phase |-> "sync", key |-> k, status |-> status,
                 text |-> [queue EXCEPT ![f] = status]])
  /\ UNCHANGED <<sources, evidence, intake, queue, interrupted>>

\* Mutant: only the queue is updated.
SyncQueueOnly(p) ==
  /\ At(p, "sync")
  /\ Turn(p, "queue")
  /\ UNCHANGED <<sources, evidence, intake, queue, interrupted>>
SyncRecord(p) ==
  /\ At(p, "sync")
  /\ intake' = [intake EXCEPT ![call[p].key].status = call[p].status]
  /\ Turn(p, "queue")
  /\ UNCHANGED <<sources, evidence, queue, interrupted>>

\* The queue is not written atomically: a writer that dies may leave it empty.
Crash(p) ==
  /\ call[p] # Idle
  /\ Go(p, Idle)
  /\ interrupted' = TRUE
  /\ queue' \in IF At(p, "queue") THEN {queue, NoRows} ELSE {queue}
  /\ UNCHANGED <<sources, evidence, intake>>

Init == /\ StoreInit
        /\ intake = [k \in Keys |-> None]
        /\ queue = NoRows
        /\ interrupted = FALSE

Begin(p) ==
  \E status \in Statuses :
    \/ \E f \in Files : SetStatus(p, f, status)
    \/ \E kind \in RawKinds :
         \/ \E f \in Files : RegisterFile(p, f, kind, status)
         \/ \E batch \in Batches : RegisterBatch(p, batch, kind, status)

Proceed(p) == \/ Resolve(p) \/ RegisterSource(p) \/ CheckAcquire(p) \/ WriteAcquire(p)
              \/ CheckRecord(p) \/ WriteRecord(p) \/ WriteQueue(p) \/ SyncRecord(p)

Next == \E p \in Callers :
  \/ Begin(p)
  \/ \E s \in Ids, f \in Files : AcquireSource(p, s, f)
  \/ Proceed(p)
  \/ (CheckEvidence(p) \/ WriteEvidence(p)) /\ UNCHANGED <<intake, queue, interrupted>>
  \/ Crash(p)

Spec == Init /\ [][Next]_vars

(***************************************************************************)
(* The queue never runs ahead of the records: whatever calls race or die,  *)
(* a listed link has its source and a listed file its intake record, whose *)
(* source has the content of the record -- unless that source goes by a    *)
(* URL, under which other content may have been acquired before.           *)
(***************************************************************************)
RowsAreBacked ==
  /\ \A n \in Listed : IF n \in Urls THEN SameUrl(n) # {}
                       ELSE \E kind \in RawKinds : intake[<<Raw[n], kind>>] # None
  /\ \A k \in Keys : intake[k] # None =>
       LET s == sources[intake[k].source] IN s.content = k[1] \/ s.url # None

(***************************************************************************)
(* Queue and records agree between calls: every recorded file is listed,   *)
(* and under the same status if its content is registered under no other   *)
(* name or kind -- as long as no call overlapped another, died or failed   *)
(* half way.                                                               *)
(***************************************************************************)
QueueMirrorsIntake ==
  ~overlapped /\ ~interrupted /\ AllIdle =>
    \A f \in Files, k \in Keys :
      k \in RecordsOf(f) =>
        /\ f \in Listed
        /\ RecordsOf(f) = {k} /\ (\A g \in Files \ {f} : Raw[g] # Raw[f])
             => queue[f] = intake[k].status
=============================================================================
