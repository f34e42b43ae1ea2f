---------------------------- MODULE RunProtocol ----------------------------
(***************************************************************************)
(* The life of one systematic-review run (runs, research_methods): draft   *)
(* protocols, the freezing that binds one to the run, status changes, the  *)
(* recording of evidence, and the audit report.                            *)
(*                                                                         *)
(* Nothing is locked.  A call reads the run file, checks, and later writes *)
(* back the copy it read, so a write can undo what another call wrote in   *)
(* between; a call may also die between two of its writes.  A write is     *)
(* refused only by the run schema.  The method records are abstracted to a *)
(* version number, whether they satisfy the protocol, and the protocols    *)
(* they were recorded under; SystematicReview models them in full.  The    *)
(* audit report also hashes records of the evidence store, whose writers   *)
(* ask no run for its status: they are a version number of their own.      *)
(***************************************************************************)
EXTENDS Integers

CONSTANTS Protocols,     \* protocol ids that can be minted for the run
          Agents,        \* processes calling the API
          None,
          StatusesTried, \* bound: the statuses agents ask for
          MaxVersion,    \* bound: method records written
          MaxStore       \* bound: changes of the evidence store

Statuses == {"draft", "active", "paused", "completed", "aborted"}
ASSUME RunNames == None \notin Protocols \cup Statuses /\ Protocols \cap Statuses = {}
ASSUME RunBounds == StatusesTried \subseteq Statuses /\ {MaxVersion, MaxStore} \subseteq Nat

VARIABLES run,        \* the run file
          protocols,  \* the protocol files
          evidence,   \* the method records
          store,      \* version of the sources, claims and conflicts reviewed
          report,     \* the audit report file
          pc, arg, saved, hashed,  \* each agent's call, and what it read
          boundWhenActive,         \* history: bindings the run was active under
          overlapped               \* history: a call began during another

runLocals == <<arg, saved, hashed>>
runFiles == <<run, protocols, evidence, store, report>>
runHistory == <<boundWhenActive, overlapped>>
runVars == <<runFiles, pc, runLocals, runHistory>>

\* "aborted" stands for "failed" too.
Run == [status : Statuses, protocol : Protocols \cup {None}, listed : BOOLEAN]
Hashes == [version : 0..MaxVersion, store : 0..MaxStore]
Report == [version : 0..MaxVersion, store : 0..MaxStore, protocol : Protocols]
Evidence == [version : 0..MaxVersion, complete : BOOLEAN, under : SUBSET Protocols]
Steps == {"idle", "create", "freeze", "bind", "status", "check", "record",
          "hash", "report", "list"}

\* _frozen_for_run: the bound protocol is frozen and its digest matches.
Verified(r) == r.protocol # None /\ protocols[r.protocol] = "frozen"

\* Mutant: records are taken from any run with a verified protocol.
RecordingAnytime == Verified(run)
Recording == run.status = "active" /\ Verified(run)

\* validate_run_for_completion raises without a verified protocol; else it
\* returns the blockers, here by kind.  A report is stale when a record that it
\* hashed, of the run or of the evidence store, was added or changed.
Unmet == (IF evidence.complete /\ evidence.under \subseteq {run.protocol}
          THEN {} ELSE {"evidence"})
Blockers ==
  (IF Verified(run) THEN Unmet ELSE {"protocol"}) \cup
  (IF report = None THEN {"no report"}
   ELSE IF report # [version |-> evidence.version, store |-> store, protocol |-> run.protocol]
   THEN {"stale report"} ELSE {})

\* The run schema asks an active or completed systematic run for its protocol.
SchemaValid(r) == r.status \in {"active", "completed"} => r.protocol # None

\* write_run: a systematic run starts as a draft without a protocol.
FreshRun == [status |-> "draft", protocol |-> None, listed |-> FALSE]

NoHashes == [version |-> 0, store |-> 0]

RunInit ==
  /\ run = FreshRun
  /\ protocols = [q \in Protocols |-> "absent"]
  /\ evidence = [version |-> 0, complete |-> FALSE, under |-> {}]
  /\ store = 0
  /\ report = None
  /\ pc = [p \in Agents |-> "idle"]
  /\ arg = [p \in Agents |-> None]
  /\ saved = [p \in Agents |-> FreshRun]
  /\ hashed = [p \in Agents |-> NoHashes]
  /\ boundWhenActive = {}
  /\ overlapped = FALSE

-----------------------------------------------------------------------------
\* A call reads the run and remembers it.
StartCall(p, step, a) ==
  /\ pc' = [pc EXCEPT ![p] = step]
  /\ arg' = [arg EXCEPT ![p] = a]
  /\ saved' = [saved EXCEPT ![p] = run]
  /\ overlapped' = (overlapped \/ \E o \in Agents \ {p} : pc[o] # "idle")
  /\ UNCHANGED <<runFiles, hashed, boundWhenActive>>

Step(p, from, to) == pc[p] = from /\ pc' = [pc EXCEPT ![p] = to]
Return(p) == /\ pc' = [pc EXCEPT ![p] = "idle"]
             /\ arg' = [arg EXCEPT ![p] = None]
             /\ saved' = [saved EXCEPT ![p] = FreshRun]
             /\ hashed' = [hashed EXCEPT ![p] = NoHashes]

\* create_protocol checks the run, not the protocols that it already has.
CreateProtocol(p, q) ==
  /\ pc[p] = "idle"
  /\ protocols[q] = "absent" /\ \A o \in Agents : arg[o] # q
  /\ run.status = "draft" /\ run.protocol = None
  /\ StartCall(p, "create", q)

WriteProtocol(p) ==
  /\ pc[p] = "create"
  /\ protocols' = [protocols EXCEPT ![arg[p]] = "draft"]
  /\ UNCHANGED <<run, evidence, store, report, runHistory>>
  /\ Return(p)

\* Mutant: the run is bound before the protocol is frozen.
BindFirst(p, q) ==
  /\ pc[p] = "idle" /\ protocols[q] \in {"draft", "frozen"} /\ run.status = "draft"
  /\ StartCall(p, "bind", q)

\* Mutant: the status of the run is not looked at.
FreezeAnytime(p, q) ==
  /\ pc[p] = "idle" /\ protocols[q] \in {"draft", "frozen"}
  /\ StartCall(p, IF protocols[q] = "frozen" THEN "bind" ELSE "freeze", q)

\* freeze_protocol: writes the protocol first, then the run.
FreezeProtocol(p, q) ==
  /\ pc[p] = "idle"
  /\ protocols[q] \in {"draft", "frozen"}
  /\ run.status = "draft"
  /\ StartCall(p, IF protocols[q] = "frozen" THEN "bind" ELSE "freeze", q)

WriteFrozen(p) ==
  /\ Step(p, "freeze", "bind")
  /\ protocols' = [protocols EXCEPT ![arg[p]] = "frozen"]
  /\ UNCHANGED <<run, evidence, store, report, runLocals, runHistory>>

\* write_atomic of a run record: the schema may refuse it.
WriteRun(p, r) ==
  /\ run' = IF SchemaValid(r) THEN r ELSE run
  /\ boundWhenActive' = boundWhenActive \cup
       (IF run'.status = "active" THEN {run'.protocol} ELSE {})
  /\ UNCHANGED <<protocols, evidence, store, report, overlapped>>
  /\ Return(p)

Bind(p) == pc[p] = "bind" /\ WriteRun(p, [saved[p] EXCEPT !.protocol = arg[p]])

\* update_run_status: reads the run, then verifies what is on disk by then.
UpdateStatus(p, s) ==
  /\ pc[p] = "idle"
  /\ StartCall(p, IF s \in {"active", "completed"} THEN "check" ELSE "status", s)

VerifyStatus(p) ==
  /\ pc[p] = "check"
  /\ IF Verified(run) /\ (arg[p] = "completed" => Blockers = {})
     THEN Step(p, "check", "status") /\ UNCHANGED <<runFiles, runLocals, runHistory>>
     ELSE UNCHANGED <<runFiles, runHistory>> /\ Return(p)

WriteStatus(p) == pc[p] = "status" /\ WriteRun(p, [saved[p] EXCEPT !.status = arg[p]])

-----------------------------------------------------------------------------
\* The record_ and adjudicate_ operations: check the run, write a record of the
\* protocol they read.
RecordEvidence(p) ==
  /\ pc[p] = "idle" /\ evidence.version < MaxVersion
  /\ Recording
  /\ StartCall(p, "record", None)

WriteEvidence(p) ==
  /\ pc[p] = "record" /\ evidence.version < MaxVersion
  /\ \E done \in BOOLEAN :
       evidence' = [version |-> evidence.version + 1, complete |-> done,
                    under |-> evidence.under \cup {saved[p].protocol}]
  /\ UNCHANGED <<run, protocols, store, report, runHistory>>
  /\ Return(p)

\* generate_review_report: validate, hash the records, write the report, list it.
\* Only the blocker "no report" is forgiven.
GenerateReport(p) ==
  /\ pc[p] = "idle"
  /\ Recording
  /\ Blockers \subseteq {"no report"}
  /\ StartCall(p, "hash", None)

HashRecords(p) ==
  /\ Step(p, "hash", "report")
  /\ hashed' = [hashed EXCEPT ![p] = [version |-> evidence.version, store |-> store]]
  /\ UNCHANGED <<runFiles, arg, saved, runHistory>>

WriteReport(p) ==
  /\ pc[p] = "report"
  /\ report' = [version |-> hashed[p].version, store |-> hashed[p].store,
                protocol |-> saved[p].protocol]
  /\ UNCHANGED <<run, protocols, evidence, store, runHistory>>
  /\ IF saved[p].listed THEN Return(p) ELSE Step(p, "report", "list") /\ UNCHANGED runLocals

ListReport(p) == pc[p] = "list" /\ WriteRun(p, [saved[p] EXCEPT !.listed = TRUE])

-----------------------------------------------------------------------------
\* Somebody edits a frozen protocol file by hand.
EditProtocol ==
  /\ \E q \in Protocols :
       /\ protocols[q] = "frozen"
       /\ protocols' = [protocols EXCEPT ![q] = "edited"]
  /\ UNCHANGED <<run, evidence, store, report, pc, runLocals, runHistory>>

\* A claim or a conflict is added on the review's sources, or a record of theirs
\* is edited: the evidence store asks no run for its status.
TouchStore ==
  /\ evidence.version > 0 /\ store < MaxStore
  /\ store' = store + 1
  /\ UNCHANGED <<run, protocols, evidence, report, pc, runLocals, runHistory>>

Crash(p) ==
  /\ pc[p] # "idle"
  /\ UNCHANGED <<runFiles, runHistory>>
  /\ Return(p)

RunNext ==
  \/ EditProtocol \/ TouchStore
  \/ \E p \in Agents :
       \/ \E q \in Protocols : CreateProtocol(p, q) \/ FreezeProtocol(p, q)
       \/ \E s \in StatusesTried : UpdateStatus(p, s)
       \/ WriteProtocol(p) \/ WriteFrozen(p) \/ Bind(p)
       \/ VerifyStatus(p) \/ WriteStatus(p)
       \/ RecordEvidence(p) \/ WriteEvidence(p)
       \/ GenerateReport(p) \/ HashRecords(p) \/ WriteReport(p) \/ ListReport(p)
       \/ Crash(p)

RunSpec == RunInit /\ [][RunNext]_runVars

-----------------------------------------------------------------------------
\* Every variable has its type.
RunTypeOK ==
  /\ run \in Run
  /\ protocols \in [Protocols -> {"absent", "draft", "frozen", "edited"}]
  /\ evidence \in Evidence
  /\ store \in 0..MaxStore
  /\ report \in Report \cup {None}
  /\ pc \in [Agents -> Steps]
  /\ arg \in [Agents -> Protocols \cup Statuses \cup {None}]
  /\ saved \in [Agents -> Run]
  /\ hashed \in [Agents -> Hashes]
  /\ boundWhenActive \subseteq Protocols
  /\ overlapped \in BOOLEAN

\* A run is bound only to a protocol that was frozen before, whatever crash,
\* stale write or late freeze came between: freeze_protocol writes the protocol
\* first.
BindingIsFrozen ==
  run.protocol # None => protocols[run.protocol] \in {"frozen", "edited"}

\* Every method record, and the report, was made under a protocol that the run was
\* active under, whatever status change, late freeze or crash came between the
\* check of record_ or generate_review_report and its write.
RecordsUnderActiveProtocols ==
  /\ evidence.under \subseteq boundWhenActive
  /\ report # None => report.protocol \in boundWhenActive

\* Why bindings are frozen: the inductive invariant of the proofs.  What a call
\* remembers of the run was true when it read it, and stays frozen.
IsFrozen(q) == protocols[q] \in {"frozen", "edited"}

CallsFit ==
  \A p \in Agents :
    /\ saved[p].protocol # None => IsFrozen(saved[p].protocol)
    /\ pc[p] = "create" => /\ arg[p] \in Protocols /\ protocols[arg[p]] = "absent"
                           /\ \A o \in Agents : arg[o] = arg[p] => o = p
    /\ pc[p] \in {"freeze", "bind"} => arg[p] \in Protocols
    /\ pc[p] = "freeze" => protocols[arg[p]] # "absent"
    /\ pc[p] = "bind" => IsFrozen(arg[p])
    /\ pc[p] \in {"record", "hash", "report"} => saved[p].protocol \in boundWhenActive
    /\ pc[p] \in {"check", "status"} => arg[p] \in Statuses

ActiveIsRecorded == run.status = "active" => run.protocol \in boundWhenActive

RunInv == /\ RunTypeOK /\ CallsFit /\ BindingIsFrozen
          /\ ActiveIsRecorded /\ RecordsUnderActiveProtocols

\* As long as calls come one after the other, a completed run stays audited, even
\* over calls that died between two writes: its method records satisfy the
\* protocol and were all made under it, and the report covers these records and
\* this protocol.  What changes later outside the run does not undo it, though
\* it is seen at the next check: an addition to the evidence store makes the
\* report stale, an edit of the protocol makes the check raise.
Audited == /\ Unmet = {}
           /\ report # None
           /\ report.version = evidence.version /\ report.protocol = run.protocol
CompletedIsAudited == ~overlapped /\ run.status = "completed" => Audited

\* As long as calls come one after the other, the binding of a run changes only
\* while it is a draft ("a protocol can only be frozen before run activation").
\* A freeze that overlaps an activation can rebind the run: it writes back the
\* draft that it read.
BindingFixedAfterDraft ==
  [][~overlapped /\ run.status # "draft" => run'.protocol = run.protocol]_runVars

\* "After activation, protocol edits invalidate the run; create a new run for a
\* changed protocol" (research-methods).  Refuted by one caller: a run may have
\* two draft protocols and go back to draft.
OneProtocolEverActive ==
  \A q, o \in boundWhenActive : q = o

\* Reports are rebuilt "from current records" (provenance-model): nothing but
\* evidence that is lacking stops a report.  Refuted: a stale one does.
ReportCanBeRegenerated ==
  Recording /\ Unmet = {} => Blockers \subseteq {"no report"}
=============================================================================
