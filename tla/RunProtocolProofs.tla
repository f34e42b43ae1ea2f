-------------------------- MODULE RunProtocolProofs ------------------------
(***************************************************************************)
(* Proofs about RunProtocol, for any number of agents and protocols that   *)
(* race and crash: the binding of a run to its protocol.                   *)
(***************************************************************************)
EXTENDS RunProtocol, TLAPS

\* What the run, the records and the history of its bindings have in common.
BoundParts == BindingIsFrozen /\ ActiveIsRecorded /\ RecordsUnderActiveProtocols

LEMMA FreshIsRun == FreshRun \in Run /\ FreshRun.protocol = None /\ FreshRun.status = "draft"
BY DEF FreshRun, Run, Statuses

THEOREM RunInitInv == RunInit => RunInv
<1> SUFFICES ASSUME RunInit PROVE RunInv
  OBVIOUS
<1>1. RunTypeOK
  <2>1. overlapped \in BOOLEAN
    BY DEF RunInit
  <2>2. NoHashes \in Hashes /\ 0 \in 0..MaxStore
    BY RunBounds DEF NoHashes, Hashes
  <2> QED  BY <2>1, <2>2, FreshIsRun, RunBounds DEF RunInit, RunTypeOK, Evidence, Steps
<1>2. CallsFit /\ BindingIsFrozen /\ ActiveIsRecorded /\ RecordsUnderActiveProtocols
  BY FreshIsRun, RunNames
  DEF RunInit, CallsFit, BindingIsFrozen, ActiveIsRecorded, RecordsUnderActiveProtocols
<1> QED  BY <1>1, <1>2 DEF RunInv

-----------------------------------------------------------------------------
\* A call that starts remembers the run, and its own argument.
LEMMA StartKeeps ==
  ASSUME RunInv, NEW p \in Agents, NEW step \in Steps \ {"idle"}, NEW a,
         StartCall(p, step, a),
         a \in Protocols \cup Statuses \cup {None},
         step = "create" => /\ a \in Protocols /\ protocols[a] = "absent"
                            /\ \A o \in Agents : arg[o] # a,
         step = "freeze" => a \in Protocols /\ protocols[a] \notin {"absent", "frozen"},
         step = "bind" => a \in Protocols /\ protocols[a] = "frozen",
         step \in {"record", "hash", "report"} => run.status = "active",
         step # "create" /\ a \in Protocols => protocols[a] # "absent",
         step \in {"check", "status"} => a \in Statuses
  PROVE  RunInv'
<1> USE DEF RunInv, runHistory
<1>1. RunTypeOK' /\ BoundParts'
  BY DEF StartCall, runFiles, runHistory, RunTypeOK, BoundParts, BindingIsFrozen,
         ActiveIsRecorded, RecordsUnderActiveProtocols
<1>2. CallsFit'
  <2>1. /\ pc' = [pc EXCEPT ![p] = step] /\ arg' = [arg EXCEPT ![p] = a]
        /\ saved' = [saved EXCEPT ![p] = run] /\ UNCHANGED <<protocols, boundWhenActive>>
    BY DEF StartCall, runFiles, runHistory
  <2>2. /\ run.protocol # None => IsFrozen(run.protocol)
        /\ run.status = "active" => run.protocol \in boundWhenActive
    BY DEF BindingIsFrozen, IsFrozen, ActiveIsRecorded
  <2>3. /\ pc'[p] = step /\ arg'[p] = a /\ saved'[p] = run
        /\ \A o \in Agents \ {p} : pc'[o] = pc[o] /\ arg'[o] = arg[o] /\ saved'[o] = saved[o]
    BY <2>1 DEF RunTypeOK
  <2>4. ASSUME NEW o \in Agents, pc'[o] = "create", NEW r \in Agents, arg'[r] = arg'[o]
        PROVE  r = o
    BY <2>3, <2>4 DEF CallsFit
  <2> QED  BY <2>1, <2>2, <2>3, <2>4 DEF CallsFit, IsFrozen
<1> QED  BY <1>1, <1>2 DEF BoundParts

\* A call that returns forgets what it read, whatever it wrote in a run that
\* is still bound to a frozen protocol.
LEMMA ReturnKeeps ==
  ASSUME RunInv, NEW p \in Agents, Return(p),
         run' \in Run, BoundParts',
         evidence' \in Evidence, UNCHANGED store, report' \in Report \cup {None},
         boundWhenActive \subseteq boundWhenActive', boundWhenActive' \subseteq Protocols,
         overlapped' \in BOOLEAN,
         protocols' \in [Protocols -> {"absent", "draft", "frozen", "edited"}],
         \A q \in Protocols : /\ IsFrozen(q) => IsFrozen(q)'
                              /\ protocols[q] # "absent" => protocols'[q] # "absent",
         \A q \in Protocols : protocols[q] = "absent" /\ protocols'[q] # "absent" => arg[p] = q
  PROVE  RunInv'
<1> USE DEF RunInv, runHistory
<1>1. RunTypeOK'
  <2>1. NoHashes \in Hashes
    BY RunBounds DEF NoHashes, Hashes
  <2> QED  BY <2>1, FreshIsRun, RunBounds DEF Return, RunTypeOK, Steps
<1>2. CallsFit'
  <2>1. /\ pc'[p] = "idle" /\ arg'[p] = None /\ saved'[p] = FreshRun
        /\ \A o \in Agents \ {p} : pc'[o] = pc[o] /\ arg'[o] = arg[o] /\ saved'[o] = saved[o]
    BY DEF Return, RunTypeOK
  <2>2. \A o \in Agents \ {p} : saved[o].protocol \in Protocols \cup {None}
    BY DEF RunTypeOK, Run
  <2>3. \A o \in Agents \ {p} : saved'[o].protocol # None => protocols'[saved'[o].protocol] \in {"frozen", "edited"}
    BY <2>1, <2>2 DEF CallsFit, IsFrozen
  <2>4. \A o \in Agents \ {p} : pc[o] = "create" => protocols'[arg[o]] = "absent"
    BY DEF CallsFit, RunTypeOK, IsFrozen
  <2>5. \A o \in Agents \ {p} : pc[o] = "create" =>
          \A r \in Agents : arg'[r] = arg'[o] => r = o
    BY <2>1, RunNames DEF CallsFit, IsFrozen
  <2>6. \A o \in Agents \ {p} : pc[o] = "bind" => protocols'[arg[o]] \in {"frozen", "edited"}
    BY DEF CallsFit, IsFrozen
  <2>7. \A o \in Agents \ {p} : pc[o] = "freeze" => protocols'[arg[o]] # "absent"
    BY DEF CallsFit, IsFrozen
  <2>8. ASSUME NEW o \in Agents
        PROVE  /\ saved'[o].protocol # None => protocols'[saved'[o].protocol] \in {"frozen", "edited"}
               /\ pc'[o] = "create" => /\ arg'[o] \in Protocols /\ protocols'[arg'[o]] = "absent"
                                       /\ \A r \in Agents : arg'[r] = arg'[o] => r = o
               /\ pc'[o] \in {"freeze", "bind"} => arg'[o] \in Protocols
               /\ pc'[o] = "freeze" => protocols'[arg'[o]] # "absent"
               /\ pc'[o] = "bind" => protocols'[arg'[o]] \in {"frozen", "edited"}
               /\ pc'[o] \in {"record", "hash", "report"} => saved'[o].protocol \in boundWhenActive'
               /\ pc'[o] \in {"check", "status"} => arg'[o] \in Statuses
    <3>1. CASE o = p
      BY <2>1, <3>1, FreshIsRun
    <3>2. CASE o # p
      BY <2>1, <2>3, <2>4, <2>5, <2>6, <2>7, <3>2 DEF CallsFit, IsFrozen
    <3> QED  BY <3>1, <3>2
  <2> QED  BY <2>8 DEF CallsFit, IsFrozen
<1> QED  BY <1>1, <1>2 DEF BoundParts

\* A written run is bound to what its caller had read, or has just frozen.
LEMMA WriteRunKeeps ==
  ASSUME RunInv, NEW p \in Agents, NEW r \in Run, WriteRun(p, r),
         r.protocol # None => IsFrozen(r.protocol)
  PROVE  RunInv'
<1> USE DEF RunInv, runHistory
<1>1. run' \in Run /\ BindingIsFrozen'
  BY DEF WriteRun, RunTypeOK, BindingIsFrozen, IsFrozen
<1>2. boundWhenActive \subseteq boundWhenActive' /\ boundWhenActive' \subseteq Protocols
  <2>1. run'.protocol \in Protocols \cup {None}
    BY <1>1 DEF Run
  <2>2. run'.status = "active" => run'.protocol # None
    BY RunNames DEF WriteRun, SchemaValid, ActiveIsRecorded, RunTypeOK
  <2> QED  BY <2>1, <2>2 DEF WriteRun, RunTypeOK
<1>3. UNCHANGED <<protocols, evidence, store, report, overlapped>> /\ Return(p)
  BY DEF WriteRun
<1>4. ActiveIsRecorded'
  BY DEF WriteRun, ActiveIsRecorded
<1>5. RecordsUnderActiveProtocols'
  BY <1>2, <1>3 DEF RecordsUnderActiveProtocols
<1> QED  BY <1>1, <1>2, <1>3, <1>4, <1>5, ReturnKeeps DEF BoundParts, RunTypeOK, IsFrozen

\* A step that stays within its call, and writes at most a frozen protocol.
LEMMA AdvanceKeeps ==
  ASSUME RunInv, NEW p \in Agents,
         NEW x \in Steps \ {"idle", "create", "freeze"}, Step(p, pc[p], x),
         UNCHANGED <<run, evidence, store, arg, saved, boundWhenActive, overlapped>>,
         report' \in Report \cup {None}, hashed' \in [Agents -> Hashes],
         report' # None => report'.protocol \in boundWhenActive,
         \/ UNCHANGED protocols
         \/ /\ pc[p] = "freeze" /\ x = "bind"
            /\ protocols' = [protocols EXCEPT ![arg[p]] = "frozen"],
         x = "bind" => pc[p] = "freeze" /\ protocols'[arg[p]] = "frozen",
         x \in {"record", "hash", "report"} => pc[p] = "hash",
         x \in {"check", "status"} => pc[p] = "check"
  PROVE  RunInv'
<1> USE DEF RunInv, runHistory
<1>1. /\ protocols' \in [Protocols -> {"absent", "draft", "frozen", "edited"}]
      /\ \A q \in Protocols : /\ IsFrozen(q) => IsFrozen(q)'
                              /\ protocols[q] = "absent" <=> protocols'[q] = "absent"
  BY DEF RunTypeOK, CallsFit, IsFrozen
<1>2. RunTypeOK'
  BY <1>1 DEF RunTypeOK, Step
<1>3. BoundParts'
  BY <1>1 DEF BoundParts, BindingIsFrozen, ActiveIsRecorded, RecordsUnderActiveProtocols,
              IsFrozen, RunTypeOK, Run
<1>4. CallsFit'
  <2>1. pc'[p] = x /\ \A o \in Agents \ {p} : pc'[o] = pc[o]
    BY DEF Step, RunTypeOK
  <2>2. \A o \in Agents : saved[o].protocol \in Protocols \cup {None}
    BY DEF RunTypeOK, Run
  <2>3. ASSUME NEW o \in Agents
        PROVE  /\ saved[o].protocol # None => protocols'[saved[o].protocol] \in {"frozen", "edited"}
               /\ pc'[o] = "create" => /\ arg[o] \in Protocols /\ protocols'[arg[o]] = "absent"
                                       /\ \A r \in Agents : arg[r] = arg[o] => r = o
               /\ pc'[o] \in {"freeze", "bind"} => arg[o] \in Protocols
               /\ pc'[o] = "freeze" => protocols'[arg[o]] # "absent"
               /\ pc'[o] = "bind" => protocols'[arg[o]] \in {"frozen", "edited"}
               /\ pc'[o] \in {"record", "hash", "report"} => saved[o].protocol \in boundWhenActive
               /\ pc'[o] \in {"check", "status"} => arg[o] \in Statuses
    <3>1. CASE o = p
      BY <1>1, <2>1, <2>2, <3>1 DEF CallsFit, IsFrozen
    <3>2. CASE o # p
      BY <1>1, <2>1, <2>2, <3>2 DEF CallsFit, IsFrozen
    <3> QED  BY <3>1, <3>2
  <2> QED  BY <2>3 DEF CallsFit, IsFrozen
<1> QED  BY <1>2, <1>3, <1>4 DEF BoundParts

-----------------------------------------------------------------------------
\* Every call that starts has checked what it will rely on.
LEMMA CallsStart ==
  ASSUME RunInv, NEW p \in Agents, pc[p] = "idle",
         \/ \E q \in Protocols : CreateProtocol(p, q) \/ FreezeProtocol(p, q)
         \/ \E s \in StatusesTried : UpdateStatus(p, s)
         \/ RecordEvidence(p) \/ GenerateReport(p)
  PROVE  RunInv'
<1>1. ASSUME NEW q \in Protocols, CreateProtocol(p, q) PROVE RunInv'
  BY <1>1, StartKeeps DEF CreateProtocol, Steps
<1>2. ASSUME NEW q \in Protocols, FreezeProtocol(p, q) PROVE RunInv'
  <2>1. CASE protocols[q] = "frozen"
    BY <1>2, <2>1, StartKeeps DEF FreezeProtocol, Steps
  <2>2. CASE protocols[q] = "draft"
    BY <1>2, <2>2, StartKeeps DEF FreezeProtocol, Steps
  <2> QED  BY <1>2, <2>1, <2>2 DEF FreezeProtocol
<1>3. ASSUME NEW s \in StatusesTried, UpdateStatus(p, s) PROVE RunInv'
  <2>1. s \in Statuses /\ s \notin Protocols
    BY RunNames, RunBounds
  <2>2. CASE s \in {"active", "completed"}
    BY <1>3, <2>1, <2>2, StartKeeps DEF UpdateStatus, Steps
  <2>3. CASE s \notin {"active", "completed"}
    BY <1>3, <2>1, <2>3, StartKeeps DEF UpdateStatus, Steps
  <2> QED  BY <2>2, <2>3
<1>4. CASE RecordEvidence(p)
  BY <1>4, RunNames, StartKeeps DEF RecordEvidence, Recording, Verified, Steps
<1>5. CASE GenerateReport(p)
  BY <1>5, RunNames, StartKeeps DEF GenerateReport, Recording, Verified, Steps
<1> QED  BY <1>1, <1>2, <1>3, <1>4, <1>5

\* Every call that ends leaves the run bound as it was, or to what it froze.
LEMMA CallsReturn ==
  ASSUME RunInv, NEW p \in Agents,
         \/ WriteProtocol(p) \/ Bind(p) \/ WriteStatus(p) \/ ListReport(p)
         \/ WriteEvidence(p) \/ Crash(p)
  PROVE  RunInv'
<1> USE DEF RunInv, runHistory, BoundParts
<1>0. saved[p] \in Run
  BY DEF RunTypeOK
<1>1. CASE WriteProtocol(p)
  <2>1. arg[p] \in Protocols /\ protocols[arg[p]] = "absent"
    BY <1>1 DEF WriteProtocol, CallsFit
  <2>2. /\ protocols' = [protocols EXCEPT ![arg[p]] = "draft"] /\ Return(p)
        /\ UNCHANGED <<run, evidence, store, report, runHistory>>
    BY <1>1 DEF WriteProtocol
  <2>3. BoundParts'
    BY <2>1, <2>2 DEF BindingIsFrozen, ActiveIsRecorded, RecordsUnderActiveProtocols, RunTypeOK, Run
  <2> QED  BY <2>1, <2>2, <2>3, ReturnKeeps DEF RunTypeOK, IsFrozen
<1>2. CASE Bind(p)
  <2> DEFINE r == [saved[p] EXCEPT !.protocol = arg[p]]
  <2>1. arg[p] \in Protocols /\ IsFrozen(arg[p]) /\ WriteRun(p, r)
    BY <1>2 DEF Bind, CallsFit
  <2>2. r \in Run /\ r.protocol = arg[p]
    BY <1>0, <2>1 DEF Run
  <2> QED  BY <2>1, <2>2, WriteRunKeeps
<1>3. CASE WriteStatus(p)
  <2> DEFINE r == [saved[p] EXCEPT !.status = arg[p]]
  <2>1. arg[p] \in Statuses /\ WriteRun(p, r)
    BY <1>3 DEF WriteStatus, CallsFit
  <2>2. r \in Run /\ r.protocol = saved[p].protocol
    BY <1>0, <2>1 DEF Run
  <2> QED  BY <2>1, <2>2, WriteRunKeeps DEF CallsFit
<1>4. CASE ListReport(p)
  <2> DEFINE r == [saved[p] EXCEPT !.listed = TRUE]
  <2>1. r \in Run /\ r.protocol = saved[p].protocol /\ WriteRun(p, r)
    BY <1>0, <1>4 DEF ListReport, Run
  <2> QED  BY <2>1, WriteRunKeeps DEF CallsFit
<1>5. CASE WriteEvidence(p)
  <2>0. saved[p].protocol \in boundWhenActive /\ saved[p].protocol \in Protocols
    BY <1>5 DEF WriteEvidence, CallsFit, RunTypeOK
  <2>1. evidence' \in Evidence /\ evidence'.under = evidence.under \cup {saved[p].protocol}
    BY <1>5, <2>0, RunBounds DEF WriteEvidence, RunTypeOK, Evidence
  <2>2. Return(p) /\ UNCHANGED <<run, protocols, store, report, runHistory>>
    BY <1>5 DEF WriteEvidence
  <2>3. BoundParts'
    BY <2>0, <2>1, <2>2 DEF BindingIsFrozen, ActiveIsRecorded, RecordsUnderActiveProtocols
  <2> QED  BY <2>1, <2>2, <2>3, ReturnKeeps DEF RunTypeOK, IsFrozen
<1>6. CASE Crash(p)
  <2>1. Return(p) /\ UNCHANGED <<run, protocols, evidence, store, report, boundWhenActive, overlapped>>
    BY <1>6 DEF Crash, runFiles
  <2>2. BoundParts'
    BY <2>1 DEF BindingIsFrozen, ActiveIsRecorded, RecordsUnderActiveProtocols
  <2> QED  BY <2>1, <2>2, ReturnKeeps DEF RunTypeOK, IsFrozen
<1> QED  BY <1>1, <1>2, <1>3, <1>4, <1>5, <1>6

\* The steps inside a call.
LEMMA CallsAdvance ==
  ASSUME RunInv, NEW p \in Agents,
         WriteFrozen(p) \/ VerifyStatus(p) \/ HashRecords(p) \/ WriteReport(p)
  PROVE  RunInv'
<1> USE DEF RunInv, runHistory, BoundParts
<1>0. report # None => report.protocol \in boundWhenActive
  BY DEF RecordsUnderActiveProtocols
<1>1. CASE WriteFrozen(p)
  <2>1. protocols'[arg[p]] = "frozen"
    BY <1>1 DEF WriteFrozen, Step, CallsFit, RunTypeOK
  <2> QED  BY <1>0, <1>1, <2>1, AdvanceKeeps DEF WriteFrozen, Step, runLocals, RunTypeOK, Steps
<1>2. CASE VerifyStatus(p)
  <2>1. CASE Step(p, "check", "status") /\ UNCHANGED <<runFiles, runLocals, runHistory>>
    BY <1>0, <2>1, AdvanceKeeps DEF Step, runFiles, runHistory, runLocals, RunTypeOK, Steps
  <2>2. CASE UNCHANGED <<runFiles, runHistory>> /\ Return(p)
    <3>1. BoundParts'
      BY <2>2 DEF runFiles, BindingIsFrozen, ActiveIsRecorded, RecordsUnderActiveProtocols
    <3> QED  BY <2>2, <3>1, ReturnKeeps DEF runFiles, RunTypeOK, IsFrozen
  <2> QED  BY <1>2, <2>1, <2>2 DEF VerifyStatus
<1>3. CASE HashRecords(p)
  <2>1. hashed' \in [Agents -> Hashes]
    BY <1>3 DEF HashRecords, RunTypeOK, Evidence, Hashes
  <2> QED  BY <1>0, <1>3, <2>1, AdvanceKeeps DEF HashRecords, Step, runFiles, runHistory, RunTypeOK, Steps
<1>4. CASE WriteReport(p)
  <2>1. /\ report' \in Report /\ report'.protocol \in boundWhenActive
        /\ UNCHANGED <<run, protocols, evidence, store, runHistory>>
    <3>1. saved[p].protocol \in boundWhenActive /\ saved[p].protocol \in Protocols
      BY <1>4 DEF WriteReport, CallsFit, RunTypeOK
    <3>2. hashed[p] \in Hashes
      BY DEF RunTypeOK
    <3> QED  BY <1>4, <3>1, <3>2 DEF WriteReport, Report, Hashes
  <2>2. CASE Return(p)
    <3>1. BoundParts'
      BY <2>1 DEF BindingIsFrozen, ActiveIsRecorded, RecordsUnderActiveProtocols
    <3> QED  BY <2>1, <2>2, <3>1, ReturnKeeps DEF RunTypeOK, IsFrozen
  <2>3. CASE Step(p, "report", "list") /\ UNCHANGED runLocals
    BY <2>1, <2>3, AdvanceKeeps DEF Step, runLocals, RunTypeOK, Steps
  <2> QED  BY <1>4, <2>2, <2>3 DEF WriteReport
<1> QED  BY <1>1, <1>2, <1>3, <1>4

\* A change of the evidence store touches nothing that the invariant is about.
LEMMA TouchKeeps == ASSUME RunInv, TouchStore PROVE RunInv'
<1>1. /\ UNCHANGED <<run, protocols, evidence, report, pc, arg, saved, hashed, boundWhenActive,
                     overlapped>>
      /\ store' \in 0..MaxStore
  BY RunBounds DEF TouchStore, runLocals, runHistory, RunInv, RunTypeOK
<1> QED  BY <1>1 DEF RunInv, RunTypeOK, CallsFit, IsFrozen, BindingIsFrozen, ActiveIsRecorded,
                     RecordsUnderActiveProtocols

\* An edit of a frozen protocol leaves it bound, though no longer verified.
LEMMA EditKeeps == ASSUME RunInv, EditProtocol PROVE RunInv'
<1> USE DEF RunInv, runHistory
<1> PICK q \in Protocols : /\ protocols[q] = "frozen"
                           /\ protocols' = [protocols EXCEPT ![q] = "edited"]
  BY DEF EditProtocol
<1>1. /\ UNCHANGED <<run, evidence, store, report, pc, arg, saved, hashed, boundWhenActive,
                     overlapped>>
      /\ protocols' \in [Protocols -> {"absent", "draft", "frozen", "edited"}]
      /\ \A o \in Protocols : /\ IsFrozen(o) => IsFrozen(o)'
                              /\ protocols[o] = "absent" <=> protocols'[o] = "absent"
  BY DEF EditProtocol, runLocals, IsFrozen, RunTypeOK
<1>2. RunTypeOK' /\ BoundParts'
  BY <1>1 DEF RunTypeOK, BoundParts, BindingIsFrozen, ActiveIsRecorded,
              RecordsUnderActiveProtocols, IsFrozen, Run
<1>3. CallsFit'
  <2>1. \A o \in Agents : saved[o].protocol \in Protocols \cup {None}
    BY DEF RunTypeOK, Run
  <2> QED  BY <1>1, <2>1 DEF CallsFit, IsFrozen
<1> QED  BY <1>2, <1>3 DEF BoundParts

LEMMA RunStep == ASSUME RunInv, [RunNext]_runVars PROVE RunInv'
<1>1. ASSUME NEW p \in Agents,
             \/ \E q \in Protocols : CreateProtocol(p, q) \/ FreezeProtocol(p, q)
             \/ \E s \in StatusesTried : UpdateStatus(p, s)
             \/ RecordEvidence(p) \/ GenerateReport(p)
      PROVE  RunInv'
  <2>1. pc[p] = "idle"
    BY <1>1 DEF CreateProtocol, FreezeProtocol, UpdateStatus, RecordEvidence, GenerateReport
  <2> QED  BY <1>1, <2>1, CallsStart
<1>2. CASE UNCHANGED runVars
  BY <1>2 DEF runVars, runFiles, runHistory, runLocals, RunInv, RunTypeOK, CallsFit, IsFrozen,
              BindingIsFrozen, ActiveIsRecorded, RecordsUnderActiveProtocols
<1> QED  BY <1>1, <1>2, CallsReturn, CallsAdvance, EditKeeps, TouchKeeps DEF RunNext

-----------------------------------------------------------------------------
\* The inductive invariant holds in every state of every behaviour.
THEOREM RunInvHolds == RunSpec => []RunInv
BY RunInitInv, RunStep, PTL DEF RunSpec

\* Every variable keeps its type (RunTypeOK).
THEOREM RunTypeCorrect == RunSpec => []RunTypeOK
<1>1. RunInv => RunTypeOK
  BY DEF RunInv
<1> QED  BY <1>1, RunInvHolds, PTL

\* A run is bound only to a protocol that was frozen before it was bound:
\* freeze_protocol's order of writes, against any interleaving and any crash.
THEOREM BindingsAreFrozen == RunSpec => []BindingIsFrozen
<1>1. RunInv => BindingIsFrozen
  BY DEF RunInv
<1> QED  BY <1>1, RunInvHolds, PTL

\* Every method record and every report was made under a protocol that the run was
\* active under, though records are written long after the run was looked at and
\* status changes write back copies of the run that they read before.
THEOREM RecordsAreUnderActiveProtocols == RunSpec => []RecordsUnderActiveProtocols
<1>1. RunInv => RecordsUnderActiveProtocols
  BY DEF RunInv
<1> QED  BY <1>1, RunInvHolds, PTL

-----------------------------------------------------------------------------
(***************************************************************************)
(* Calls that come one after the other.  The one call under way remembers  *)
(* the run as it still is, freezes only in drafts, records and reports only*)
(* in active runs, and completes only what it found complete.              *)
(***************************************************************************)
Busy(p) == pc[p] # "idle"

OneCall == \A o, r \in Agents : Busy(o) /\ Busy(r) => o = r

CallFits(p) ==
  /\ Busy(p) => saved[p] = run
  /\ pc[p] \in {"create", "freeze", "bind"} => run.status = "draft"
  /\ pc[p] \in {"record", "hash", "report", "list"} => run.status = "active"
  /\ pc[p] = "status" /\ arg[p] = "completed" => Audited

AloneInv ==
  ~overlapped => /\ OneCall
                 /\ \A p \in Agents : CallFits(p)
                 /\ run.status = "completed" => Audited

\* What a step does to every other call: nothing.
Only(p) == \A o \in Agents \ {p} : pc'[o] = pc[o] /\ arg'[o] = arg[o] /\ saved'[o] = saved[o]

LEMMA ReturnShows ==
  ASSUME RunTypeOK, NEW p \in Agents, Return(p)
  PROVE  pc'[p] = "idle" /\ Only(p)
BY DEF RunTypeOK, Return, Only

\* A check that finds nothing to report has found the run audited.
LEMMA NoBlockersIsAudited == Verified(run) /\ Blockers = {} => Audited
<1> SUFFICES ASSUME Verified(run), Blockers = {} PROVE Audited
  OBVIOUS
<1>1. Unmet = {} /\ report # None
  BY DEF Blockers
<1>2. report = [version |-> evidence.version, store |-> store, protocol |-> run.protocol]
  BY <1>1 DEF Blockers
<1> QED  BY <1>1, <1>2 DEF Audited

\* A call that starts first and is alone has just read the run.
LEMMA AloneStarts ==
  ASSUME RunTypeOK, AloneInv, NEW p \in Agents, NEW step \in Steps \ {"idle"}, NEW a,
         StartCall(p, step, a), pc[p] = "idle",
         step \in {"create", "freeze", "bind"} => run.status = "draft",
         step \in {"record", "hash", "report", "list"} => run.status = "active",
         ~(step = "status" /\ a = "completed")
  PROVE  AloneInv'
<1> SUFFICES ASSUME ~overlapped' PROVE AloneInv'
  BY DEF AloneInv
<1>1. ~overlapped /\ \A o \in Agents \ {p} : pc[o] = "idle"
  BY DEF StartCall
<1>2. /\ pc'[p] = step /\ arg'[p] = a /\ saved'[p] = run /\ Only(p)
      /\ UNCHANGED <<run, evidence, report>>
  BY DEF StartCall, RunTypeOK, runFiles, Only
<1>3. Audited' = Audited
  BY <1>2 DEF Audited, Unmet
<1> QED  BY <1>1, <1>2, <1>3 DEF AloneInv, OneCall, CallFits, Busy, Only

\* A call that returns leaves the run audited, if it is complete then.
LEMMA AloneReturns ==
  ASSUME RunTypeOK, AloneInv, NEW p \in Agents, Return(p), Busy(p), UNCHANGED overlapped,
         ~overlapped /\ run'.status = "completed" => Audited'
  PROVE  AloneInv'
<1> SUFFICES ASSUME ~overlapped PROVE AloneInv'
  BY DEF AloneInv
<1>1. pc'[p] = "idle" /\ Only(p)
  BY ReturnShows
<1>2. \A o \in Agents : pc'[o] = "idle"
  BY <1>1 DEF AloneInv, OneCall, Busy, Only
<1> QED  BY <1>2 DEF AloneInv, OneCall, CallFits, Busy

\* A call that goes on leaves the run as it is.
LEMMA AloneAdvances ==
  ASSUME RunTypeOK, AloneInv, NEW p \in Agents, NEW x \in Steps \ {"idle"}, Step(p, pc[p], x),
         Busy(p), UNCHANGED <<run, arg, saved, overlapped>>,
         UNCHANGED evidence, UNCHANGED report \/ (~overlapped => run.status = "active"),
         x \in {"create", "freeze", "bind"} => pc[p] \in {"create", "freeze", "bind"},
         x \in {"record", "hash", "report", "list"} => pc[p] \in {"record", "hash", "report", "list"},
         x = "status" => UNCHANGED report /\ (arg[p] = "completed" => Audited)
  PROVE  AloneInv'
<1> SUFFICES ASSUME ~overlapped PROVE AloneInv'
  BY DEF AloneInv
<1>1. pc'[p] = x /\ \A o \in Agents \ {p} : pc'[o] = pc[o] /\ pc[o] = "idle"
  BY DEF Step, RunTypeOK, AloneInv, OneCall, Busy
<1>2. UNCHANGED report => Audited' = Audited
  BY DEF Audited, Unmet
<1>3. OneCall'
  BY <1>1 DEF OneCall, Busy
<1>4. ASSUME NEW o \in Agents PROVE CallFits(o)'
  <2>1. CASE o = p
    BY <1>1, <1>2, <2>1 DEF AloneInv, CallFits, Busy
  <2>2. CASE o # p
    BY <1>1, <2>2 DEF CallFits, Busy
  <2> QED  BY <2>1, <2>2
<1>5. run'.status = "completed" => Audited'
  BY <1>2 DEF AloneInv
<1> QED  BY <1>3, <1>4, <1>5 DEF AloneInv

LEMMA AloneStep ==
  ASSUME RunInv, AloneInv, [RunNext]_runVars
  PROVE  AloneInv'
<1> USE DEF RunInv
<1>1. ASSUME NEW p \in Agents, NEW q \in Protocols, CreateProtocol(p, q) PROVE AloneInv'
  BY <1>1, AloneStarts DEF CreateProtocol, Steps
<1>2. ASSUME NEW p \in Agents, NEW q \in Protocols, FreezeProtocol(p, q) PROVE AloneInv'
  <2>1. CASE protocols[q] = "frozen"
    BY <1>2, <2>1, AloneStarts DEF FreezeProtocol, Steps
  <2>2. CASE protocols[q] # "frozen"
    BY <1>2, <2>2, AloneStarts DEF FreezeProtocol, Steps
  <2> QED  BY <2>1, <2>2
<1>3. ASSUME NEW p \in Agents, NEW s \in StatusesTried, UpdateStatus(p, s) PROVE AloneInv'
  <2>1. CASE s \in {"active", "completed"}
    BY <1>3, <2>1, AloneStarts DEF UpdateStatus, Steps
  <2>2. CASE s \notin {"active", "completed"}
    BY <1>3, <2>2, AloneStarts DEF UpdateStatus, Steps
  <2> QED  BY <2>1, <2>2
<1>4. ASSUME NEW p \in Agents, RecordEvidence(p) PROVE AloneInv'
  BY <1>4, AloneStarts DEF RecordEvidence, Recording, Steps
<1>5. ASSUME NEW p \in Agents, GenerateReport(p) PROVE AloneInv'
  BY <1>5, AloneStarts DEF GenerateReport, Recording, Steps
<1>6. ASSUME NEW p \in Agents, WriteProtocol(p) PROVE AloneInv'
  BY <1>6, AloneReturns DEF WriteProtocol, runHistory, Busy, AloneInv, Audited, Unmet
<1>7. ASSUME NEW p \in Agents, WriteFrozen(p) PROVE AloneInv'
  <2>1. /\ Step(p, "freeze", "bind") /\ UNCHANGED <<run, evidence, store, report, runLocals, runHistory>>
    BY <1>7 DEF WriteFrozen
  <2>2. /\ pc[p] = "freeze" /\ Busy(p) /\ Step(p, pc[p], "bind")
        /\ UNCHANGED <<run, arg, saved, overlapped>> /\ UNCHANGED evidence /\ UNCHANGED report
    BY <2>1 DEF Step, runLocals, runHistory, Busy
  <2>3. "bind" \in Steps \ {"idle"}
    BY DEF Steps
  <2> QED  BY <2>2, <2>3, AloneAdvances
<1>8. ASSUME NEW p \in Agents, Bind(p) PROVE AloneInv'
  <2>1. Return(p) /\ UNCHANGED overlapped /\ pc[p] = "bind"
    BY <1>8 DEF Bind, WriteRun
  <2>2. ~overlapped => saved[p].status = "draft" /\ run.status = "draft"
    BY <2>1 DEF AloneInv, CallFits, Busy
  <2>3. saved[p] \in Run
    BY DEF RunTypeOK
  <2>4. ~overlapped => run'.status = "draft"
    BY <1>8, <2>2, <2>3 DEF Bind, WriteRun, Run
  <2> QED  BY <2>1, <2>4, AloneReturns DEF Busy
<1>9. ASSUME NEW p \in Agents, VerifyStatus(p) PROVE AloneInv'
  <2>1. CASE Verified(run) /\ (arg[p] = "completed" => Blockers = {})
    <3>1. /\ Step(p, "check", "status") /\ UNCHANGED <<runFiles, runLocals, runHistory>>
      BY <1>9, <2>1 DEF VerifyStatus
    <3>2. /\ pc[p] = "check" /\ Busy(p) /\ Step(p, pc[p], "status")
          /\ UNCHANGED <<run, arg, saved, overlapped>> /\ UNCHANGED evidence /\ UNCHANGED report
      BY <3>1 DEF Step, runFiles, runLocals, runHistory, Busy
    <3>3. "status" \in Steps \ {"idle"}
      BY DEF Steps
    <3> QED  BY <2>1, <3>2, <3>3, NoBlockersIsAudited, AloneAdvances
  <2>2. CASE ~(Verified(run) /\ (arg[p] = "completed" => Blockers = {}))
    <3>1. pc[p] = "check" /\ Return(p) /\ UNCHANGED <<runFiles, runHistory>>
      BY <1>9, <2>2 DEF VerifyStatus
    <3> QED  BY <3>1, AloneReturns DEF runFiles, runHistory, Busy, AloneInv, Audited, Unmet
  <2> QED  BY <2>1, <2>2
<1>10. ASSUME NEW p \in Agents, WriteStatus(p) PROVE AloneInv'
  <2> DEFINE r == [saved[p] EXCEPT !.status = arg[p]]
  <2>1. Return(p) /\ UNCHANGED <<overlapped, evidence, report>> /\ pc[p] = "status"
    BY <1>10 DEF WriteStatus, WriteRun
  <2>2. saved[p] \in Run
    BY DEF RunTypeOK
  <2>3. r.protocol = saved[p].protocol /\ r.status = arg[p]
    BY <2>2 DEF Run
  <2>4. run' = r \/ run' = run
    BY <1>10 DEF WriteStatus, WriteRun
  <2>5. ~overlapped => run'.protocol = run.protocol
    BY <2>1, <2>3, <2>4 DEF AloneInv, CallFits, Busy
  <2>6. ~overlapped => Audited' = Audited
    BY <2>1, <2>5 DEF Audited, Unmet
  <2>7. ~overlapped /\ run'.status = "completed" => Audited
    BY <2>1, <2>3, <2>4 DEF AloneInv, CallFits
  <2> QED  BY <2>1, <2>6, <2>7, AloneReturns DEF Busy
<1>11. ASSUME NEW p \in Agents, WriteEvidence(p) PROVE AloneInv'
  <2>1. pc[p] = "record" /\ Return(p) /\ UNCHANGED <<run, overlapped>>
    BY <1>11 DEF WriteEvidence, runHistory
  <2>2. ~overlapped => run.status = "active"
    BY <2>1 DEF AloneInv, CallFits
  <2> QED  BY <2>1, <2>2, AloneReturns DEF Busy
<1>12. ASSUME NEW p \in Agents, HashRecords(p) PROVE AloneInv'
  <2>1. /\ Step(p, "hash", "report") /\ UNCHANGED <<runFiles, arg, saved, runHistory>>
    BY <1>12 DEF HashRecords
  <2>2. /\ pc[p] = "hash" /\ Busy(p) /\ Step(p, pc[p], "report")
        /\ UNCHANGED <<run, arg, saved, overlapped>> /\ UNCHANGED evidence /\ UNCHANGED report
    BY <2>1 DEF Step, runFiles, runHistory, Busy
  <2>3. "report" \in Steps \ {"idle"}
    BY DEF Steps
  <2> QED  BY <2>2, <2>3, AloneAdvances
<1>13. ASSUME NEW p \in Agents, WriteReport(p) PROVE AloneInv'
  <2>1. pc[p] = "report" /\ UNCHANGED <<run, evidence, overlapped>>
    BY <1>13 DEF WriteReport, runHistory
  <2>2. ~overlapped => run.status = "active"
    BY <2>1 DEF AloneInv, CallFits
  <2>3. CASE saved[p].listed
    <3>1. Return(p)
      BY <1>13, <2>3 DEF WriteReport
    <3> QED  BY <2>1, <2>2, <3>1, AloneReturns DEF Busy
  <2>4. CASE ~saved[p].listed
    <3>1. Step(p, "report", "list") /\ UNCHANGED runLocals
      BY <1>13, <2>4 DEF WriteReport
    <3>2. Busy(p) /\ Step(p, pc[p], "list") /\ UNCHANGED <<arg, saved>>
      BY <2>1, <3>1 DEF Step, runLocals, Busy
    <3>3. "list" \in Steps \ {"idle"}
      BY DEF Steps
    <3> QED  BY <2>1, <2>2, <3>2, <3>3, AloneAdvances
  <2> QED  BY <2>3, <2>4
<1>14. ASSUME NEW p \in Agents, ListReport(p) PROVE AloneInv'
  <2>1. Return(p) /\ UNCHANGED <<overlapped, evidence, report>> /\ pc[p] = "list"
    BY <1>14 DEF ListReport, WriteRun
  <2>2. saved[p] \in Run
    BY DEF RunTypeOK
  <2>3. ~overlapped => run'.status = "active"
    BY <1>14, <2>1, <2>2 DEF ListReport, WriteRun, AloneInv, CallFits, Busy, Run
  <2> QED  BY <2>1, <2>3, AloneReturns DEF Busy
<1>15. ASSUME NEW p \in Agents, Crash(p) PROVE AloneInv'
  <2>1. Busy(p) /\ Return(p) /\ UNCHANGED <<runFiles, runHistory>>
    BY <1>15 DEF Crash, Busy
  <2> QED  BY <2>1, AloneReturns DEF runFiles, runHistory, AloneInv, Audited, Unmet
<1>16. CASE EditProtocol
  BY <1>16 DEF EditProtocol, runLocals, runHistory, AloneInv, OneCall, CallFits, Busy, Audited, Unmet
<1>17. CASE TouchStore
  BY <1>17 DEF TouchStore, runLocals, runHistory, AloneInv, OneCall, CallFits, Busy, Audited, Unmet
<1>18. CASE UNCHANGED runVars
  BY <1>18 DEF runVars, runFiles, runLocals, runHistory, AloneInv, OneCall, CallFits, Busy, Audited, Unmet
<1> QED  BY <1>1, <1>2, <1>3, <1>4, <1>5, <1>6, <1>7, <1>8, <1>9, <1>10, <1>11, <1>12, <1>13,
            <1>14, <1>15, <1>16, <1>17, <1>18 DEF RunNext

LEMMA AloneHolds == RunSpec => [](RunInv /\ AloneInv)
<1>1. RunInit => AloneInv
  BY FreshIsRun DEF RunInit, AloneInv, OneCall, CallFits, Busy
<1> QED  BY <1>1, AloneStep, RunInvHolds, PTL DEF RunSpec

\* While calls come one after the other, even calls that die half way, a completed run
\* has the method records its protocol asks for and a report that covers them
\* (CompletedIsAudited), whatever the evidence store adds and whoever edits the protocol.
THEOREM CompletedRunsAreAudited == RunSpec => []CompletedIsAudited
<1>1. RunInv /\ AloneInv => CompletedIsAudited
  BY DEF AloneInv, CompletedIsAudited
<1> QED  BY <1>1, AloneHolds, PTL

\* Only a call that binds changes the binding, and alone it finds a draft.
LEMMA BindingMoves ==
  ASSUME RunInv, AloneInv, [RunNext]_runVars, ~overlapped, run.status # "draft"
  PROVE  run'.protocol = run.protocol
<1> SUFFICES ASSUME ~UNCHANGED run PROVE run'.protocol = run.protocol
  OBVIOUS
<1>1. PICK p \in Agents : Bind(p) \/ WriteStatus(p) \/ ListReport(p)
  BY DEF RunNext, runVars, runFiles, CreateProtocol, FreezeProtocol, UpdateStatus, StartCall,
         WriteProtocol, WriteFrozen, VerifyStatus, RecordEvidence, WriteEvidence, GenerateReport,
         HashRecords, WriteReport, EditProtocol, TouchStore, Crash
<1>2. ~Bind(p)
  BY DEF Bind, AloneInv, CallFits
<1>3. saved[p] = run /\ run \in Run
  BY <1>1, <1>2 DEF WriteStatus, ListReport, AloneInv, CallFits, Busy, RunInv, RunTypeOK
<1> QED  BY <1>1, <1>2, <1>3 DEF WriteStatus, ListReport, WriteRun, Run

\* While calls come one after the other, the binding changes only in a draft
\* (BindingFixedAfterDraft): freeze_protocol's look at the status is enough then.
THEOREM BindingsAreFixed == RunSpec => BindingFixedAfterDraft
<1>1. RunInv /\ AloneInv /\ [RunNext]_runVars
        => [~overlapped /\ run.status # "draft" => run'.protocol = run.protocol]_runVars
  BY BindingMoves
<1> QED  BY <1>1, AloneHolds, PTL DEF RunSpec, BindingFixedAfterDraft
=============================================================================
