# Verification of the Polder research pipeline

TLA+ models of `polder_research`, the TLC runs that check them on small
instances, and TLAPS proofs for every value of the constants. Line numbers are
those of the sources at the modelled commit; `PROJECT.json` maps every
definition to its lines.

## The system

The pipeline has no server of its own and no database. Agents, command-line
calls and a local web console are separate processes that share a directory of
JSON records. A record is written by `write_atomic`: validated against its JSON
schema, written to a temporary file and renamed over the old one, so a reader
sees the old or the new record, never half of one. Everything else follows from
who reads what, and when, before such a write. The few files written otherwise
are the queue of the intake and the downloads of models.


| component | state | operations | what can go wrong |
|---|---|---|---|
| tasks, leases (`tasks`, `locking`) | task files, `locks/<token>.json`, advisory locks | create, update status, acquire and release a lease | two holders of a lease; an old holder ends a new one's; a crash between two writes; duplicates |
| runs, protocols (`runs`, `research_methods`) | run file, protocol files | create, freeze, bind, change status | stale copies written back; activation without a protocol; crash between protocol and run |
| searches, candidates (`research_methods`) | search and candidate files | record a search, register a hit | two canonical candidates of one paper |
| screening (`research_methods`) | decision files, append-only | decide, adjudicate | decisions that arrive between a check and its write; two rules for one outcome |
| extraction (`research_methods`) | extraction files, append-only | extract, adjudicate | as above |
| completion, report (`research_methods`) | report file, run status | appraise, count, generate a report, complete | counts that do not add up; evidence from another source; a stale report |
| evidence store (`evidence`) | sources, segments, claims, entities, gaps, conflicts, edges | register, acquire, link | dangling references, missed duplicates, replaced content |
| intake (`scripts/intake`) | intake records, the queue in `manifest.md`, sources | register a file or a manifest, acquire, change a status | lost rows, crash between record and row, a batch that fails half way |
| classification (`classification`, `classification_ops`, `classification_review`) | classification records, replay manifests, locks, reviews | classify, replay, resume, review | broken attempt chains, resumes that overlap or lose results, two active reviews |
| decisions (`decision`) | attempts, policy results, the view of effective metadata | run a decision, rebuild the view | broken chains, a crash between attempt and result, a view written from old records |
| handoffs, events | handoff files, event log | write, accept, reject, append | answers that race and write back a record read before |
| agents, workflow, maintenance | none | role lookup, snapshot and health derivations | pure functions |
| web console (`web`) | configuration file, saved keys, per console the revision check's lock and a download | load and save the configuration, save a key, download the local model, restart | a text overwritten that its author never saw, a key lost, two downloads at once, a browser that can never save again |

Components meet in the record files and in a few calls: `update_run_status`
asks `research_methods` for the protocol and the completion blockers, every
`research_methods` operation reads the run first, screening and extraction name
source records of the evidence store, intake registers sources, classification
writes records about segments and claims, and the audit report hashes everything
a review used.

The hard parts are interleavings of processes that read, check and write without
a lock (only `tasks` and parts of classification take one), crashes between two
writes of one call, status changes that know no transitions, and rules stated
twice. They are listed with their lines under `hazards` in `PROJECT.json`.

## Modules

| module | models |
|---|---|
| `ExclusiveLease` | what a lease promises, whatever implements it |
| `TaskLease` | `tasks` and `locking`: the task files, their locks, the clock, crashes |
| `TaskLeaseProofs` | its inductive invariant, safety theorems and refinement |
| `RunProtocol` | `runs` and the run and protocol side of `research_methods` |
| `RunProtocolProofs` | its inductive invariant and safety theorems |
| `ReviewTeam` | what the next three share: candidates, the panel of reviewers, sources, concurrent callers |
| `Retrieval` | `record_search`, `register_candidate`, the deduplication key |
| `Screening` | decisions, adjudication, `_final_decision`, the rule of `screening_flow` |
| `Extraction` | extractions, their adjudication, `_final_extraction` |
| `ReviewProofs` | invariants and safety theorems of these three; settled stages and values stay settled |
| `SystematicReview` | the three composed with appraisals, the flow counts, the completion check, the report and completion |
| `SystematicReviewProofs` | the invariants of the parts in the composition; what a completed review rests on, and its counts |
| `Classification` | `classify_text`: configuration, locks, attempts, providers; registrars that call it; edits by a curator |
| `ReplayJob` | `replay_existing` on top of it: a job, its manifest, workers, batches, crashes, resumes |
| `ReplayProofs` | invariants of both: types, chains of attempts, what a manifest rests on |
| `CountProofs` | what a manifest counts, while each version is written once |
| `Calls` | what the next ones share: callers, their steps, whether calls ever overlapped |
| `EvidenceStore` | sources and the records that cite them |
| `Intake` | `scripts/intake` on top of it: intake records, the queue, batches, acquisition, status changes, crashes |
| `IntakeProofs` | invariants and safety theorems of both |
| `DecisionEngine` | `run_decision`: attempts, policy results, reuse |
| `Answers` | what becomes of a provider's answers: validation, threshold, who may accept |
| `ClassificationReview` | `record_review`, supersession, the view of effective metadata, on top of it |
| `ControlPanel` | consoles and their browsers: the configuration and its revisions, keys, model downloads, restarts |
| `Handoffs` | `write_handoff`, `accept_handoff`, `reject_handoff` |
| `Decisions` | these side by side, with crashes |
| `DecisionProofs` | an invariant of each part, their framing, what the view is built as, safety theorems |
| `MC...` | the instances TLC checks |

Correspondence, module by module:

* **TaskLease.** A call is `Call` (arguments checked), `Lock`, reads (`ScanOne` per
  file for `write_task`, one `Read...` for the others), `Write`, for a lease
  `WriteLeaseFile`, then `Unlock`. `pc`, `op`, `target`, `token`, `draft` and
  `unread` are the local variables of the call. `Crash` may come at any of
  these points; the operating system drops the lock and the tokens the process
  knew are gone. Tokens are numbered in the order they are minted. `grants`,
  `ended`, `returned` and `reopened` are history.
* **RunProtocol.** A call reads the run into `saved` and later writes a record
  built from it. `Verified` is `_frozen_for_run`'s check of the binding and the
  digest; a protocol edited by hand is `"edited"` and fails it, and so fails
  `validate_run_for_completion`, which is the blocker `"protocol"`. The method
  records are one version number, whether they satisfy the protocol, and the
  protocols they were recorded under. The sources, claims and conflicts that the
  audit report hashes too are a second version number (`store`), which `TouchStore`
  raises whatever the status of the run, as the evidence store looks at no run. A
  write of a run may be refused by the run schema (`SchemaValid`), which asks an
  active or completed systematic run for its protocol.
* **Retrieval, Screening, Extraction.** Each operation is two steps: the checks
  and the minting of an id, and the write. A uuid7 sorts by its time, so ids
  are numbers in the order of minting. A call that dies between the two leaves
  nothing, which is a behaviour in which its second step is never taken.
  `overlapped` (in `ReviewTeam`, and in `RunProtocol`) is history: whether a call
  ever began during another. Properties that only hold while calls come one after
  the other start with `~overlapped`, so one run states both what races cannot
  break and what only they can.
* **SystematicReview.** Registrations may race with each other and extractions with
  each other; calls of different kinds come one after the other (`Quiet`), and
  screening races in its own run. The report is none, fresh or stale instead of a
  set of hashes; `Touch` is the effect of any record the report would index.

* **Classification, ReplayJob.** A request is a target, its input and policy, the
  provider, and the edition of the configuration; an input is what the limit
  (`max_input_chars`) of the configuration leaves of a text (`Clip`), and only it, not the
  limit, is part of a request. A job clips by the limit it started with, `classify_text`
  twice more by the limits it reads. `call` holds where each caller
  is between `Classify` (the reading of the configuration that names the lock),
  `LockAndScan` (the second reading, the gate before the hosted provider, the
  search for earlier records) and `Answer`. A worker's run holds the job as it
  last wrote it, the evidence as it read it under the lock (`live`), the targets
  passed and the local batch; every `Persist` writes a version. Only the latest
  version is kept, as nothing reads another, and `rewritten` is history: a
  version was written twice. `crossed` is history too: requests worked on under
  the lock of another, which takes an edit of the configuration between its two
  readings. Scores, questions and answers are one choice of disposition;
  provider routing by kind is one default provider. A local batch is answered from
  texts clipped by the limit of the job and recorded under the request as it is read
  then; answers are choices here, so the model does not tell these two apart.

* **EvidenceStore, Intake.** A registration works through the items of its job:
  `Resolve` (the search for a source of the same URL, then of the same content),
  `RegisterSource` or `CheckAcquire` and `WriteAcquire`, `CheckRecord` and
  `WriteRecord`, and, after the last item, `WriteQueue` with the text it read when it
  began. A refused acquisition ends the call where it is. Content stands for its
  digest; the intake id is the pair of content and kind. A record that cites sources
  is looked up (`CheckEvidence`) and written later, with the content the caller
  quotes from (`seen`). A crash in `WriteQueue`, which does not go through
  `write_atomic`, may leave the queue empty. `interrupted` is history.
* **DecisionEngine, ClassificationReview.** `RunDecision` lists the attempts at
  the fingerprint, `ReuseOrAsk` looks for a completed one with a policy result, then
  the provider's outcome becomes an attempt and its result a second record.
  `RecordReview` and `CheckConflicts` are the two readings of the reviews in
  `record_review`. `BuildView` is the loop of `build_effective_projection`, and
  `ViewShowsWhoDecides` says what it should show without repeating the loop. A
  classification is what `FieldDecisions` makes of a provider's answers: probabilities
  are counted in hundredths, so `1 - threshold` and the sum of a distribution are exact,
  which floating point is not. The answers tried include some that fail validation.
* **ControlPanel.** A request is served by a thread: `SaveConfig` is its arrival with the
  revision the browser sends, `Compare` takes the console's lock and checks revision and
  text, `StoreConfig` writes and `Reply` answers; `ReadKeys` and `WriteKeys` are the two
  halves of a change under the workspace's lock, where unreadable keys count as none.
  `SpawnFails` is a thread that cannot be started after the status said "downloading". A
  text of the file stands for its own revision. `Restart` is a console that is stopped and
  started: its requests and its download are gone, what browsers show is not. `seen`,
  `wanted`, `crossed`, `blind`, `unread` and `stranded` are history. The dashboard, the
  health of providers and their connection test only read. (The health of the remote
  provider looks for `api_key_env` one level too deep and so only ever finds the default
  name; as nothing is decided by it, it is not modelled.)
* **Handoffs.** An answer reads the record and writes it back in a second step. The
  code keeps `accepted_at` when a later answer rejects, and the other way round:
  `traces` are these fields, `given` is the history they are compared with.

Definitions named as mutants in the modules are plausible mistakes. They take no
part in the models; replacing the definition after them by one of them makes the
property they belong to fail, which shows that the property depends on the code.

## Runs

| run | shows | bounds |
|---|---|---|
| `TaskLease` | exclusive leases that only owners, administrators or time end; records before files and tokens; twins only by reopening; every call returns; the refinement of `ExclusiveLease`; the inductive invariant | 2 tasks, 2 processes, 4 calls, leases of 1 tick, 2 ticks; no symmetry, for the liveness property |
| `RunProtocol` | bindings are frozen, records and reports are made under protocols the run was active under, the inductive invariant; without overlap, the method records of completed runs stay complete and reported, and bindings change only in draft | 2 callers, 2 protocols, 2 evidence records, 1 change of the evidence store |
| `RunProtocolSecond` | violated: a run is only ever active under one protocol | 1 caller, no change of the store |
| `RunProtocolStaleReport` | violated: complete evidence can be reported | 1 caller, no change of the store |
| `Screening` | adjudications rest on recorded disagreement, both outcome rules agree when both decide; without overlap, one decision per reviewer, full texts only of included records, settled stays settled | 1 candidate, 3 reviewers of 2 groups, 2 writers, 4 records at the first stage and 2 at the second |
| `ScreeningLateReviewer` | violated: a disagreement can be resolved | 3 reviewers, 1 writer |
| `SystematicReview` | duplicates name canonical candidates, adjudicated extractions keep their inputs, a settled value stays; with a panel of two, included studies of a completed review rest on one source and its counts add up | 2 candidates, 2 reviewers, 2 callers, 2 sources, 1 field, 7 decisions and extractions |
| `ReplayJob` | attempts at a request form one chain, completed targets are backed by records of what the job froze, clipped by the limit in force then, no attempt goes uncounted, completed targets stay so | 2 targets, 2 workers, 2 runs, 1 registrar with 1 call, 1 edit, 3 texts of which 2 are one under the first limit, a local and a hosted provider |
| `ReplayJobSecondResume` | violated: manifests are append-only | as above |
| `Intake` | listed items have their sources and records, evidence cites what is there; without overlap, segments quote what their source still holds, no two sources share content, queue and records agree | 2 processes, 2 files of different content, 1 link, 2 kinds, 2 statuses, 3 calls, batches of 1 and 2 items, 2 records that cite |
| `Decisions` | retries continue an attempt at their request; only rules accept a field; a handoff says what it was answered last; browsers of one console overwrite only what they have seen; saved keys stay; one download at a time; without overlap, attempts form one chain, reviews are reconciled, the view shows who decides each field, and every answer to a handoff left its trace | 2 processes, 4 calls (3 for overlapping reviews and for settings), 2 requests of which 1 is denied, 2 targets, a choice of 2 labels and a tag, 3 sets of answers, 2 classifications, 2 consoles, 3 texts, 2 names of keys, 1 edit by hand, 2 handoffs |
| `DecisionsReply` | violated: a browser that saved the text of the file holds its revision | 1 browser, 1 console |

Why the bounds suffice: a property about leases needs two holders, an expiry, a creation and
a release, hence two processes, two tasks and four calls; races between a check and a write
need two processes and one record each; a stage has room for three independent decisions and
the one adjudication the code allows, and a field for two values and their adjudication. A
replay needs two targets for a batch, two workers for a race, a second run for a resume and
a registrar for a request that somebody else answers; one edit is enough to make any two
readings differ. Intake needs a batch that meets a link already registered, and three calls:
a registration, what races it or dies, and the call that finds the result. Reviews conflict
in part with a classification, two reviews of one field each and a third of both, which is
four calls; four calls also give a chain of attempts a failure, a death between the two
writes, and a reuse. A save that must be refused takes two browsers of one console, and a
third call to save once more; the other console and the edit by hand make the cases the check
does not cover. The parts of `Decisions` share no record, and no guard of one reads a
variable of another but the counter of calls, so the constraint `OnePart` explores them one
at a time: a run that interleaves two of them looks to each like a run of its own. In
`SystematicReview` the two hits are one paper, so its second registration is a duplicate, or
a second canonical candidate when the registrations race; such a review can never complete,
and the constraint `KeysAreUnique` follows it no further. Symmetry is used over tasks,
agents, candidates, reviewers of one standing, processes, sources and values, never in a run
with a liveness property. Deadlock is not checked where the bounds end every behaviour (a
last call, a last record, the end of the clock); the `RunProtocol` runs check it, as a run
can always be read again.

Fairness: only `TaskLease` states a liveness property, under weak fairness of
`Proceed` for every process: a process that entered a call keeps executing
unless it dies. Weak fairness is enough, and no process waits on a lock for ever,
because a call takes one lock, makes one pass, and the number of calls is
bounded; `flock` itself promises no order among waiters, and with unboundedly
many calls a waiter could starve.

The violated runs are real disagreements between the code and its own documentation, tests
or messages; `findings` in `PROJECT.json` quotes both. More such behaviours show as the
guards of properties that hold: `release_lease` puts a task back to pending even when its
worker completed it first, though `agents/common.md:43` draws no way out of "completed", and
`write_task` may write a second open task of a signature when another is reopened under its
own lock meanwhile (`TwinsNeedReopening`),
`freeze_protocol` may rebind an active run and turn it into a draft when it overlaps the
activation (`BindingFixedAfterDraft`), two callers may work on one request at once when the
configuration is edited between their locks and their work (`AttemptsFormAChain` leaves such
requests out), racing registrations may leave two canonical candidates of a key
(`OneCanonicalPerKey`), a source known by its URL may hold other content than the file
registered under that URL (`RowsAreBacked`), two acquisitions of one source may replace what
a segment quotes (`EvidenceRests`), a batch whose acquisition is refused leaves records
without rows and a second name of content known in the same kind never gets a record of its
own, so its status cannot be set (`QueueMirrorsIntake`), a save on one console overwrites
that of another, or an edit made by hand between its comparison and its write, although
`knowledge-base/03-system/control-panel.md:18` says the revision check prevents it
(`SavesReplaceWhatWasSeen`, guarded by `crossed`), an unreadable file of keys is taken
for an empty one and the next save drops all keys (`SavedKeysStay`), a review that
conflicts with several reviews need supersede only one of them, which leaves two in force on
one field (`ReviewsAreReconciled`), claims and conflicts added after completion make the
audit report of a completed run stale, and an edited protocol makes its check fail, without
a trace in the run (`CompletedIsAudited` speaks of the method records and the protocol of
the report only), a completed target may rest on another clip of its text than the one its
manifest names when the limit was raised between (`CompletedIsBacked`), and a model download
whose thread could not be started refuses every other until the console is restarted
(`OneModelLoads`). Guards such as `~overlapped`, `~interrupted` and `crossed` leave these
races out of a property; the notes under
`hazards` in `PROJECT.json` say of each such hazard what is left to its properties.

One was found by an attempt at a proof. With three reviewers, two include the title and
the full text of a record, and the third then excludes its title; an adjudication
excludes it too. The check of completion passes over a record whose title is not
included (`validate_run_for_completion`, line 1177 of `research_methods`), so nothing asks for its
appraisal or its extractions, but `screening_flow` still counts its full text as an included
study. Hence `IncludedStudiesRestOnOneSource` and `FlowBalances` are stated for a
panel of two; with a third reviewer in the `SystematicReview` instance TLC finds both
violated. The run itself has two reviewers.

## Proofs

All theorems hold for any sets of tasks, signatures, processes and protocols, any
lease durations and any bounds, under the assumptions named in the modules: lease
durations are positive (`TTLsPositive`; `acquire_lease` refuses others), the lock
and the null value are not task or agent names (`NamesDistinct`), the statuses
asked for are statuses (`StatusesKnown`), bounds are numbers.

Every safety invariant and every action property of the passing runs is the subject of a
theorem.

* `TaskLeaseProofs`. The invariant `OneLeaseInForce` is not inductive. `LeaseInv`
  adds that a process between its lock and its return holds that lock
  (`LocksHeld`), that therefore what it read still fits the record when it writes
  (`DraftsStillFit`), that a task being created is nobody else's
  (`CreatesAreFresh`), that no two grants share a token (`TokensUnique`), and
  that a grant in force is the lease in the record (`GrantsRecorded`).
  `LeasesAreExclusive` follows from the last, `OwnersEndLeases` and `Refinement`
  from the step lemmas: an abstract grant is `Write` of an acquire, an abstract
  release is `Write` of a release, every other step but `Tick` is a stutter.
* `RunProtocolProofs`. `RunInv` adds to `BindingIsFrozen` that what each call
  remembers of the run is bound to a frozen protocol, that the argument of a
  call about to bind is frozen, and that a call about to write a record or a report
  read a run that was active then (`CallsFit`); with `ActiveIsRecorded` this is
  `RecordsUnderActiveProtocols`. Protocol files never leave the set
  {frozen, edited}, which is why a stale copy of the run is harmless to the
  binding, though not to the status.

  `AloneInv` adds, for calls that come one after another, that what the only call under way
  read of the run and of the records is still so: from it follow `CompletedRunsAreAudited`,
  as completion checks the blockers and nothing but the store or the protocol file can
  change before it writes, and `BindingsAreFixed`, as the draft that `freeze_protocol` read
  still is one.

* `ReviewProofs`. Records are only ever added, so what an adjudication or a duplicate
  rests on stays; the invariants `ReservedFit`, `PendingRests` and `ExtractingKeeps`
  say it of calls between their check and their write. `AloneSoFar` and
  `ScreeningAlone` say that without overlap at most one call is under way and what
  it checked is still true, which gives the properties guarded by `~overlapped`.
  Each component is proved on its own, with any number of racing callers.

  A panel of two settles a stage as soon as its votes agree. Independent decisions are
  those of the panel (`DecidedByPanel`), and without
  overlap a call on its way to a full text found the title and abstract included, and one
  on its way to an adjudication found disagreement (`Justified`). A settled stage then
  has nothing on its way to it (`NothingOnItsWay`): both reviewers have decided, and the
  one adjudication is made. That two reviewers are the whole panel is a fact about
  cardinality and needs the reviewers to be finitely many (`ReviewersAreFinite`). Values of
  extracted fields stay settled by the same argument.
* `SystematicReviewProofs`. A step of a whole review is a step of one part that leaves the
  records and calls of the others alone, or none, so the invariants of the parts hold
  of the composition (`PartsInv`), although registrations race with registrations and
  extractions with extractions. On top of them `ReviewInv` says that the decisions of a
  stage were made one by one and in order, and with a panel of two those on a full text
  only where the title stands included (`ScreenedInOrder`), that every candidate comes from a
  search on record and there are finitely many of both (`Traced`), and that a
  completed review still has what the check of completion asked for (`CompletedInv`).
  `IncludedStudiesAreSourced` follows, as the rule behind the counts and the one behind
  completion agree on settled stages.
  `CountsAddUp` compares cardinalities, and a sum over the searches with the number
  of candidates: `SumsAgree` and `AllRepresented` go by induction over subsets.
  `CountsOfAnyPanel` says what is left of the balance without the restriction to two
  reviewers: a late vote may leave a report assessed whose title no longer stands, but no
  result, no outcome and no report sought is lost from the counts.
* `DecisionProofs`. Each part has an invariant of its own records and of the calls in its
  phases. `EveryStepMoves` shows once that a step of `Next` moves one part and leaves the
  records and calls of the others as they are, so each invariant is proved against the
  steps of its own part. The panel's (`ConfigInv`) says that unless `crossed`, one thread
  saves at a time, the file still is what it compared with, and what a browser
  holds and what its user saw differ by at most the final newline.

  The view is a fold over the classifications. `DecidedAtLast` shows, by induction over
  sets of them, that the fold leaves a field to the last classification that decides it:
  to the newest of its reviews in force, or to the classification itself. `ViewInv`
  says of every view, also one on its way to be written, that where it names a
  classification it is one of the rules; and of calls that do not overlap, that a view
  under way is what would be built now, and that the view on disk is too, unless
  a call is between its record and the view or has died there (`interrupted`). That
  reviews have ids of their own, and that one is the newest, holds without overlap only.
* `IntakeProofs`. Records of intake only grow: sources are added and filled, never
  emptied, intake records and evidence are added. `FitsStays` says once that what a call,
  a row or a record needs of others is kept by any such growth, so a step has to
  show only that what it writes was backed when it wrote it. `IntakeInv` holds whatever
  races; `AloneInv` adds what a call alone found: content nobody else has, sources that
  still say what it quotes. Batches are not empty and hold items that are a file or a
  link (`BatchesHaveItems`; the parser of manifests refuses others), and the null value
  is no record (`NoneIsNoRecord`) and no status (`NoneIsNoStatus`).

  `MirrorInv`, of calls that neither overlapped nor died: where a call is about to write
  the queue, the text it carries already mirrors the records, or will with the one row it
  is still to change; everywhere else the queue on disk does. The text was read when
  the call began and only this call writes records, so `QueueMirrors` holds when it
  returns. Files that share content or a record are listed, but under no status that
  could be relied on (`Sole`).
* `TaskLeaseProofs`, once more: `TwinsInv` says that a scan under the lock of a signature
  has seen every task of the signature that is open, or still has it to read, so a
  twin can only come from a task that was closed when it was read.

* `ReplayProofs`. Every fact is stated of the records, the edition or the call it is about,
  so that it can be carried over a step that leaves them alone. `ChainInv` adds to
  `AttemptsFormAChain` that a call that asks a provider holds the number and the predecessor
  that its record will need, and that two calls asking hold different locks of requests; a
  call whose request was changed between its lock and its work is `crossed` and left out.
  `JobInv` adds to `CompletedIsBacked` that it holds of the copy of the manifest each worker
  carries, stale or not, and that the call a worker makes is for the target it is at, of a
  text the job froze, under an edition and a limit between those of the job and those of now
  (`MadeFor`), as neither ever falls. So the request is the job's own as long as they did
  not change: records are only added, so what backs a copy keeps backing it. That is why the
  property holds even when two resumes write one version twice.
* `CountProofs`. `CountInv` says that only the holder of the lock of the job is past it,
  that its job is the manifest on disk, and that for every record it may still bring (of
  the target it is at, or of its batch) an attempt is already counted on disk. It is
  guarded by `~rewritten`: a worker that read the manifest before it had the lock carries
  an older version, and its first write makes `rewritten` true (`Entered`).
  `AttemptsStayCounted` and `CompletedStaysForGood` follow.

  Both rest on what the modules assume of their constants: workers and registrars are
  different callers (`TwoKindsOfCallers`), the null value is none of the values it stands in
  for (`NoneIsNothing`, `NoneIsNoJob`), the targets are numbers in the order of the job's
  list (`TargetsAreListed`), what a limit leaves of a text is an input (`ClipsKnown`), and
  the configured providers, overrides, first evidence and dispositions are of their sets
  (`ProviderKnown`, `OverridesKnown`, `EvidenceKnown`, `DispositionsKnown`).

Type invariants are conjuncts of these inductive invariants and are not checked
by runs of their own, except where a run checks the whole invariant.

Sums and folds need induction over data, which no theorem of the library about
an arbitrary predicate can be used for here. Where it is needed, the property is stated as
a set: the subsets of a finite set that have it (`SubsetsAll`, `SubsetsHave`), which
contains all subsets by well-foundedness of their order; and a recursive function is never
unfolded but shown equal to any other that satisfies its equation.

Only model-checked: liveness (`CallsEnd`), which is outside the prover's reach.

## Not modelled, and the plan

What could be added, most useful first:

1. Registrations of sources that skip intake and give a DOI, which look for no duplicate.
2. The queue of one call that hands requests to the local model in batches (`decision/scheduler`).

Left out for good: JSON schema validation beyond the conditions a property needs,
path resolution, templates, command-line parsing, HTTP plumbing, calls to models
(their answers are inputs), and the derived views of `workflow` and `maintenance`,
which keep no state; the reports and gold labels of `classification_ops`, which only read
classifications; the event log, which nothing reads back to decide anything.
