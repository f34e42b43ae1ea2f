----------------------------- MODULE ReplayJob -----------------------------
(***************************************************************************)
(* Replay of existing evidence (classification_ops.replay_existing): a job *)
(* freezes a list of targets and classifies them one by one, or in a batch *)
(* when the provider runs in process, and writes a new version of its      *)
(* manifest at every step; a killed or unsatisfactory job is resumed from  *)
(* the latest version.  A lock keeps two replays of a job apart, but it is *)
(* taken after a resume has read the manifest.                             *)
(*                                                                         *)
(* One job is modelled: another has other files and another lock, and what *)
(* they share, the classification records, the registrars share as well.   *)
(* Nothing reads a manifest below the latest version, so only that one is  *)
(* kept; "rewritten" remembers that a version was written a second time.   *)
(***************************************************************************)
EXTENDS Classification

CONSTANTS Overrides,  \* bound: values of --provider, None for none
          MaxRuns     \* bound: runs of the replay command

ASSUME OverridesKnown == Overrides \subseteq Providers \cup {None}
ASSUME TargetsAreListed == Targets \subseteq Nat  \* the list's order

Settings == [enabled : BOOLEAN, edition : Nat, limit : Limits]
TargetStates == [provider : Providers, input : Inputs, attempts : Nat, record : Nat \cup {None},
                 status : {"pending", "running", "completed", "failed", "blocked", "disabled"}]
Jobs == [version : Nat, status : {"running", "completed", "completed_with_issues"},
         settings : Settings, targets : UNION {[T -> TargetStates] : T \in SUBSET Targets}]

ASSUME NoneIsNoJob == None \notin Workers \cup Jobs

VARIABLES manifest,  \* the latest version on disk, or None
          jobLock,   \* the worker that holds the job's lock, or None
          worker,    \* per worker, its run of the command
          runs,      \* runs so far
          rewritten  \* history: a manifest version was written twice

replayVars == <<manifest, jobLock, worker, runs, rewritten>>
vars == <<classificationVars, replayVars>>

NotRunning == [phase |-> "none"]
\* live: the evidence as the worker read it; done: targets its loop has passed;
\* batch: targets marked running whose local answers are still to come;
\* at: the target being classified
Run(phase, job) == [phase |-> phase, job |-> job, live |-> <<>>, done |-> {},
                    batch |-> <<>>, at |-> None]

Chosen(item, override) == IF override = None THEN DefaultProvider ELSE override
Blocked(provider, item) == provider = "jev" /\ item.policy = "sensitive"

\* A job's targets are the clipped texts, by the limit that it read.
NewTarget(item, provider) ==
  [provider |-> provider, input |-> Clip[item.text][config.limit], attempts |-> 0, record |-> None,
   status |-> IF Blocked(provider, item) THEN "blocked" ELSE "pending"]

(***************************************************************************)
(* Entering: the evidence, the configuration and the manifest are read     *)
(* before the lock is asked for.                                           *)
(***************************************************************************)
Present == {t \in Targets : evidence[t] # None}

Start(w) ==
  /\ runs = 0
  /\ \E o \in Overrides :
       /\ o = None => \A t \in Present : Selectable(evidence[t])
       /\ worker' = [worker EXCEPT ![w] = Run("entering",
            [version |-> 0, status |-> "running", settings |-> config,
             targets |-> [t \in Present |-> NewTarget(evidence[t], Chosen(evidence[t], o))]])]
  /\ runs' = runs + 1
  /\ UNCHANGED <<classificationVars, manifest, jobLock, rewritten>>

SameConfig == manifest.settings = config

Resume(w) ==
  /\ worker[w] = NotRunning /\ 0 < runs /\ runs < MaxRuns
  /\ manifest # None /\ SameConfig
  /\ worker' = [worker EXCEPT ![w] = Run("entering", [manifest EXCEPT !.status = "running"])]
  /\ runs' = runs + 1
  /\ UNCHANGED <<classificationVars, manifest, jobLock, rewritten>>

\* _write_job: the next version of the job at hand, over whatever has that name.
Persist(w, run) ==
  LET job == [run.job EXCEPT !.version = @ + 1]
      again == manifest # None /\ job.version <= manifest.version
  IN  /\ worker' = [worker EXCEPT ![w] = [run EXCEPT !.job = job]]
      /\ manifest' = IF again /\ job.version < manifest.version THEN manifest ELSE job
      /\ rewritten' = (rewritten \/ again)

WithTarget(w, t, target) == [worker[w] EXCEPT !.job.targets[t] = target]

Lock(w) ==
  /\ worker[w].phase = "entering"
  /\ jobLock = None
  /\ jobLock' = w
  /\ Persist(w, [worker[w] EXCEPT !.phase = "walking", !.live = evidence])
  /\ UNCHANGED <<classificationVars, runs>>

LockBusy(w) ==
  /\ worker[w].phase = "entering"
  /\ jobLock # None
  /\ worker' = [worker EXCEPT ![w] = NotRunning]
  /\ UNCHANGED <<classificationVars, manifest, jobLock, runs, rewritten>>

(***************************************************************************)
(* The loop over the list.                                                 *)
(***************************************************************************)
\* Mutant: a resume goes over every target.
UnfinishedAll == {"pending", "failed", "running", "completed"}
Unfinished == {"pending", "failed", "running"}

Todo(w) == {t \in DOMAIN worker[w].job.targets :
              t \notin worker[w].done /\ worker[w].job.targets[t].status \in Unfinished}
AtTarget(w, t) == worker[w].phase = "walking" /\ t \in Todo(w) /\ \A u \in Todo(w) : t <= u

\* Mutant: the input is not compared with the one the job froze.
StillThere(w, t) == worker[w].live[t] # None
Unchanged(w, t) == /\ worker[w].live[t] # None
                   /\ Clip[worker[w].live[t].text][worker[w].job.settings.limit]
                        = worker[w].job.targets[t].input
Passed(w, t, target) == [WithTarget(w, t, target) EXCEPT !.done = @ \cup {t}]

\* The target is gone or changed, or has become sensitive.
Refuse(w, t) ==
  /\ AtTarget(w, t)
  /\ LET target == worker[w].job.targets[t]
     IN  \/ /\ ~Unchanged(w, t)
            /\ Persist(w, Passed(w, t, [target EXCEPT !.status = "failed"]))
         \/ /\ Unchanged(w, t)
            /\ Blocked(target.provider, worker[w].live[t])
            /\ Persist(w, Passed(w, t, [target EXCEPT !.status = "blocked"]))
  /\ UNCHANGED <<classificationVars, jobLock, runs>>

\* Mutant: a target found running is not counted again.
BegunOnce(target) ==
  [target EXCEPT !.status = "running", !.attempts = IF target.status = "running" THEN @ ELSE @ + 1]
Begun(target) == [target EXCEPT !.status = "running", !.attempts = @ + 1]

\* "running" is on disk before the provider is asked, one target at a time ...
Ask(w, t) ==
  /\ AtTarget(w, t) /\ Unchanged(w, t)
  /\ LET target == worker[w].job.targets[t]
         item == worker[w].live[t]
     IN  /\ ~Blocked(target.provider, item)
         /\ ~(target.provider = "laya" /\ worker[w].job.settings.enabled)
         /\ Persist(w, [WithTarget(w, t, Begun(target)) EXCEPT !.phase = "asking", !.at = t])
         /\ Classify(w, t, item, target.provider)
  /\ UNCHANGED <<evidence, config, edits, records, calls, crossed, jobLock, runs>>

\* ... or for all the targets of a local batch.
Enqueue(w, t) ==
  /\ AtTarget(w, t) /\ Unchanged(w, t)
  /\ LET target == worker[w].job.targets[t]
     IN  /\ target.provider = "laya" /\ worker[w].job.settings.enabled
         /\ Persist(w, [Passed(w, t, Begun(target)) EXCEPT !.batch = Append(@, t)])
  /\ UNCHANGED <<classificationVars, jobLock, runs>>

\* classify_one once classify_text is back.
Outcome(target, returned) ==
  IF returned.answer = "disabled" THEN [target EXCEPT !.status = "disabled", !.record = None]
  ELSE IF returned.answer = "raised" THEN [target EXCEPT !.status = "failed", !.record = None]
  ELSE [target EXCEPT !.record = returned.id,
          !.status = IF Resolved(records[returned.id]) THEN "completed" ELSE "failed"]

\* A batch that failed as a whole never reaches classify_text.
Fail(target) == [target EXCEPT !.status = "failed", !.record = None]

Settle(w) ==
  /\ worker[w].phase \in {"asking", "replying"} /\ call[w].phase = "returned"
  /\ LET t == worker[w].at
         target == Outcome(worker[w].job.targets[t], call[w])
     IN  Persist(w, [Passed(w, t, target) EXCEPT
                       !.at = None, !.phase = IF @ = "asking" THEN "walking" ELSE @])
  /\ call' = [call EXCEPT ![w] = Idle]
  /\ UNCHANGED <<evidence, config, edits, records, calls, crossed, jobLock, runs>>

\* The local models answer the batch, or fail it as a whole.
Flush(w) ==
  /\ worker[w].phase = "walking" /\ Todo(w) = {} /\ worker[w].batch # <<>>
  /\ \E p \in {"replying", "failing"} : worker' = [worker EXCEPT ![w].phase = p]
  /\ UNCHANGED <<classificationVars, manifest, jobLock, runs, rewritten>>

TakeReply(w) ==
  /\ worker[w].phase = "replying" /\ worker[w].at = None /\ worker[w].batch # <<>>
  /\ LET t == Head(worker[w].batch)
     IN  /\ worker' = [worker EXCEPT ![w].at = t, ![w].batch = Tail(@)]
         /\ Classify(w, t, worker[w].live[t], worker[w].job.targets[t].provider)
  /\ UNCHANGED <<evidence, config, edits, records, calls, crossed,
                 manifest, jobLock, runs, rewritten>>

FailNext(w) ==
  /\ worker[w].phase = "failing" /\ worker[w].batch # <<>>
  /\ LET t == Head(worker[w].batch)
     IN  Persist(w, [WithTarget(w, t, Fail(worker[w].job.targets[t])) EXCEPT !.batch = Tail(@)])
  /\ UNCHANGED <<classificationVars, jobLock, runs>>

Loose == {"pending", "running", "failed", "blocked"}

End(w) ==
  /\ \/ worker[w].phase = "walking" /\ Todo(w) = {}
     \/ worker[w].phase \in {"replying", "failing"}
  /\ worker[w].batch = <<>> /\ worker[w].at = None
  /\ LET job == worker[w].job
         loose == \E t \in DOMAIN job.targets : job.targets[t].status \in Loose
         last == [job EXCEPT !.version = @ + 1,
                             !.status = IF loose THEN "completed_with_issues" ELSE "completed"]
         again == last.version <= manifest.version
     IN  /\ manifest' = IF last.version < manifest.version THEN manifest ELSE last
         /\ rewritten' = (rewritten \/ again)
  /\ worker' = [worker EXCEPT ![w] = NotRunning]
  /\ jobLock' = None
  /\ UNCHANGED <<classificationVars, runs>>

\* The process of a caller dies; the system releases its locks.
Crash(c) ==
  /\ call[c] # Idle \/ (c \in Workers /\ worker[c] # NotRunning)
  /\ call' = [call EXCEPT ![c] = Idle]
  /\ worker' = IF c \in Workers THEN [worker EXCEPT ![c] = NotRunning] ELSE worker
  /\ jobLock' = IF jobLock = c THEN None ELSE jobLock
  /\ UNCHANGED <<evidence, config, edits, records, calls, crossed, manifest, runs, rewritten>>

ClassifyStep(c) == LockAndScan(c) \/ Answer(c) \/ AnswerLost(c)
WorkerStep(w) ==
  \/ Lock(w) \/ LockBusy(w) \/ Settle(w) \/ Flush(w) \/ TakeReply(w) \/ FailNext(w) \/ End(w)
  \/ \E t \in Targets : Refuse(w, t) \/ Ask(w, t) \/ Enqueue(w, t)

Init ==
  /\ ClassificationInit
  /\ manifest = None /\ jobLock = None /\ runs = 0 /\ rewritten = FALSE
  /\ worker = [w \in Workers |-> NotRunning]

Next ==
  \/ \E w \in Workers : Start(w) \/ Resume(w) \/ WorkerStep(w)
  \/ \E c \in Callers : Crash(c) \/ (ClassifyStep(c) /\ UNCHANGED replayVars)
  \/ /\ \/ \E c \in Registrars, t \in Targets : Register(c, t)
        \/ EditConfig \/ \E t \in Targets : EditEvidence(t)
     /\ UNCHANGED replayVars

Spec == Init /\ [][Next]_vars

(***************************************************************************)
(* What the manifest calls completed is backed by a resolved record of the *)
(* same target and provider, whose input is a clip of a text that the job  *)
(* froze; and a completed job left no target out.  Of the job's own edition*)
(* and input it is as long as these settings were not edited: the record   *)
(* is made under a configuration that classify_text reads twice more, and  *)
(* under a longer or shorter limit it holds another clip of the text.  So  *)
(* a job never takes another request's answer for its own, although texts, *)
(* policy and configuration are read at different moments and answers come *)
(* from records that others have written.                                  *)
(***************************************************************************)
Backed(target, t) ==
  LET req == records[target.record].request
      asked == manifest.settings
  IN  /\ target.record # None
      /\ Resolved(records[target.record])
      /\ req.target = t
      /\ req.provider = target.provider
      /\ \E x \in Texts, n \in Limits :
           Clip[x][asked.limit] = target.input /\ req.input = Clip[x][n]
      /\ config.edition = asked.edition => req.edition = asked.edition
      /\ config.limit = asked.limit => req.input = target.input

CompletedIsBacked ==
  manifest # None =>
    \A t \in DOMAIN manifest.targets :
      LET target == manifest.targets[t]
      IN  /\ target.status = "completed" => Backed(target, t)
          /\ manifest.status = "completed" =>
               target.status = "disabled" \/ Backed(target, t)

(***************************************************************************)
(* No attempt is lost from the manifest: a worker's records of a target    *)
(* are never more than the attempts counted on disk, even when the worker  *)
(* died before it could write their result (replay_existing counts before  *)
(* it asks) -- unless two resumes read the same version.                   *)
(***************************************************************************)
EveryAttemptIsCounted ==
  manifest # None /\ ~rewritten =>
    \A t \in DOMAIN manifest.targets :
      Cardinality({n \in DOMAIN records : records[n].by \in Workers /\ records[n].request.target = t})
        <= manifest.targets[t].attempts

(***************************************************************************)
(* A completed target stays completed by the same record through resumes,  *)
(* crashes and other workers, while versions are written once; resuming    *)
(* goes over unfinished targets only.                                      *)
(***************************************************************************)
CompletedForGood ==
  [][manifest # None /\ ~rewritten' =>
       \A t \in DOMAIN manifest.targets :
         manifest.targets[t].status = "completed" => manifest'.targets[t] = manifest.targets[t]]_vars

(***************************************************************************)
(* knowledge-base/03-system/classification-operations.md:76: a replay      *)
(* "writes an append-only, versioned manifest": no version is written      *)
(* twice.                                                                  *)
(***************************************************************************)
ManifestsAppendOnly == ~rewritten
=============================================================================
