----------------------------- MODULE CountProofs ------------------------------
(***************************************************************************)
(* Proofs about what a replay job counts: while each manifest version is   *)
(* written once, no attempt of a worker is lost from the manifest and a    *)
(* completed target is never gone over again.  Both rest on the lock of    *)
(* the job: the worker that holds it has the manifest at hand.             *)
(***************************************************************************)
EXTENDS ReplayProofs

\* Workers' records of a target.
Made(t, rs) == {n \in DOMAIN rs : rs[n].by \in Workers /\ rs[n].request.target = t}

\* The run may still bring another record of t.
Owed(t, r, c) == \/ t = r.at /\ c.phase \in {"waiting", "asking"}
                 \/ \E i \in DOMAIN r.batch : t = r.batch[i]

Counted(job, rs) == \A t \in DOMAIN job.targets : Cardinality(Made(t, rs)) <= job.targets[t].attempts

Reserved(r, c, rs) ==
  \A t \in DOMAIN r.job.targets :
    Owed(t, r, c) => Cardinality(Made(t, rs)) + 1 <= r.job.targets[t].attempts

\* A job as a worker that waits for the lock has read it.
Entered(job, m, again) ==
  IF m = None THEN job.version = 0
  ELSE /\ job.version <= m.version
       /\ ~again /\ job.version = m.version => job.targets = m.targets

CountInv ==
  /\ \A w \in Workers : At(w) => jobLock = w
  /\ runs = 0 => manifest = None
  /\ manifest = None => \A n \in DOMAIN records : records[n].by \notin Workers
  /\ \A w \in Workers : worker[w] # NotRunning /\ ~At(w) => Entered(worker[w].job, manifest, rewritten)
  /\ ~rewritten /\ manifest # None =>
       /\ Counted(manifest, records)
       /\ \A w \in Workers : At(w) =>
            worker[w].job = manifest /\ Reserved(worker[w], call[w], records)
-----------------------------------------------------------------------------
LEMMA MadeIsFinite ==
  ASSUME NEW rs \in Seq(Records), NEW t
  PROVE  IsFiniteSet(Made(t, rs)) /\ Cardinality(Made(t, rs)) \in Nat
<1>1. DOMAIN rs = 1..Len(rs) /\ Len(rs) \in Nat
  OBVIOUS
<1>2. IsFiniteSet(1..Len(rs))
  BY <1>1, FS_Interval
<1>3. IsFiniteSet(Made(t, rs))
  BY <1>1, <1>2, FS_Subset DEF Made
<1> QED  BY <1>3, FS_CardinalityType

LEMMA MadeGrows ==
  ASSUME NEW rs \in Seq(Records), NEW rs2 \in Seq(Records), NEW new, Added(rs, rs2, new), NEW t
  PROVE  /\ rs2[new].by \in Workers /\ rs2[new].request.target = t =>
              Cardinality(Made(t, rs2)) = Cardinality(Made(t, rs)) + 1
         /\ rs2[new].by \notin Workers \/ rs2[new].request.target # t => Made(t, rs2) = Made(t, rs)
<1>1. CASE rs2[new].by \in Workers /\ rs2[new].request.target = t
  <2>1. Made(t, rs2) = Made(t, rs) \cup {new} /\ new \notin Made(t, rs)
    BY <1>1 DEF Made, Added
  <2>2. Cardinality(Made(t, rs) \cup {new}) = Cardinality(Made(t, rs)) + 1
    BY <2>1, MadeIsFinite, FS_AddElement
  <2> QED  BY <1>1, <2>1, <2>2
<1>2. CASE rs2[new].by \notin Workers \/ rs2[new].request.target # t
  BY <1>2 DEF Made, Added
<1> QED  BY <1>1, <1>2

\* Setting a target that is not completed; its attempts are counted once more
\* before another record may come.
SetsOne(run, old, t, target, c, c2) ==
  /\ run.job = SetTarget(old, t, target).job
  /\ t \in DOMAIN old.job.targets /\ target \in TargetStates /\ old.job.targets[t].status # "completed"
  /\ \/ /\ target.attempts = old.job.targets[t].attempts
        /\ \A u : Owed(u, run, c2) => Owed(u, old, c)
     \/ /\ target.attempts = old.job.targets[t].attempts + 1
        /\ \A u : Owed(u, run, c2) => u = t \/ Owed(u, old, c)

LEMMA SetsOneKeeps ==
  ASSUME NEW old \in Working, NEW run, NEW t, NEW target, NEW c, NEW c2, SetsOne(run, old, t, target, c, c2),
         NEW rs \in Seq(Records), Counted(old.job, rs), Reserved(old, c, rs)
  PROVE  Counted(run.job, rs) /\ Reserved(run, c2, rs)
<1>1. /\ DOMAIN run.job.targets = DOMAIN old.job.targets /\ run.job.targets[t] = target
      /\ \A u \in DOMAIN old.job.targets : u # t => run.job.targets[u] = old.job.targets[u]
  <2>1. /\ t \in DOMAIN old.job.targets /\ target \in TargetStates
        /\ run.job = SetTarget(old, t, target).job
    BY DEF SetsOne
  <2> QED  BY <2>1, TargetSet
<1>2. \A u \in DOMAIN old.job.targets :
        old.job.targets[u].attempts \in Nat /\ Cardinality(Made(u, rs)) \in Nat
  <2>1. old.job \in Jobs
    BY DEF Working, Runs
  <2>2. \A u \in DOMAIN old.job.targets : old.job.targets[u] \in TargetStates
    BY <2>1, JobsAre
  <2> QED  BY <2>2, MadeIsFinite DEF TargetStates
<1>3. t \in DOMAIN old.job.targets
  BY DEF SetsOne
<1>4. target.attempts \in {old.job.targets[t].attempts, old.job.targets[t].attempts + 1}
  BY DEF SetsOne
<1>5. Counted(run.job, rs)
  <2> SUFFICES ASSUME NEW u \in DOMAIN old.job.targets
               PROVE  Cardinality(Made(u, rs)) <= run.job.targets[u].attempts
    BY <1>1 DEF Counted
  <2>1. Cardinality(Made(u, rs)) <= old.job.targets[u].attempts
    BY DEF Counted
  <2>2. CASE u = t
    BY <1>1, <1>2, <1>4, <2>1, <2>2
  <2>3. CASE u # t
    BY <1>1, <2>1, <2>3
  <2> QED  BY <2>2, <2>3
<1>6. ASSUME NEW u \in DOMAIN old.job.targets, Owed(u, run, c2)
      PROVE  Cardinality(Made(u, rs)) + 1 <= run.job.targets[u].attempts
  <2>1. CASE Owed(u, old, c)
    <3>1. Cardinality(Made(u, rs)) + 1 <= old.job.targets[u].attempts
      BY <2>1 DEF Reserved
    <3>2. CASE u = t
      BY <1>1, <1>2, <1>4, <3>1, <3>2
    <3>3. CASE u # t
      BY <1>1, <3>1, <3>3
    <3> QED  BY <3>2, <3>3
  <2>2. CASE ~Owed(u, old, c)
    <3>1. u = t /\ target.attempts = old.job.targets[t].attempts + 1
      BY <1>6, <2>2 DEF SetsOne
    <3>2. Cardinality(Made(t, rs)) <= old.job.targets[t].attempts
      BY <1>3 DEF Counted
    <3> QED  BY <1>1, <1>2, <1>3, <3>1, <3>2
  <2> QED  BY <2>1, <2>2
<1> QED  BY <1>1, <1>5, <1>6 DEF Reserved

\* A completed target is not touched.
LEMMA SetsOneSpares ==
  ASSUME NEW old \in Working, NEW run, NEW t, NEW target, NEW c, NEW c2, SetsOne(run, old, t, target, c, c2)
  PROVE  \A u \in DOMAIN old.job.targets :
           old.job.targets[u].status = "completed" => run.job.targets[u] = old.job.targets[u]
<1>1. /\ t \in DOMAIN old.job.targets /\ target \in TargetStates
      /\ run.job = SetTarget(old, t, target).job /\ old.job.targets[t].status # "completed"
  BY DEF SetsOne
<1>2. \A u \in DOMAIN old.job.targets : u # t => run.job.targets[u] = old.job.targets[u]
  BY <1>1, TargetSet
<1> QED  BY <1>1, <1>2
-----------------------------------------------------------------------------
\* The steps by which the worker that holds the lock writes its job.
Writes(w) ==
  Settle(w) \/ FailNext(w) \/ \E t \in Targets : Refuse(w, t) \/ Ask(w, t) \/ Enqueue(w, t)

LEMMA WriteShows ==
  ASSUME TypeInv, JobInv, NEW w \in Workers, Writes(w)
  PROVE  \E run, t, target :
           /\ run \in Working /\ worker[w] \in Working /\ At(w) /\ run.phase # "entering" /\ Persist(w, run)
           /\ SetsOne(run, worker[w], t, target, call[w], call'[w])
           /\ \A v \in Workers : v # w => call'[v] = call[v]
           /\ UNCHANGED <<records, jobLock, runs>>
<1>1. CASE Settle(w)
  <2> DEFINE t == worker[w].at
             now == worker[w].job.targets[t]
             target == Outcome(now, call[w])
             run == Settled(worker[w], t, target)
  <2>1. /\ worker[w] \in Working /\ worker[w].phase \in {"asking", "replying"} /\ t # None
        /\ t \in DOMAIN worker[w].job.targets /\ now \in TargetStates /\ target \in TargetStates
        /\ call[w] \in Returns /\ Persist(w, run) /\ call' = [call EXCEPT ![w] = Idle]
        /\ UNCHANGED <<records, jobLock, runs>>
    BY <1>1, SettleShows
  <2>2. target.attempts = now.attempts
    BY <2>1, TargetsSettle
  <2>3. now.status = "running"
    BY <2>1, NotRunningIsNoRun DEF JobInv, RunFits, Marked
  <2>4. call'[w] = Idle /\ \A v \in Workers : v # w => call'[v] = call[v]
    BY <2>1 DEF TypeInv, CallsOK, Callers
  <2> HIDE DEF target
  <2>5. run \in Working /\ run.phase # "entering" /\ run.batch = worker[w].batch
        /\ run.job = SetTarget(worker[w], t, target).job
    BY <2>1, SettledFits
  <2> HIDE DEF run
  <2>6. \A u : Owed(u, run, Idle) => Owed(u, worker[w], call[w])
    BY <2>5 DEF Owed, Idle
  <2>7. SetsOne(run, worker[w], t, target, call[w], call'[w])
    BY <2>1, <2>2, <2>3, <2>4, <2>5, <2>6 DEF SetsOne
  <2>8. At(w)
    BY <2>1, NotRunningIsNoRun DEF At
  <2> QED  BY <2>1, <2>4, <2>5, <2>7, <2>8
<1>2. CASE FailNext(w)
  <2> DEFINE t == Head(worker[w].batch)
             now == worker[w].job.targets[t]
             target == Fail(now)
             run == Failed(worker[w], t, target)
  <2>1. /\ worker[w] \in Working /\ worker[w].phase = "failing" /\ worker[w].batch # <<>>
        /\ Persist(w, run) /\ UNCHANGED <<classificationVars, jobLock, runs>>
    BY <1>2, FailNextShows
  <2>2. t \in DOMAIN worker[w].job.targets /\ now \in TargetStates
    BY <2>1, HeadShows
  <2>3. target \in TargetStates /\ target.attempts = now.attempts
    BY <2>2, TargetsFail
  <2>4. /\ worker[w].batch \in Seq(Targets) /\ 1 \in DOMAIN worker[w].batch /\ t = worker[w].batch[1]
        /\ \A i \in DOMAIN Tail(worker[w].batch) :
             \E j \in DOMAIN worker[w].batch : Tail(worker[w].batch)[i] = worker[w].batch[j]
    <3>1. worker[w].batch \in Seq(Targets)
      BY <2>1 DEF Working, Runs
    <3> QED  BY <2>1, <3>1, Tails
  <2>5. now.status = "running"
    <3>1. RunFits(worker[w], call[w], records, config)
      BY <2>1, NotRunningIsNoRun DEF JobInv
    <3>2. Marked(worker[w].batch[1], worker[w])
      BY <2>4, <3>1 DEF RunFits
    <3> QED  BY <2>4, <3>2 DEF Marked
  <2> HIDE DEF target
  <2>6. run \in Working /\ run.phase # "entering" /\ run.batch = Tail(worker[w].batch)
        /\ run.at = worker[w].at /\ run.job = SetTarget(worker[w], t, target).job
    BY <2>1, <2>2, <2>3, FailedFits
  <2> HIDE DEF run, t
  <2>7. \A u : Owed(u, run, call[w]) => Owed(u, worker[w], call[w])
    BY <2>4, <2>6 DEF Owed
  <2>8. UNCHANGED <<call, records>>
    BY <2>1 DEF classificationVars
  <2>9. SetsOne(run, worker[w], t, target, call[w], call'[w])
    BY <2>2, <2>3, <2>5, <2>6, <2>7, <2>8 DEF SetsOne
  <2>10. At(w)
    BY <2>1, NotRunningIsNoRun DEF At
  <2> QED  BY <2>1, <2>6, <2>8, <2>9, <2>10
<1>3. ASSUME NEW t \in Targets, AtTarget(w, t)
      PROVE  /\ worker[w] \in Working /\ worker[w].phase = "walking" /\ At(w)
             /\ t \in DOMAIN worker[w].job.targets /\ worker[w].job.targets[t] \in TargetStates
             /\ worker[w].job.targets[t].status # "completed"
  <2>1. worker[w].job.targets[t].status \in Unfinished
    BY <1>3 DEF AtTarget, Todo
  <2> QED  BY <1>3, <2>1, AtTargetShows, NotRunningIsNoRun DEF At, Unfinished
<1>4. CASE \E t \in Targets : Refuse(w, t)
  <2>1. PICK t \in Targets : Refuse(w, t)
    BY <1>4
  <2>2. /\ worker[w] \in Working /\ worker[w].phase = "walking" /\ At(w)
        /\ t \in DOMAIN worker[w].job.targets /\ worker[w].job.targets[t] \in TargetStates
        /\ worker[w].job.targets[t].status # "completed"
    BY <1>3, <2>1 DEF Refuse
  <2>3. PICK target \in TargetStates :
          /\ target.attempts = worker[w].job.targets[t].attempts
          /\ Persist(w, PassedRun(worker[w], t, target)) /\ UNCHANGED <<classificationVars, jobLock, runs>>
    BY <2>1, RefuseShows
  <2> DEFINE run == PassedRun(worker[w], t, target)
  <2>4. /\ run \in Working /\ run.phase # "entering" /\ run.batch = worker[w].batch
        /\ run.at = worker[w].at /\ run.job = SetTarget(worker[w], t, target).job
    BY <2>2, PassedFits
  <2>5. Persist(w, run)
    BY <2>3
  <2> HIDE DEF run
  <2>6. \A u : Owed(u, run, call[w]) => Owed(u, worker[w], call[w])
    BY <2>4 DEF Owed
  <2>7. UNCHANGED <<call, records>>
    BY <2>3 DEF classificationVars
  <2>8. SetsOne(run, worker[w], t, target, call[w], call'[w])
    BY <2>2, <2>3, <2>4, <2>6, <2>7 DEF SetsOne
  <2> QED  BY <2>2, <2>3, <2>4, <2>5, <2>7, <2>8
<1>5. CASE \E t \in Targets : Ask(w, t)
  <2>1. PICK t \in Targets : Ask(w, t)
    BY <1>5
  <2> DEFINE target == Begun(worker[w].job.targets[t])
             run == Asked(worker[w], t, target)
  <2>2. /\ AtTarget(w, t) /\ Unchanged(w, t) /\ Persist(w, run) /\ UNCHANGED <<config, records, jobLock, runs>>
        /\ Classify(w, t, worker[w].live[t], worker[w].job.targets[t].provider)
    BY <2>1, AskShows
  <2>3. /\ worker[w] \in Working /\ worker[w].phase = "walking" /\ At(w)
        /\ t \in DOMAIN worker[w].job.targets /\ worker[w].job.targets[t] \in TargetStates
        /\ worker[w].job.targets[t].status # "completed"
    BY <1>3, <2>2
  <2>4. target \in TargetStates /\ target.attempts = worker[w].job.targets[t].attempts + 1
    BY <2>3, TargetsBegin
  <2> HIDE DEF target
  <2>5. /\ run \in Working /\ run.phase # "entering" /\ run.batch = worker[w].batch
        /\ run.at = t /\ run.job = SetTarget(worker[w], t, target).job
    BY <2>3, <2>4, AskedFits
  <2> HIDE DEF run
  <2>6. \A u, c : Owed(u, run, c) => u = t \/ Owed(u, worker[w], call[w])
    BY <2>5 DEF Owed
  <2>7. \A v \in Workers : v # w => call'[v] = call[v]
    <3>1. worker[w].live[t] \in Items /\ worker[w].job.targets[t].provider \in Providers /\ w \in Callers
      BY <2>2, UnchangedShows DEF Callers
    <3>2. \E next : Becomes(w, next)
      BY <2>2, <3>1, ClassifyShows DEF TypeInv
    <3> QED  BY <3>2 DEF Becomes, Callers
  <2>8. SetsOne(run, worker[w], t, target, call[w], call'[w])
    BY <2>3, <2>4, <2>5, <2>6 DEF SetsOne
  <2> QED  BY <2>2, <2>3, <2>5, <2>7, <2>8
<1>6. CASE \E t \in Targets : Enqueue(w, t)
  <2>1. PICK t \in Targets : Enqueue(w, t)
    BY <1>6
  <2> DEFINE target == Begun(worker[w].job.targets[t])
             run == Enqueued(worker[w], t, target)
  <2>2. /\ AtTarget(w, t) /\ Unchanged(w, t) /\ Persist(w, run) /\ UNCHANGED <<classificationVars, jobLock, runs>>
    BY <2>1, EnqueueShows
  <2>3. /\ worker[w] \in Working /\ worker[w].phase = "walking" /\ At(w)
        /\ t \in DOMAIN worker[w].job.targets /\ worker[w].job.targets[t] \in TargetStates
        /\ worker[w].job.targets[t].status # "completed" /\ worker[w].live[t] # None
    BY <1>3, <2>2, UnchangedShows
  <2>4. target \in TargetStates /\ target.attempts = worker[w].job.targets[t].attempts + 1
    BY <2>3, TargetsBegin
  <2> HIDE DEF target
  <2>5. /\ run \in Working /\ run.phase # "entering" /\ run.batch = Append(worker[w].batch, t)
        /\ run.at = worker[w].at /\ run.job = SetTarget(worker[w], t, target).job
    BY <2>3, <2>4, EnqueuedFits
  <2> HIDE DEF run
  <2>6. worker[w].batch \in Seq(Targets)
    BY <2>3 DEF Working, Runs
  <2>7. \A i \in DOMAIN run.batch : run.batch[i] = t \/ \E j \in DOMAIN worker[w].batch : run.batch[i] = worker[w].batch[j]
    BY <2>5, <2>6, Appended
  <2>8. \A u : Owed(u, run, call[w]) => u = t \/ Owed(u, worker[w], call[w])
    BY <2>5, <2>7 DEF Owed
  <2>9. UNCHANGED <<call, records>>
    BY <2>2 DEF classificationVars
  <2>10. SetsOne(run, worker[w], t, target, call[w], call'[w])
    BY <2>3, <2>4, <2>5, <2>8, <2>9 DEF SetsOne
  <2> QED  BY <2>2, <2>3, <2>5, <2>9, <2>10
<1> QED  BY <1>1, <1>2, <1>4, <1>5, <1>6 DEF Writes
-----------------------------------------------------------------------------
LEMMA EnteredStays ==
  ASSUME NEW job \in Jobs, NEW m \in Jobs \cup {None}, NEW m2 \in Jobs, NEW again, NEW again2,
         Entered(job, m, again),
         m # None => m.version <= m2.version /\ (again2 \/ m.version < m2.version),
         m = None => m2.version # 0
  PROVE  Entered(job, m2, again2)
<1>1. /\ m2 # None /\ job.version \in Nat /\ m2.version \in Nat
      /\ m # None => m.version \in Nat
  BY JobsAre
<1>2. CASE m = None
  BY <1>1, <1>2 DEF Entered
<1>3. CASE m # None
  <2>1. job.version <= m.version
    BY <1>3 DEF Entered
  <2>2. job.version <= m2.version
    BY <1>1, <1>3, <2>1
  <2>3. again2 \/ job.version # m2.version
    BY <1>1, <1>3, <2>1
  <2> QED  BY <1>1, <2>2, <2>3 DEF Entered
<1> QED  BY <1>2, <1>3

LEMMA PersistKeepsCounts ==
  ASSUME TypeInv, CountInv, NEW w \in Workers, worker[w] \in Working, NEW run \in Working,
         run.phase # "entering", Persist(w, run), \A v \in Workers : v # w => ~At(v),
         jobLock' = w, UNCHANGED <<records, runs>>,
         ~rewritten' => Counted(run.job, records) /\ Reserved(run, call'[w], records)
  PROVE  CountInv'
<1> DEFINE next == Written(run)
<1>1. /\ worker'[w] = next /\ (\A v \in Workers : v # w => worker'[v] = worker[v])
      /\ manifest' \in {manifest, next.job} /\ manifest' \in Jobs
      /\ manifest # None => manifest.version <= manifest'.version
      /\ ~rewritten' => /\ manifest' = next.job /\ ~rewritten
                        /\ manifest # None => manifest.version < next.job.version
  BY Persisted
<1>2. /\ next \in Working /\ next.phase = run.phase /\ next.batch = run.batch /\ next.at = run.at
      /\ next.job.version = run.job.version + 1 /\ next.job.targets = run.job.targets
  BY WrittenFits
<1> HIDE DEF next
<1>3. manifest' # None /\ run.job.version \in Nat /\ manifest \in Jobs \cup {None}
  <2>1. run.job \in Jobs
    BY DEF Working, Runs
  <2> QED  BY <1>1, <2>1, JobsAre DEF TypeInv
<1>4. ~rewritten' => Counted(manifest', records) /\ worker'[w].job = manifest'
                     /\ Reserved(worker'[w], call'[w], records)
  BY <1>1, <1>2 DEF Counted, Reserved, Owed
<1>5. ASSUME NEW v \in Workers, worker'[v] # NotRunning, ~(worker'[v].phase # "entering")
      PROVE  Entered(worker'[v].job, manifest', rewritten')
  <2>1. v # w
    BY <1>1, <1>2, <1>5
  <2>2. worker'[v] = worker[v] /\ Entered(worker[v].job, manifest, rewritten)
    BY <1>1, <1>5, <2>1 DEF CountInv, At
  <2>3. worker[v].job \in Jobs
    BY <1>5, <2>2 DEF TypeInv, Working, Runs
  <2>4. manifest = None => manifest'.version # 0
    BY <1>1, <1>2, <1>3
  <2>5. manifest # None => manifest.version <= manifest'.version /\ (rewritten' \/ manifest.version < manifest'.version)
    BY <1>1
  <2> QED  BY <1>1, <1>3, <2>2, <2>3, <2>4, <2>5, EnteredStays
<1>6. \A v \in Workers : worker'[v] # NotRunning /\ worker'[v].phase # "entering" => v = w
  BY <1>1 DEF At
<1>7. runs' = runs /\ runs # 0
  BY NotRunningIsNoRun DEF TypeInv
<1> QED  BY <1>1, <1>3, <1>4, <1>5, <1>6, <1>7 DEF CountInv, At

LEMMA CountsKeptByWrite ==
  ASSUME TypeInv, JobInv, CountInv, NEW w \in Workers, Writes(w)
  PROVE  CountInv'
<1>1. PICK run, t, target :
        /\ run \in Working /\ worker[w] \in Working /\ At(w) /\ run.phase # "entering" /\ Persist(w, run)
        /\ SetsOne(run, worker[w], t, target, call[w], call'[w])
        /\ UNCHANGED <<records, jobLock, runs>>
  BY WriteShows
<1>2. manifest # None /\ jobLock = w /\ \A v \in Workers : v # w => ~At(v)
  BY <1>1 DEF TypeInv, CountInv
<1>3. ~rewritten' => ~rewritten
  BY <1>1, Persisted
<1>4. ~rewritten' => Counted(run.job, records) /\ Reserved(run, call'[w], records)
  <2> SUFFICES ASSUME ~rewritten' PROVE Counted(run.job, records) /\ Reserved(run, call'[w], records)
    OBVIOUS
  <2>1. Counted(worker[w].job, records) /\ Reserved(worker[w], call[w], records)
    BY <1>1, <1>2, <1>3 DEF CountInv
  <2>2. records \in Seq(Records)
    BY DEF TypeInv, CallsOK
  <2> QED  BY <1>1, <2>1, <2>2, SetsOneKeeps
<1> QED  BY <1>1, <1>2, <1>4, PersistKeepsCounts

\* The job comes to the worker that takes the lock as the manifest has it.
LEMMA CountsKeptByLock ==
  ASSUME TypeInv, CountInv, NEW w \in Workers, Lock(w)
  PROVE  CountInv'
<1> DEFINE run == [worker[w] EXCEPT !.phase = "walking", !.live = evidence]
           job == worker[w].job
<1>1. /\ worker[w] \in Working /\ worker[w].phase = "entering" /\ run \in Working /\ run.phase = "walking"
      /\ run.batch = <<>> /\ run.at = None /\ run.job = job
      /\ Persist(w, run) /\ jobLock = None /\ jobLock' = w /\ UNCHANGED <<classificationVars, runs>>
  BY LockShows
<1> HIDE DEF run
<1>2. \A v \in Workers : ~At(v)
  BY <1>1, NoneIsNoJob DEF CountInv
<1>3. UNCHANGED <<call, records>> /\ call[w] = Idle
  BY <1>1 DEF classificationVars, TypeInv, Working, Reads
<1>4. job \in Jobs /\ job.version \in Nat /\ \A t \in DOMAIN job.targets : job.targets[t].attempts \in Nat
  <2>1. job \in Jobs
    BY <1>1 DEF Working, Runs
  <2>2. \A t \in DOMAIN job.targets : job.targets[t] \in TargetStates
    BY <2>1, JobsAre
  <2> QED  BY <2>1, <2>2, JobsAre DEF TargetStates
<1>5. Entered(job, manifest, rewritten)
  BY <1>1, <1>2, NotRunningIsNoRun DEF CountInv
<1>6. ~rewritten' => Counted(job, records)
  <2> SUFFICES ASSUME ~rewritten' PROVE Counted(job, records)
    OBVIOUS
  <2>1. CASE manifest = None
    <3>1. \A t : Made(t, records) = {}
      BY <2>1 DEF CountInv, Made
    <3>2. \A t : Cardinality(Made(t, records)) = 0
      BY <3>1, FS_EmptySet
    <3> QED  BY <1>4, <3>2 DEF Counted
  <2>2. CASE manifest # None
    <3>1. ~rewritten /\ manifest.version < Written(run).job.version
      BY <1>1, <2>2, Persisted
    <3>2. Written(run).job.version = job.version + 1 /\ manifest.version \in Nat
      BY <1>1, <2>2, WrittenFits, JobsAre DEF TypeInv
    <3>3. job.version = manifest.version
      BY <1>4, <1>5, <2>2, <3>1, <3>2 DEF Entered
    <3>4. job.targets = manifest.targets
      BY <1>5, <2>2, <3>1, <3>3 DEF Entered
    <3> QED  BY <2>2, <3>1, <3>4 DEF CountInv, Counted
  <2> QED  BY <2>1, <2>2
<1>7. Reserved(run, call'[w], records)
  BY <1>1, <1>3 DEF Reserved, Owed, Idle
<1> QED  BY <1>1, <1>2, <1>3, <1>6, <1>7, PersistKeepsCounts

\* The manifest stays, and w's run becomes next.
LEMMA MoveKeepsCounts ==
  ASSUME TypeInv, CountInv, NEW w \in Workers, NEW next, worker' = [worker EXCEPT ![w] = next],
         \A v \in Workers : v # w => call'[v] = call[v],
         UNCHANGED <<records, manifest, rewritten>>, runs' = 0 => runs = 0,
         next # NotRunning /\ next.phase = "entering" => Entered(next.job, manifest, rewritten),
         next # NotRunning /\ next.phase # "entering" =>
           /\ At(w) /\ next.job = worker[w].job
           /\ \A t : Owed(t, next, call'[w]) => Owed(t, worker[w], call[w]),
         \A v \in Workers : jobLock = v => jobLock' = v \/ (v = w /\ next = NotRunning)
  PROVE  CountInv'
<1>1. worker'[w] = next /\ \A v \in Workers : v # w => worker'[v] = worker[v]
  BY DEF TypeInv
<1>2. \A v \in Workers : worker'[v] # NotRunning /\ worker'[v].phase # "entering" => At(v) /\ jobLock' = v
  BY <1>1 DEF CountInv, At
<1>3. \A v \in Workers : worker'[v] # NotRunning /\ ~(worker'[v].phase # "entering") =>
        Entered(worker'[v].job, manifest, rewritten)
  BY <1>1 DEF CountInv, At
<1>4. ASSUME ~rewritten, manifest # None, NEW v \in Workers,
             worker'[v] # NotRunning, worker'[v].phase # "entering"
      PROVE  worker'[v].job = manifest /\ Reserved(worker'[v], call'[v], records)
  <2>1. worker[v].job = manifest /\ Reserved(worker[v], call[v], records)
    BY <1>2, <1>4 DEF CountInv
  <2>2. CASE v = w
    BY <1>1, <1>4, <2>1, <2>2 DEF Reserved
  <2>3. CASE v # w
    BY <1>1, <2>1, <2>3
  <2> QED  BY <2>2, <2>3
<1> QED  BY <1>2, <1>3, <1>4 DEF CountInv, At

LEMMA CountsKeptByWorker ==
  ASSUME TypeInv, JobInv, CountInv, NEW w \in Workers, Start(w) \/ Resume(w) \/ WorkerStep(w)
  PROVE  CountInv'
<1>1. CASE Start(w)
  <2>1. PICK job \in Jobs : /\ job.version = 0 /\ worker' = [worker EXCEPT ![w] = Run("entering", job)]
                            /\ runs = 0 /\ runs' = 1
                            /\ UNCHANGED <<classificationVars, manifest, jobLock, rewritten>>
    BY <1>1, StartShows
  <2> DEFINE next == Run("entering", job)
  <2>2. next.phase = "entering" /\ next.job = job
    BY EnteringFits
  <2>3. manifest = None
    BY <2>1 DEF CountInv
  <2>4. worker' = [worker EXCEPT ![w] = next] /\ UNCHANGED <<call, records>>
    BY <2>1 DEF classificationVars
  <2> HIDE DEF next
  <2>5. Entered(next.job, manifest, rewritten)
    BY <2>1, <2>2, <2>3 DEF Entered
  <2> QED  BY <2>1, <2>2, <2>4, <2>5, MoveKeepsCounts
<1>2. CASE Resume(w)
  <2>1. PICK job \in Jobs : /\ manifest \in Jobs /\ job.version = manifest.version /\ job.targets = manifest.targets
                            /\ worker' = [worker EXCEPT ![w] = Run("entering", job)]
                            /\ runs # 0 /\ runs' # 0
                            /\ UNCHANGED <<classificationVars, manifest, jobLock, rewritten>>
    BY <1>2, ResumeShows
  <2> DEFINE next == Run("entering", job)
  <2>2. next.phase = "entering" /\ next.job = job
    BY EnteringFits
  <2>3. manifest # None /\ manifest.version \in Nat
    BY <2>1, JobsAre
  <2>4. worker' = [worker EXCEPT ![w] = next] /\ UNCHANGED <<call, records>>
    BY <2>1 DEF classificationVars
  <2> HIDE DEF next
  <2>5. Entered(next.job, manifest, rewritten)
    BY <2>1, <2>2, <2>3 DEF Entered
  <2> QED  BY <2>1, <2>2, <2>4, <2>5, MoveKeepsCounts
<1>3. CASE Lock(w)
  BY <1>3, CountsKeptByLock
<1>4. CASE LockBusy(w)
  <2>1. /\ worker' = [worker EXCEPT ![w] = NotRunning]
        /\ UNCHANGED <<call, records, manifest, jobLock, runs, rewritten>>
    BY <1>4 DEF LockBusy, classificationVars
  <2> QED  BY <2>1, MoveKeepsCounts
<1>5. CASE Flush(w)
  <2>1. PICK p \in {"replying", "failing"} : worker' = [worker EXCEPT ![w].phase = p]
    BY <1>5 DEF Flush
  <2>2. /\ worker[w] \in Working /\ worker[w].phase = "walking"
        /\ UNCHANGED <<call, records, manifest, jobLock, runs, rewritten>>
    BY <1>5 DEF Flush, NotRunning, classificationVars, TypeInv
  <2> DEFINE next == [worker[w] EXCEPT !.phase = p]
  <2>3. worker' = [worker EXCEPT ![w] = next]
    BY <2>1 DEF TypeInv
  <2>4. /\ next.phase # "entering" /\ next.batch = worker[w].batch /\ next.at = worker[w].at
        /\ next.job = worker[w].job
    BY <2>2, FlushedFits
  <2> HIDE DEF next
  <2>5. \A t : Owed(t, next, call'[w]) => Owed(t, worker[w], call[w])
    BY <2>2, <2>4 DEF Owed
  <2>6. At(w)
    BY <2>2, NotRunningIsNoRun DEF At
  <2> QED  BY <2>2, <2>3, <2>4, <2>5, <2>6, MoveKeepsCounts
<1>6. CASE TakeReply(w)
  <2> DEFINE run == worker[w]
             t == Head(run.batch)
             next == [run EXCEPT !.at = Head(run.batch), !.batch = Tail(@)]
  <2>1. /\ run \in Working /\ run.phase = "replying" /\ run.batch # <<>>
        /\ worker' = [worker EXCEPT ![w] = next]
        /\ Classify(w, t, run.live[t], run.job.targets[t].provider)
        /\ UNCHANGED <<records, manifest, jobLock, runs, rewritten>>
    BY <1>6, TakeReplyShows
  <2>2. t \in Targets /\ run.live[t] \in Items /\ run.job.targets[t].provider \in Providers
    BY <2>1, HeadShows
  <2>3. /\ next.phase # "entering" /\ next.batch = Tail(run.batch) /\ next.at = t /\ next.job = run.job
    BY <2>1, TakenFits
  <2>4. \A v \in Workers : v # w => call'[v] = call[v]
    <3>1. w \in Callers
      BY DEF Callers
    <3>2. \E n : Becomes(w, n)
      BY <2>1, <2>2, <3>1, ClassifyShows DEF TypeInv
    <3> QED  BY <3>2 DEF Becomes, Callers
  <2>5. /\ 1 \in DOMAIN run.batch /\ t = run.batch[1]
        /\ \A i \in DOMAIN Tail(run.batch) : \E j \in DOMAIN run.batch : Tail(run.batch)[i] = run.batch[j]
    <3>1. run.batch \in Seq(Targets)
      BY <2>1 DEF Working, Runs
    <3> QED  BY <2>1, <3>1, Tails
  <2> HIDE DEF next, t
  <2>6. \A u : Owed(u, next, call'[w]) => Owed(u, run, call[w])
    BY <2>3, <2>5 DEF Owed
  <2>7. At(w)
    BY <2>1, NotRunningIsNoRun DEF At
  <2> QED  BY <2>1, <2>3, <2>4, <2>6, <2>7, MoveKeepsCounts
<1>7. CASE End(w)
  <2>1. PICK last \in Jobs :
           /\ worker[w] \in Working /\ worker[w].phase \in {"walking", "replying", "failing"}
           /\ last.targets = worker[w].job.targets /\ manifest # None
           /\ manifest.version <= manifest'.version /\ manifest' \in Jobs
           /\ ~rewritten' => manifest' = last /\ ~rewritten /\ manifest.version < last.version
           /\ worker' = [worker EXCEPT ![w] = NotRunning] /\ jobLock' = None
           /\ UNCHANGED <<classificationVars, runs>>
    BY <1>7, EndShows
  <2>2. At(w) /\ runs # 0 /\ UNCHANGED <<call, records>>
    BY <2>1, NotRunningIsNoRun DEF At, TypeInv, classificationVars
  <2>3. \A v \in Workers : v # w => ~At(v) /\ worker'[v] = worker[v]
    BY <2>1, <2>2 DEF CountInv, TypeInv
  <2>4. worker'[w] = NotRunning
    BY <2>1 DEF TypeInv
  <2>5. manifest' # None /\ manifest \in Jobs
    BY <2>1, JobsAre DEF TypeInv
  <2>6. ASSUME NEW v \in Workers, worker'[v] # NotRunning
        PROVE  Entered(worker'[v].job, manifest', rewritten')
    <3>1. v # w /\ worker'[v] = worker[v] /\ Entered(worker[v].job, manifest, rewritten)
      BY <2>3, <2>4, <2>6 DEF CountInv
    <3>2. worker[v].job \in Jobs
      BY <2>6, <3>1 DEF TypeInv, Working, Runs
    <3> QED  BY <2>1, <2>5, <3>1, <3>2, EnteredStays
  <2>7. ~rewritten' => Counted(manifest', records)
    BY <2>1, <2>2 DEF CountInv, Counted
  <2>8. \A v \in Workers : ~(worker'[v] # NotRunning /\ worker'[v].phase # "entering")
    BY <2>3, <2>4 DEF At
  <2> QED  BY <2>1, <2>2, <2>5, <2>6, <2>7, <2>8 DEF CountInv, At
<1>8. CASE Writes(w)
  BY <1>8, CountsKeptByWrite
<1> QED  BY <1>1, <1>2, <1>3, <1>4, <1>5, <1>6, <1>7, <1>8 DEF WorkerStep, Writes

\* A step of classify_text adds at most the record that was reserved.
LEMMA CountsKeptByCall ==
  ASSUME TypeInv, ChainInv, JobInv, CountInv, NEW c \in Callers, ClassifyStep(c), UNCHANGED replayVars
  PROVE  CountInv'
<1>1. /\ UNCHANGED <<manifest, jobLock, worker, runs, rewritten>>
      /\ \A d \in Callers : d # c => call'[d] = call[d]
  BY StepGrows DEF replayVars
<1>2. /\ records \in Seq(Records)
      /\ \A v \in Workers : At(v) => worker[v] \in Working
  BY DEF TypeInv, CallsOK, Callers, At
<1>3. ASSUME c \in Workers
      PROVE  /\ worker[c] # NotRunning /\ worker[c].at # None /\ At(c) /\ manifest # None
             /\ \A v \in Workers : At(v) => v = c
  <2>1. worker[c] # NotRunning /\ worker[c].at # None
    BY <1>3, StepGrows DEF TypeInv
  <2>2. worker[c] \in Working
    BY <1>3, <2>1 DEF TypeInv
  <2>3. At(c)
    BY <2>1, <2>2 DEF At, Working, Reads
  <2> QED  BY <1>3, <2>1, <2>3 DEF CountInv, TypeInv
<1>4. CASE LockAndScan(c) \/ AnswerLost(c)
  <2>1. records' = records
    BY <1>4 DEF LockAndScan, AnswerLost
  <2>2. PICK next : Becomes(c, next) /\ (next.phase \in {"waiting", "asking"} => call[c].phase \in {"waiting", "asking"})
    <3>1. CASE LockAndScan(c)
      <4>1. \E next : Becomes(c, next)
        BY <3>1, ScanShows DEF TypeInv, ChainInv
      <4> QED  BY <3>1, <4>1 DEF LockAndScan
    <3>2. CASE AnswerLost(c)
      <4>1. \E next : Becomes(c, next)
        BY <3>2, LostShows DEF TypeInv
      <4> QED  BY <3>2, <4>1 DEF AnswerLost
    <3> QED  BY <1>4, <3>1, <3>2
  <2>3. \A v \in Workers : \A t : Owed(t, worker[v], call'[v]) => Owed(t, worker[v], call[v])
    BY <1>1, <2>2 DEF Owed, Becomes, Callers
  <2>4. \A v \in Workers : Reserved(worker[v], call[v], records) => Reserved(worker[v], call'[v], records)
    BY <2>3 DEF Reserved
  <2> QED  BY <1>1, <2>1, <2>4 DEF CountInv, At
<1>5. CASE Answer(c)
  <2> DEFINE new == Len(records) + 1
  <2>1. /\ call[c] \in Asks /\ records' \in Seq(Records) /\ Added(records, records', new)
        /\ records'[new].request = call[c].request /\ records'[new].by = c
        /\ DOMAIN records' = DOMAIN records \cup {new} /\ \A n \in DOMAIN records : records'[n] = records[n]
    BY <1>5, AnswerShows DEF TypeInv, Added
  <2>2. PICK next : Becomes(c, next) /\ next.phase \in {"idle", "returned"}
    BY <1>5, AnswerShows DEF TypeInv
  <2> HIDE DEF new
  <2>3. CASE c \notin Workers
    <3>1. \A t : Made(t, records') = Made(t, records)
      BY <1>2, <2>1, <2>3, MadeGrows
    <3>2. \A v \in Workers : call'[v] = call[v]
      BY <1>1, <2>3 DEF Callers
    <3>3. \A v \in Workers : Reserved(worker[v], call[v], records) => Reserved(worker[v], call'[v], records')
      BY <3>1, <3>2 DEF Reserved
    <3>4. Counted(manifest, records) => Counted(manifest, records')
      BY <3>1 DEF Counted
    <3>5. manifest = None => \A n \in DOMAIN records' : records'[n].by \notin Workers
      BY <2>1, <2>3 DEF CountInv
    <3> QED  BY <1>1, <3>3, <3>4, <3>5 DEF CountInv, At
  <2>4. CASE c \in Workers
    <3> DEFINE run == worker[c]
    <3>1. /\ run # NotRunning /\ run.at # None /\ At(c) /\ manifest # None /\ jobLock = c
          /\ \A v \in Workers : At(v) => v = c
      BY <1>3, <2>4 DEF CountInv
    <3>2. /\ call[c].phase = "asking" /\ call'[c].phase \in {"idle", "returned"}
      BY <2>1, <2>2 DEF Asks, Becomes
    <3>3. /\ records'[new].request.target = run.at
          /\ \A i \in DOMAIN run.batch : run.batch[i] # run.at
          /\ run.at \in DOMAIN run.job.targets
      <4>1. RunFits(run, call[c], records, config)
        BY <2>4, <3>1 DEF JobInv
      <4>2. /\ Marked(run.at, run) /\ CallFits(call[c], run.job, run.at, records, config)
            /\ \A i \in DOMAIN run.batch : run.batch[i] # run.at
        BY <3>1, <4>1 DEF RunFits
      <4>3. call[c].request.target = run.at
        BY <3>2, <4>2 DEF CallFits, MadeFor
      <4>4. run.at \in DOMAIN run.job.targets
        BY <4>2 DEF Marked
      <4> QED  BY <2>1, <4>2, <4>3, <4>4
    <3>4. ASSUME ~rewritten
          PROVE  Counted(manifest, records') /\ run.job = manifest /\ Reserved(run, call'[c], records')
      <4>1. run.job = manifest /\ Counted(manifest, records) /\ Reserved(run, call[c], records)
        BY <2>4, <3>1, <3>4 DEF CountInv
      <4>2. \A t : t # run.at => Made(t, records') = Made(t, records)
        BY <1>2, <2>1, <3>3, MadeGrows
      <4>3. Cardinality(Made(run.at, records')) = Cardinality(Made(run.at, records)) + 1
        BY <1>2, <2>1, <2>4, <3>3, MadeGrows
      <4>4. Owed(run.at, run, call[c])
        BY <3>2 DEF Owed
      <4>5. Cardinality(Made(run.at, records)) + 1 <= run.job.targets[run.at].attempts
        BY <3>3, <4>4, <4>1 DEF Reserved
      <4>6. Counted(manifest, records')
        BY <4>1, <4>2, <4>3, <4>5 DEF Counted
      <4>7. \A t : Owed(t, run, call'[c]) => t # run.at /\ Owed(t, run, call[c])
        BY <3>2, <3>3 DEF Owed
      <4>8. Reserved(run, call'[c], records')
        BY <4>1, <4>2, <4>7 DEF Reserved
      <4> QED  BY <4>1, <4>6, <4>8
    <3> QED  BY <1>1, <3>1, <3>4 DEF CountInv, At
  <2> QED  BY <2>3, <2>4
<1> QED  BY <1>4, <1>5 DEF ClassifyStep

\* Nothing the counts are about changes.
LEMMA CountsQuiet ==
  ASSUME CountInv, UNCHANGED <<records, manifest, worker, jobLock, runs, rewritten>>,
         \A v \in Workers : call'[v] = call[v]
  PROVE  CountInv'
BY DEF CountInv, At

LEMMA CountsKept == TypeInv /\ ChainInv /\ JobInv /\ CountInv /\ [Next]_vars => CountInv'
<1> SUFFICES ASSUME TypeInv, ChainInv, JobInv, CountInv, [Next]_vars PROVE CountInv'
  OBVIOUS
<1>1. CASE \E w \in Workers : Start(w) \/ Resume(w) \/ WorkerStep(w)
  BY <1>1, CountsKeptByWorker
<1>2. CASE \E c \in Callers : Crash(c)
  <2>1. PICK c \in Callers : Crash(c)
    BY <1>2
  <2>2. /\ call' = [call EXCEPT ![c] = Idle] /\ UNCHANGED <<records, manifest, runs, rewritten>>
        /\ worker' = IF c \in Workers THEN [worker EXCEPT ![c] = NotRunning] ELSE worker
        /\ jobLock' = IF jobLock = c THEN None ELSE jobLock
    BY <2>1 DEF Crash
  <2>3. CASE c \in Workers
    <3>1. \A v \in Workers : v # c => call'[v] = call[v]
      BY <2>2 DEF TypeInv, CallsOK, Callers
    <3>2. \A v \in Workers : jobLock = v => jobLock' = v \/ v = c
      BY <2>2
    <3>3. worker' = [worker EXCEPT ![c] = NotRunning]
      BY <2>2, <2>3
    <3> QED  BY <2>2, <2>3, <3>1, <3>2, <3>3, MoveKeepsCounts
  <2>4. CASE c \notin Workers
    <3>1. jobLock' = jobLock /\ worker' = worker /\ \A v \in Workers : call'[v] = call[v]
      BY <2>2, <2>4, NoneIsNoJob DEF TypeInv, CallsOK, Callers
    <3> QED  BY <2>2, <3>1, CountsQuiet
  <2> QED  BY <2>3, <2>4
<1>3. CASE \E c \in Callers : ClassifyStep(c) /\ UNCHANGED replayVars
  BY <1>3, CountsKeptByCall
<1>4. CASE (\E c \in Registrars, t \in Targets : Register(c, t)) /\ UNCHANGED replayVars
  <2>1. PICK c \in Registrars, t \in Targets : Register(c, t)
    BY <1>4
  <2>2. c \in Callers /\ c \notin Workers /\ evidence[t] \in Items /\ UNCHANGED records
        /\ Classify(c, t, evidence[t], DefaultProvider)
    BY <2>1, TwoKindsOfCallers DEF Callers, Register, TypeInv, Snapshots
  <2>3. \E next \in CallsNow : Becomes(c, next)
    BY <2>2, ProviderKnown, ClassifyShows DEF TypeInv
  <2>4. \A v \in Workers : call'[v] = call[v]
    BY <2>2, <2>3 DEF Becomes, Callers
  <2> QED  BY <1>4, <2>2, <2>4, CountsQuiet DEF replayVars
<1>5. CASE (EditConfig \/ \E t \in Targets : EditEvidence(t)) /\ UNCHANGED replayVars
  BY <1>5, CountsQuiet DEF EditConfig, EditEvidence, replayVars
<1>6. CASE UNCHANGED vars
  BY <1>6, CountsQuiet DEF vars, classificationVars, replayVars
<1> QED  BY <1>1, <1>2, <1>3, <1>4, <1>5, <1>6 DEF Next

LEMMA EverythingCounted == Spec => [](TypeInv /\ ChainInv /\ JobInv /\ CountInv)
<1>1. Init => JobInv
  BY DEF Init, ClassificationInit, JobInv, ManifestFits
<1>2. Init => CountInv
  BY DEF Init, ClassificationInit, CountInv, At
<1>3. (TypeInv /\ ChainInv /\ JobInv /\ CountInv) /\ [Next]_vars
        => (TypeInv /\ ChainInv /\ JobInv /\ CountInv)'
  BY TypesKept, ChainsKept, JobsKept, CountsKept
<1> QED  BY <1>1, <1>2, <1>3, InitTypes, PTL DEF Spec

-----------------------------------------------------------------------------
(***************************************************************************)
(* No attempt is lost from the manifest: a worker's records of a target    *)
(* are never more than the attempts counted on disk, wherever workers die, *)
(* unless two resumes read the same version.                               *)
(***************************************************************************)
THEOREM AttemptsStayCounted == Spec => []EveryAttemptIsCounted
<1>1. CountInv => EveryAttemptIsCounted
  BY DEF CountInv, Counted, Made, EveryAttemptIsCounted
<1> QED  BY <1>1, EverythingCounted, PTL

(***************************************************************************)
(* A completed target stays completed by the same record through resumes,  *)
(* crashes and other workers, while versions are written once.             *)
(***************************************************************************)
THEOREM CompletedStaysForGood == Spec => CompletedForGood
<1> DEFINE Kept == manifest # None /\ ~rewritten' =>
                     \A t \in DOMAIN manifest.targets :
                       manifest.targets[t].status = "completed" => manifest'.targets[t] = manifest.targets[t]
<1>1. (TypeInv /\ ChainInv /\ JobInv /\ CountInv) /\ [Next]_vars => [Kept]_vars
  <2> SUFFICES ASSUME TypeInv, JobInv, CountInv, Next, manifest # None, ~rewritten',
                      NEW t \in DOMAIN manifest.targets, manifest.targets[t].status = "completed"
               PROVE  manifest'.targets[t] = manifest.targets[t]
    OBVIOUS
  <2>1. CASE \E w \in Workers : Writes(w)
    <3>1. PICK w \in Workers : Writes(w)
      BY <2>1
    <3>2. PICK run, u, target :
            /\ run \in Working /\ worker[w] \in Working /\ At(w) /\ Persist(w, run)
            /\ SetsOne(run, worker[w], u, target, call[w], call'[w])
      BY <3>1, WriteShows
    <3>3. manifest' = Written(run).job /\ ~rewritten
      BY <3>2, Persisted
    <3>4. Written(run).job.targets = run.job.targets
      BY <3>2, WrittenFits
    <3>5. worker[w].job = manifest
      BY <3>2, <3>3 DEF CountInv
    <3> QED  BY <3>2, <3>3, <3>4, <3>5, SetsOneSpares
  <2>2. CASE \E w \in Workers : Lock(w)
    <3>1. PICK w \in Workers : Lock(w)
      BY <2>2
    <3> DEFINE run == [worker[w] EXCEPT !.phase = "walking", !.live = evidence]
    <3>2. /\ worker[w] \in Working /\ worker[w].phase = "entering" /\ run \in Working
          /\ run.job = worker[w].job /\ Persist(w, run)
      BY <3>1, LockShows
    <3> HIDE DEF run
    <3>3. manifest' = Written(run).job /\ ~rewritten /\ manifest.version < Written(run).job.version
      BY <3>2, Persisted
    <3>4. Written(run).job.targets = run.job.targets /\ Written(run).job.version = run.job.version + 1
      BY <3>2, WrittenFits
    <3>5. Entered(worker[w].job, manifest, rewritten)
      BY <3>2, NotRunningIsNoRun DEF CountInv, At
    <3>6. worker[w].job.version \in Nat /\ manifest.version \in Nat
      BY <3>2, JobsAre DEF TypeInv, Working, Runs
    <3>7. worker[w].job.version = manifest.version
      BY <3>2, <3>3, <3>4, <3>5, <3>6 DEF Entered
    <3>8. worker[w].job.targets = manifest.targets
      BY <3>3, <3>5, <3>7 DEF Entered
    <3> QED  BY <3>2, <3>3, <3>4, <3>8
  <2>3. CASE \E w \in Workers : End(w)
    <3>1. PICK w \in Workers : End(w)
      BY <2>3
    <3>2. PICK last \in Jobs :
            /\ worker[w] \in Working /\ worker[w].phase \in {"walking", "replying", "failing"}
            /\ last.targets = worker[w].job.targets /\ manifest' = last /\ ~rewritten
      BY <3>1, EndShows
    <3>3. worker[w].job = manifest
      BY <3>2, NotRunningIsNoRun DEF CountInv, At
    <3> QED  BY <3>2, <3>3
  <2>4. CASE UNCHANGED manifest
    BY <2>4
  <2> QED  BY <2>1, <2>2, <2>3, <2>4 DEF Next, WorkerStep, Writes, Start, Resume, LockBusy, Flush, TakeReply,
                                         Crash, replayVars
<1>2. Spec => [][Kept]_vars
  BY <1>1, EverythingCounted, PTL DEF Spec
<1> QED  BY <1>2 DEF CompletedForGood
=============================================================================
