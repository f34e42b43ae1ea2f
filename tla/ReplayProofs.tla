---------------------------- MODULE ReplayProofs ----------------------------
(***************************************************************************)
(* Proofs about classification and its replay, for any targets, workers,   *)
(* registrars, edits and runs: attempts at a request form one chain, and   *)
(* what a manifest calls completed is backed by a record.                  *)
(*                                                                         *)
(* Predicates take the records, the configuration or the call they are     *)
(* about as arguments, so that the same fact can be stated before and after*)
(* a step.                                                                 *)
(***************************************************************************)
EXTENDS ReplayJob, FiniteSetTheorems, TLAPS

-----------------------------------------------------------------------------
(***************************************************************************)
(* Types.                                                                  *)
(***************************************************************************)
Requests == [target : Targets, input : Inputs, policy : Policies, provider : Providers, edition : Nat]
Records == [request : Requests, attempt : Nat, retry : Nat \cup {None},
            disposition : Dispositions, by : Callers]

Waits == [phase : {"waiting"}, lock : Requests, item : Items]
Asks == [phase : {"asking"}, lock : Requests, request : Requests, retry : Nat \cup {None}, attempt : Nat]
Returns == [phase : {"returned"}, answer : {"disabled", "raised", "record"}, id : Nat \cup {None}]

Snapshots == [Targets -> Items \cup {None}]
Runs == [phase : {"entering", "walking", "asking", "replying", "failing"}, job : Jobs,
         live : Snapshots \cup {<<>>}, done : SUBSET Targets, batch : Seq(Targets),
         at : Targets \cup {None}]

\* A run that has the lock has read the evidence; what it asks about is in its job, and
\* its batch is of targets it has found there.
Reads(r) ==
  /\ IF r.phase = "entering" THEN r.batch = <<>> /\ r.at = None ELSE r.live \in Snapshots
  /\ r.at # None => r.at \in DOMAIN r.job.targets
  /\ \A i \in DOMAIN r.batch : r.batch[i] \in DOMAIN r.job.targets /\ r.live[r.batch[i]] # None

Working == {r \in Runs : Reads(r)}

CallsOK ==
  /\ call \in [Callers -> {Idle} \cup Waits \cup Asks \cup Returns]
  /\ records \in Seq(Records) /\ config \in Settings

\* w holds the lock of the job.
At(w) == worker[w] # NotRunning /\ worker[w].phase # "entering"

TypeInv ==
  /\ CallsOK
  /\ evidence \in Snapshots
  /\ manifest \in Jobs \cup {None}
  /\ worker \in [Workers -> {NotRunning} \cup Working]
  /\ jobLock \in Workers \cup {None} /\ runs \in Nat /\ rewritten \in BOOLEAN
  /\ runs = 0 => \A w \in Workers : worker[w] = NotRunning
  /\ manifest = None => \A w \in Workers : ~At(w)
  /\ \A w \in Workers : worker[w] = NotRunning \/ worker[w].at = None => call[w] = Idle
-----------------------------------------------------------------------------
(***************************************************************************)
(* Chains.                                                                 *)
(***************************************************************************)
AttemptsAt(req, rs) == {n \in DOMAIN rs : rs[n].request = req}
Earlier(n, rs) == {m \in AttemptsAt(rs[n].request, rs) : m < n}

\* An attempt of this number, naming this one, continues the attempts before it.
Follows(attempt, retry, before, rs) ==
  /\ attempt = Cardinality(before) + 1
  /\ \A m \in before : rs[m].disposition = "failed"
  /\ IF before = {} THEN retry = None ELSE retry \in before /\ \A m \in before : m <= retry

Chained(rs, X) ==
  \A n \in DOMAIN rs :
    rs[n].request \notin X => Follows(rs[n].attempt, rs[n].retry, Earlier(n, rs), rs)

\* There is a first and a last attempt, by number and by place.
Bounded(rs) ==
  \A k \in DOMAIN rs :
    LET same == AttemptsAt(rs[k].request, rs)
    IN  /\ \E n \in same : \A m \in same : rs[m].attempt <= rs[n].attempt
        /\ \E n \in same : \A m \in same : m <= n

Ready(c, rs, X) ==
  c.phase = "asking" =>
    /\ c.request = c.lock \/ c.request \in X
    /\ c.request \notin X => Follows(c.attempt, c.retry, AttemptsAt(c.request, rs), rs)

Asking(c) == call[c].phase = "asking"

ChainInv ==
  /\ Bounded(records) /\ Chained(records, crossed)
  /\ \A c \in Callers : Ready(call[c], records, crossed)
  /\ \A c, d \in Callers : Asking(c) /\ Asking(d) /\ call[c].lock = call[d].lock => c = d
-----------------------------------------------------------------------------
\* Editions and limits only grow.
Later(settings, cfg) == settings.edition <= cfg.edition /\ settings.limit <= cfg.limit

\* The text of an item is the one that a job froze for its target.
Froze(item, job, t) == Clip[item.text][job.settings.limit] = job.targets[t].input

\* A clip, by some limit from first to last, of a text whose first clip is frozen.
ClippedFrom(input, frozen, first, last) ==
  \E x \in Texts, n \in Limits :
    Clip[x][first] = frozen /\ input = Clip[x][n] /\ first <= n /\ n <= last

\* A request made for a target of a job, under the configuration up to cfg.
MadeFor(req, job, t, cfg) ==
  /\ req.target = t /\ req.provider = job.targets[t].provider
  /\ job.settings.edition <= req.edition /\ req.edition <= cfg.edition
  /\ ClippedFrom(req.input, job.targets[t].input, job.settings.limit, cfg.limit)

IsAnswer(n, job, t, rs, cfg) == n \in DOMAIN rs /\ MadeFor(rs[n].request, job, t, cfg)

JobFits(job, rs, cfg) ==
  /\ Later(job.settings, cfg)
  /\ \A t \in DOMAIN job.targets : job.targets[t].status = "completed" =>
       IsAnswer(job.targets[t].record, job, t, rs, cfg) /\ Resolved(rs[job.targets[t].record])

CallFits(c, job, t, rs, cfg) ==
  /\ c.phase = "waiting" => /\ c.lock.target = t /\ c.lock.provider = job.targets[t].provider
                           /\ Froze(c.item, job, t)
  /\ c.phase = "asking" => MadeFor(c.request, job, t, cfg)
  /\ c.phase = "returned" /\ c.answer = "record" => IsAnswer(c.id, job, t, rs, cfg)

\* A target that was marked as running and not passed again.
Marked(t, r) ==
  /\ t \in DOMAIN r.job.targets /\ r.job.targets[t].status = "running"
  /\ r.live[t] # None /\ Froze(r.live[t], r.job, t)

RunFits(r, c, rs, cfg) ==
  /\ JobFits(r.job, rs, cfg) /\ r.job.status = "running"
  /\ r.phase \in {"walking", "failing"} => r.at = None
  /\ r.at # None => Marked(r.at, r) /\ CallFits(c, r.job, r.at, rs, cfg)
  /\ \A i \in DOMAIN r.batch :
       /\ Marked(r.batch[i], r) /\ r.batch[i] \in r.done /\ r.batch[i] # r.at
       /\ \A j \in DOMAIN r.batch : i # j => r.batch[i] # r.batch[j]

ManifestFits(m, rs, cfg) ==
  m # None =>
    /\ JobFits(m, rs, cfg)
    /\ m.status = "completed" =>
         \A t \in DOMAIN m.targets : m.targets[t].status \in {"completed", "disabled"}

JobInv ==
  /\ ManifestFits(manifest, records, config)
  /\ \A w \in Workers :
       worker[w] # NotRunning => RunFits(worker[w], call[w], records, config)
-----------------------------------------------------------------------------
(***************************************************************************)
(* The steps of classify_text.                                             *)
(***************************************************************************)
CallsNow == {Idle} \cup Waits \cup Asks \cup Returns

\* c's call becomes next, the other calls stay.
Becomes(c, next) ==
  call' \in [Callers -> CallsNow] /\ call'[c] = next /\ \A d \in Callers : d # c => call'[d] = call[d]

LEMMA CallBecomes ==
  ASSUME CallsOK, NEW c \in Callers, NEW next \in CallsNow, call' = [call EXCEPT ![c] = next]
  PROVE  Becomes(c, next)
BY DEF CallsOK, CallsNow, Becomes

LEMMA ReturnedFits ==
  ASSUME NEW c \in Callers, NEW answer \in {"disabled", "raised", "record"}, NEW id \in Nat \cup {None}
  PROVE  /\ Returned(c, answer, id) \in {Idle} \cup Returns
         /\ Returned(c, answer, id).phase \in {"idle", "returned"}
         /\ Returned(c, answer, id).phase = "returned" =>
              Returned(c, answer, id).answer = answer /\ Returned(c, answer, id).id = id
         /\ c \in Workers => Returned(c, answer, id) = [phase |-> "returned", answer |-> answer, id |-> id]
<1>1. [phase |-> "returned", answer |-> answer, id |-> id] \in Returns
  BY DEF Returns
<1>2. c \in Workers => c \notin Registrars
  BY TwoKindsOfCallers
<1> QED  BY <1>1, <1>2 DEF Returned, Idle

LEMMA RequestFits ==
  ASSUME NEW t \in Targets, NEW item \in Items, NEW p \in Providers, NEW cfg \in Settings
  PROVE  LET req == Request(t, item, p, cfg) IN
         /\ req \in Requests /\ req.target = t /\ req.provider = p /\ req.edition = cfg.edition
         /\ req.input = Clip[item.text][cfg.limit] /\ item.text \in Texts /\ cfg.limit \in Limits
<1>1. item.text \in Texts /\ item.policy \in Policies /\ cfg.edition \in Nat /\ cfg.limit \in Limits
  BY DEF Items, Settings
<1>2. Clip[item.text][cfg.limit] \in Inputs
  BY <1>1, ClipsKnown
<1> QED  BY <1>1, <1>2 DEF Request, Requests

LEMMA NothingReturned ==
  ASSUME NEW c \in Callers
  PROVE  /\ Returned(c, "disabled", None) \in {Idle} \cup Returns
         /\ Returned(c, "disabled", None).phase \in {"idle", "returned"}
         /\ Returned(c, "disabled", None).phase = "returned" => Returned(c, "disabled", None).answer = "disabled"
         /\ c \in Workers => Returned(c, "disabled", None).phase = "returned"
         /\ Returned(c, "raised", None) \in {Idle} \cup Returns
         /\ Returned(c, "raised", None).phase \in {"idle", "returned"}
         /\ Returned(c, "raised", None).phase = "returned" => Returned(c, "raised", None).answer = "raised"
         /\ c \in Workers => Returned(c, "raised", None).phase = "returned"
<1>1. ASSUME NEW answer \in {"disabled", "raised"}
      PROVE  LET r == Returned(c, answer, None) IN
             /\ r \in {Idle} \cup Returns /\ r.phase \in {"idle", "returned"}
             /\ r.phase = "returned" => r.answer = answer
             /\ c \in Workers => r.phase = "returned"
  <2>1. [phase |-> "returned", answer |-> answer, id |-> None] \in Returns
    BY DEF Returns
  <2>2. c \in Workers => c \notin Registrars
    BY TwoKindsOfCallers
  <2> QED  BY <2>1, <2>2 DEF Returned, Idle
<1> QED  BY <1>1

LEMMA RereadFits ==
  ASSUME NEW c \in Waits, config \in Settings
  PROVE  LET req == Reread(c) IN
         /\ req \in Requests /\ req.target = c.lock.target /\ req.provider = c.lock.provider
         /\ req.edition = config.edition /\ req.input = Clip[c.item.text][config.limit]
         /\ c.lock \in Requests /\ c.item.text \in Texts /\ config.limit \in Limits
<1>1. c.lock \in Requests /\ c.item \in Items /\ c.lock.target \in Targets /\ c.lock.provider \in Providers
  BY DEF Waits, Requests
<1> QED  BY <1>1, RequestFits DEF Reread

LEMMA LimitsAreNumbers == \A n \in Limits : n \in Nat
BY ClipsKnown DEF Limits

LEMMA EditsShow ==
  ASSUME config \in Settings, EditConfig
  PROVE  config' \in Settings /\ Later(config, config')
<1> DEFINE k == config.edition + 1
           b == ~config.enabled
<1>1. /\ k \in Nat /\ b \in BOOLEAN /\ config.edition <= k
      /\ config.edition <= config.edition /\ config.limit <= config.limit
  BY LimitsAreNumbers DEF Settings
<1>2. \/ config' = [config EXCEPT !.edition = k] \/ config' = [config EXCEPT !.enabled = b]
      \/ \E n \in Limits : n > config.limit /\ config' = [config EXCEPT !.limit = n]
  BY <1>1 DEF EditConfig, Settings
<1> HIDE DEF k, b
<1>3. CASE config' = [config EXCEPT !.edition = k]
  BY <1>1, <1>3 DEF Settings, Later
<1>4. CASE config' = [config EXCEPT !.enabled = b]
  BY <1>1, <1>4 DEF Settings, Later
<1>5. CASE \E n \in Limits : n > config.limit /\ config' = [config EXCEPT !.limit = n]
  <2>1. PICK n \in Limits : n > config.limit /\ config' = [config EXCEPT !.limit = n]
    BY <1>5
  <2>2. config.limit <= n
    BY <2>1, LimitsAreNumbers DEF Settings
  <2> QED  BY <1>1, <2>1, <2>2 DEF Settings, Later
<1> QED  BY <1>2, <1>3, <1>4, <1>5

LEMMA ClassifyShows ==
  ASSUME CallsOK, NEW c \in Callers, NEW t \in Targets, NEW item \in Items, NEW p \in Providers,
         Classify(c, t, item, p)
  PROVE  \E next \in CallsNow :
           /\ Becomes(c, next) /\ next.phase \in {"waiting", "idle", "returned"}
           /\ next.phase = "waiting" => next.lock.target = t /\ next.lock.provider = p /\ next.item = item
           /\ next.phase = "returned" => next.answer = "disabled"
           /\ c \in Workers => next # Idle
<1> DEFINE req == Request(t, item, p, config)
           next == IF config.enabled THEN Waiting(req, item) ELSE Returned(c, "disabled", None)
<1>1. req \in Requests /\ req.target = t /\ req.provider = p
  BY RequestFits DEF CallsOK
<1>2. /\ Waiting(req, item) \in Waits /\ Waiting(req, item).phase = "waiting"
      /\ Waiting(req, item).lock = req /\ Waiting(req, item).item = item
  BY <1>1 DEF Waits, Waiting
<1>3. /\ Returned(c, "disabled", None) \in {Idle} \cup Returns
      /\ Returned(c, "disabled", None).phase \in {"idle", "returned"}
      /\ Returned(c, "disabled", None).phase = "returned" => Returned(c, "disabled", None).answer = "disabled"
      /\ c \in Workers => Returned(c, "disabled", None).phase = "returned"
  BY NothingReturned
<1>4. next \in CallsNow
  BY <1>2, <1>3 DEF CallsNow
<1>5. call' = [call EXCEPT ![c] = next]
  BY DEF Classify
<1>6. /\ next.phase \in {"waiting", "idle", "returned"}
      /\ next.phase = "waiting" => next.lock.target = t /\ next.lock.provider = p /\ next.item = item
      /\ next.phase = "returned" => next.answer = "disabled"
      /\ c \in Workers => next # Idle
  <2> HIDE DEF req
  <2> QED  BY <1>1, <1>2, <1>3 DEF Idle
<1> HIDE DEF next
<1>7. Becomes(c, next)
  BY <1>4, <1>5, CallBecomes
<1> QED  BY <1>4, <1>6, <1>7

LEMMA ScanShows ==
  ASSUME CallsOK, Bounded(records), NEW c \in Callers, LockAndScan(c)
  PROVE  LET req == Reread(call[c]) IN
         /\ call[c] \in Waits /\ req \in Requests /\ call[c].lock \in Requests
         /\ \E next \in CallsNow :
              /\ Becomes(c, next) /\ next.phase \in {"asking", "idle", "returned"}
              /\ next.phase = "asking" =>
                   /\ next.lock = call[c].lock /\ next.request = req
                   /\ crossed' = IF req # call[c].lock THEN crossed \cup {req} ELSE crossed
                   /\ Answered(req) = {} /\ next.retry = Previous(req)
                   /\ next.attempt = IF Previous(req) = None THEN 1
                                     ELSE records[Previous(req)].attempt + 1
              /\ next.phase # "asking" => crossed' = crossed
              /\ next.phase = "returned" /\ next.answer = "record" => next.id \in IdsOf(req)
              /\ c \in Workers => next # Idle
<1> DEFINE lock == call[c].lock
           req == Reread(call[c])
           prev == Previous(req)
           asking == [phase |-> "asking", lock |-> lock, request |-> req, retry |-> prev,
                      attempt |-> IF prev = None THEN 1 ELSE records[prev].attempt + 1]
           n == CHOOSE n \in Answered(req) : TRUE
<1>1. call[c] \in Waits /\ lock \in Requests /\ config \in Settings /\ records \in Seq(Records)
  BY DEF LockAndScan, CallsOK, Idle, Waits, Asks, Returns
<1>2. req \in Requests
  BY <1>1, RereadFits
<1> HIDE DEF lock, req
<1>3. DOMAIN records \subseteq Nat /\ \A k \in DOMAIN records : records[k].attempt \in Nat
  <2>1. \A k \in DOMAIN records : records[k] \in Records
    BY <1>1
  <2> QED  BY <1>1, <2>1 DEF Records
<1>4. prev = None \/ prev \in IdsOf(req)
  <2> SUFFICES ASSUME IdsOf(req) # {} PROVE prev \in IdsOf(req)
    BY DEF Previous
  <2>1. PICK k \in DOMAIN records : records[k].request = req
    BY DEF IdsOf
  <2>2. IdsOf(req) = AttemptsAt(req, records)
    BY DEF IdsOf, AttemptsAt
  <2>3. \E m \in IdsOf(req) : \A j \in IdsOf(req) : records[j].attempt <= records[m].attempt
    BY <2>1, <2>2 DEF Bounded
  <2> QED  BY <2>3 DEF Previous
<1>5. asking \in Asks
  <2>1. prev \in Nat \cup {None}
    BY <1>3, <1>4 DEF IdsOf
  <2>2. (IF prev = None THEN 1 ELSE records[prev].attempt + 1) \in Nat
    BY <1>3, <1>4 DEF IdsOf
  <2> HIDE DEF prev
  <2> QED  BY <1>1, <1>2, <2>1, <2>2 DEF Asks
<1>6. Answered(req) # {} => n \in Answered(req) /\ n \in IdsOf(req) /\ n \in Nat
  BY <1>3 DEF Answered, IdsOf
<1> DEFINE next == IF ~config.enabled THEN Returned(c, "disabled", None)
                   ELSE IF ~Allowed(req) THEN Returned(c, "raised", None)
                   ELSE IF Answered(req) # {} THEN Returned(c, "record", n)
                   ELSE asking
<1>7. /\ call' = [call EXCEPT ![c] = next]
      /\ crossed' = IF call'[c].phase = "asking" /\ req # lock THEN crossed \cup {req} ELSE crossed
  BY DEF LockAndScan, lock, req
<1>8. asking.phase = "asking" /\ asking.lock = lock /\ asking.request = req /\ asking.retry = prev
      /\ asking.attempt = IF prev = None THEN 1 ELSE records[prev].attempt + 1
  OBVIOUS
<1> HIDE DEF asking, prev, n
<1>9. \/ next \in {Idle} \cup Returns /\ next.phase \in {"idle", "returned"}
         /\ (next.phase = "returned" /\ next.answer = "record" => next.id \in IdsOf(req))
         /\ (c \in Workers => next.phase = "returned")
      \/ next = asking /\ Answered(req) = {}
  <2>1. CASE ~config.enabled
    BY <2>1, NothingReturned
  <2>2. CASE config.enabled /\ ~Allowed(req)
    BY <2>2, NothingReturned
  <2>3. CASE config.enabled /\ Allowed(req) /\ Answered(req) # {}
    BY <1>6, <2>3, ReturnedFits
  <2>4. CASE config.enabled /\ Allowed(req) /\ Answered(req) = {}
    BY <2>4
  <2> QED  BY <2>1, <2>2, <2>3, <2>4
<1> HIDE DEF next
<1>10. next \in CallsNow
  BY <1>5, <1>9 DEF CallsNow
<1>11. Becomes(c, next)
  BY <1>7, <1>10, CallBecomes
<1>12. call'[c] = next
  BY <1>11 DEF Becomes
<1>13. CASE next.phase # "asking"
  <2>1. next.phase \in {"idle", "returned"} /\ crossed' = crossed
    BY <1>7, <1>8, <1>9, <1>12, <1>13
  <2>2. next.phase = "returned" /\ next.answer = "record" => next.id \in IdsOf(req)
    BY <1>8, <1>9, <1>13
  <2>3. c \in Workers => next # Idle
    BY <1>8, <1>9, <1>13 DEF Idle
  <2> QED  BY <1>1, <1>2, <1>10, <1>11, <2>1, <2>2, <2>3 DEF lock, req
<1>14. CASE next.phase = "asking"
  <2>0. next = asking /\ Answered(req) = {}
    BY <1>9, <1>14
  <2>1. /\ next.phase = "asking" /\ next.lock = lock /\ next.request = req /\ next.retry = prev
        /\ next.attempt = IF prev = None THEN 1 ELSE records[prev].attempt + 1
    BY <1>8, <2>0
  <2>2. crossed' = IF req # lock THEN crossed \cup {req} ELSE crossed
    BY <1>7, <1>12, <2>1
  <2>3. next # Idle
    BY <2>1 DEF Idle
  <2> QED  BY <1>1, <1>2, <1>10, <1>11, <2>0, <2>1, <2>2, <2>3 DEF lock, req, prev
<1> QED  BY <1>13, <1>14

\* What an answer adds is the last record.
LEMMA AnswerShows ==
  ASSUME CallsOK, NEW c \in Callers, Answer(c)
  PROVE  LET new == Len(records) + 1 IN
         /\ call[c] \in Asks /\ records' \in Seq(Records) /\ UNCHANGED <<crossed, config>>
         /\ new \in Nat /\ new \notin DOMAIN records /\ DOMAIN records' = DOMAIN records \cup {new}
         /\ \A n \in DOMAIN records : records'[n] = records[n] /\ n < new
         /\ records'[new].request = call[c].request /\ records'[new].attempt = call[c].attempt
         /\ records'[new].retry = call[c].retry /\ records'[new].by = c
         /\ \E next \in {Idle} \cup Returns :
              /\ Becomes(c, next) /\ next.phase \in {"idle", "returned"}
              /\ next.phase = "returned" => next.answer = "record" /\ next.id = new
              /\ c \in Workers => next # Idle
<1> DEFINE new == Len(records) + 1
           next == Returned(c, "record", new)
<1>1. call[c] \in Asks /\ records \in Seq(Records)
  BY DEF Answer, CallsOK, Idle, Waits, Returns
<1>2. PICK d \in Dispositions :
        records' = Append(records, [request |-> call[c].request, attempt |-> call[c].attempt,
                                    retry |-> call[c].retry, disposition |-> d, by |-> c])
  BY DEF Answer
<1> DEFINE x == [request |-> call[c].request, attempt |-> call[c].attempt,
                 retry |-> call[c].retry, disposition |-> d, by |-> c]
<1>3. x \in Records /\ x.request = call[c].request /\ x.attempt = call[c].attempt
      /\ x.retry = call[c].retry /\ x.by = c
  BY <1>1 DEF Records, Asks
<1>4. records' = Append(records, x)
  BY <1>2
<1> HIDE DEF x
<1>5. /\ records' \in Seq(Records) /\ Len(records) \in Nat /\ DOMAIN records = 1..Len(records)
      /\ DOMAIN records' = 1..(Len(records) + 1) /\ records'[Len(records) + 1] = x
      /\ \A n \in 1..Len(records) : records'[n] = records[n]
  BY <1>1, <1>3, <1>4
<1>6. /\ new \in Nat /\ new \notin DOMAIN records /\ DOMAIN records' = DOMAIN records \cup {new}
      /\ \A n \in DOMAIN records : n < new
  <2>1. 1..(Len(records) + 1) = (1..Len(records)) \cup {Len(records) + 1}
    BY <1>5
  <2> QED  BY <1>5, <2>1
<1>7. call' = [call EXCEPT ![c] = next] /\ UNCHANGED <<crossed, config>>
  BY DEF Answer
<1> HIDE DEF new
<1>8. /\ next \in {Idle} \cup Returns /\ next.phase \in {"idle", "returned"}
      /\ next.phase = "returned" => next.answer = "record" /\ next.id = new
      /\ c \in Workers => next # Idle
  BY <1>6, ReturnedFits DEF Idle
<1> HIDE DEF next
<1>9. Becomes(c, next)
  BY <1>7, <1>8, CallBecomes DEF CallsNow
<1> USE DEF new
<1> QED  BY <1>1, <1>3, <1>5, <1>6, <1>7, <1>8, <1>9

LEMMA LostShows ==
  ASSUME CallsOK, NEW c \in Callers, AnswerLost(c)
  PROVE  /\ call[c].phase = "asking" /\ UNCHANGED <<records, crossed, config>>
         /\ \E next \in {Idle} \cup Returns :
              /\ Becomes(c, next) /\ next.phase \in {"idle", "returned"}
              /\ next.phase = "returned" => next.answer = "raised"
              /\ c \in Workers => next # Idle
<1> DEFINE next == Returned(c, "raised", None)
<1>1. call' = [call EXCEPT ![c] = next] /\ UNCHANGED <<records, crossed, config>>
      /\ call[c].phase = "asking"
  BY DEF AnswerLost
<1>2. /\ next \in {Idle} \cup Returns /\ next.phase \in {"idle", "returned"}
      /\ next.phase = "returned" => next.answer = "raised"
      /\ c \in Workers => next # Idle
  BY NothingReturned DEF Idle
<1> HIDE DEF next
<1>3. Becomes(c, next)
  BY <1>1, <1>2, CallBecomes DEF CallsNow
<1> QED  BY <1>1, <1>2, <1>3
-----------------------------------------------------------------------------
(***************************************************************************)
(* Chains, as records are added.                                           *)
(***************************************************************************)
\* rs2 is rs with one more record.
Added(rs, rs2, new) ==
  /\ new \notin DOMAIN rs /\ DOMAIN rs2 = DOMAIN rs \cup {new}
  /\ \A n \in DOMAIN rs : rs2[n] = rs[n] /\ n < new

Numbered(rs) == DOMAIN rs \subseteq Nat /\ \A n \in DOMAIN rs : rs[n].attempt \in Nat

LEMMA AttemptsAdded ==
  ASSUME NEW rs, NEW rs2, NEW new, Added(rs, rs2, new), NEW req
  PROVE  /\ rs2[new].request = req => AttemptsAt(req, rs2) = AttemptsAt(req, rs) \cup {new}
         /\ rs2[new].request # req => AttemptsAt(req, rs2) = AttemptsAt(req, rs)
BY DEF Added, AttemptsAt

LEMMA BoundedStays ==
  ASSUME NEW rs, NEW rs2, NEW new \in Nat, Added(rs, rs2, new), Numbered(rs), Numbered(rs2), Bounded(rs)
  PROVE  Bounded(rs2)
<1> SUFFICES ASSUME NEW k \in DOMAIN rs2
             PROVE  LET same == AttemptsAt(rs2[k].request, rs2)
                    IN  /\ \E n \in same : \A m \in same : rs2[m].attempt <= rs2[n].attempt
                        /\ \E n \in same : \A m \in same : m <= n
  BY DEF Bounded
<1> DEFINE req == rs2[k].request
           old == AttemptsAt(req, rs)
           same == AttemptsAt(req, rs2)
<1>1. old \subseteq DOMAIN rs /\ \A m \in old : m < new /\ m \in Nat /\ rs2[m] = rs[m]
  BY DEF AttemptsAt, Added, Numbered
<1>2. old # {} => /\ \E n \in old : \A m \in old : rs[m].attempt <= rs[n].attempt
                  /\ \E n \in old : \A m \in old : m <= n
  <2> SUFFICES ASSUME NEW j \in old PROVE /\ \E n \in old : \A m \in old : rs[m].attempt <= rs[n].attempt
                                          /\ \E n \in old : \A m \in old : m <= n
    OBVIOUS
  <2>1. j \in DOMAIN rs /\ rs[j].request = req
    BY DEF AttemptsAt
  <2> QED  BY <2>1 DEF Bounded
<1>3. CASE rs2[new].request = req
  <2>1. same = old \cup {new}
    BY <1>3, AttemptsAdded
  <2>2. \A m \in same : m <= new
    BY <1>1, <2>1
  <2>3. \E n \in same : \A m \in same : rs2[m].attempt <= rs2[n].attempt
    <3>1. CASE old = {}
      BY <2>1, <3>1 DEF Numbered, Added
    <3>2. CASE old # {}
      <4>1. PICK n \in old : \A m \in old : rs[m].attempt <= rs[n].attempt
        BY <1>2, <3>2
      <4>2. /\ \A m \in old : rs2[m].attempt <= rs2[n].attempt /\ rs2[m].attempt \in Nat
            /\ rs2[new].attempt \in Nat
        BY <1>1, <4>1 DEF Numbered, Added
      <4> HIDE DEF old, same, req
      <4>3. CASE rs2[new].attempt <= rs2[n].attempt
        BY <2>1, <4>2, <4>3
      <4>4. CASE rs2[n].attempt <= rs2[new].attempt
        BY <2>1, <4>2, <4>4
      <4> QED  BY <4>2, <4>3, <4>4
    <3> QED  BY <3>1, <3>2
  <2> QED  BY <2>1, <2>2, <2>3
<1>4. CASE rs2[new].request # req
  <2>1. same = old /\ k \in DOMAIN rs /\ k \in old
    BY <1>4, AttemptsAdded DEF Added, AttemptsAt
  <2> HIDE DEF old, same, req
  <2> QED  BY <1>1, <1>2, <2>1 DEF same, req
<1> QED  BY <1>3, <1>4

LEMMA FollowsStays ==
  ASSUME NEW rs, NEW rs2, NEW attempt, NEW retry, NEW before,
         Follows(attempt, retry, before, rs), \A m \in before : rs2[m] = rs[m]
  PROVE  Follows(attempt, retry, before, rs2)
BY DEF Follows

LEMMA ChainedStays ==
  ASSUME NEW rs, NEW rs2, NEW new \in Nat, Added(rs, rs2, new), Numbered(rs), NEW X, Chained(rs, X),
         rs2[new].request \notin X =>
           Follows(rs2[new].attempt, rs2[new].retry, AttemptsAt(rs2[new].request, rs), rs)
  PROVE  Chained(rs2, X)
<1> SUFFICES ASSUME NEW n \in DOMAIN rs2, rs2[n].request \notin X
             PROVE  Follows(rs2[n].attempt, rs2[n].retry, Earlier(n, rs2), rs2)
  BY DEF Chained
<1>1. CASE n = new
  <2>1. Earlier(n, rs2) = AttemptsAt(rs2[new].request, rs)
    BY <1>1 DEF Earlier, AttemptsAt, Added
  <2>2. \A m \in AttemptsAt(rs2[new].request, rs) : rs2[m] = rs[m]
    BY DEF AttemptsAt, Added
  <2> QED  BY <1>1, <2>1, <2>2, FollowsStays
<1>2. CASE n # new
  <2>1. n \in DOMAIN rs /\ rs2[n] = rs[n]
    BY <1>2 DEF Added
  <2>2. Earlier(n, rs2) = Earlier(n, rs)
    BY <2>1 DEF Earlier, AttemptsAt, Added, Numbered
  <2>3. Follows(rs[n].attempt, rs[n].retry, Earlier(n, rs), rs)
    BY <2>1 DEF Chained
  <2>4. \A m \in Earlier(n, rs) : rs2[m] = rs[m]
    BY DEF Earlier, AttemptsAt, Added
  <2> QED  BY <2>1, <2>2, <2>3, <2>4, FollowsStays
<1> QED  BY <1>1, <1>2

LEMMA AttemptsAreFinite ==
  ASSUME NEW rs \in Seq(Records), NEW req
  PROVE  IsFiniteSet(AttemptsAt(req, rs)) /\ AttemptsAt(req, rs) \subseteq Nat
<1>1. DOMAIN rs = 1..Len(rs) /\ Len(rs) \in Nat
  OBVIOUS
<1>2. IsFiniteSet(1..Len(rs))
  BY <1>1, FS_Interval
<1> QED  BY <1>1, <1>2, FS_Subset DEF AttemptsAt

\* In a chain the attempt with the highest number is the last one.
LEMMA HighestIsLast ==
  ASSUME NEW rs \in Seq(Records), NEW X, Chained(rs, X), Bounded(rs), NEW req, req \notin X,
         NEW p \in AttemptsAt(req, rs),
         \A m \in AttemptsAt(req, rs) : rs[m].attempt <= rs[p].attempt
  PROVE  /\ \A m \in AttemptsAt(req, rs) : m <= p
         /\ rs[p].attempt = Cardinality(AttemptsAt(req, rs))
<1> DEFINE S == AttemptsAt(req, rs)
<1>1. IsFiniteSet(S) /\ S \subseteq Nat
  BY AttemptsAreFinite
<1>2. p \in DOMAIN rs /\ rs[p].request = req
  BY DEF AttemptsAt
<1>3. PICK n \in S : \A m \in S : m <= n
  BY <1>2 DEF Bounded
<1>4. n \in DOMAIN rs /\ rs[n].request = req
  BY DEF AttemptsAt
<1>5. Earlier(n, rs) = S \ {n}
  <2>1. \A m \in S : m < n <=> m # n
    BY <1>1, <1>3
  <2> QED  BY <1>4, <2>1 DEF Earlier
<1>6. rs[n].attempt = Cardinality(S \ {n}) + 1
  BY <1>4, <1>5 DEF Chained, Follows
<1>7. IsFiniteSet(S \ {n}) /\ Cardinality(S \ {n}) = Cardinality(S) - 1
      /\ Cardinality(S) \in Nat /\ Cardinality(S \ {n}) \in Nat
  BY <1>1, FS_RemoveElement, FS_CardinalityType
<1>8. CASE p = n
  BY <1>3, <1>6, <1>7, <1>8
<1>9. CASE p # n
  <2>1. p < n /\ p \in S \ {n}
    BY <1>1, <1>3, <1>9
  <2>2. rs[p].attempt = Cardinality(Earlier(p, rs)) + 1
    BY <1>2 DEF Chained, Follows
  <2>3. Earlier(p, rs) \subseteq (S \ {n}) \ {p}
    BY <1>1, <1>2, <2>1 DEF Earlier
  <2>4. IsFiniteSet((S \ {n}) \ {p}) /\ Cardinality((S \ {n}) \ {p}) = Cardinality(S \ {n}) - 1
    BY <1>7, <2>1, FS_RemoveElement
  <2>5. Cardinality(Earlier(p, rs)) \in Nat
        /\ Cardinality(Earlier(p, rs)) <= Cardinality((S \ {n}) \ {p})
    BY <2>3, <2>4, FS_Subset, FS_CardinalityType
  <2>6. rs[n].attempt <= rs[p].attempt
    BY <1>3
  <2> HIDE DEF S
  <2> QED  BY <1>6, <1>7, <2>2, <2>4, <2>5, <2>6
<1> QED  BY <1>8, <1>9

-----------------------------------------------------------------------------
(***************************************************************************)
(* The steps of classify_text keep the chains.                             *)
(***************************************************************************)
LEMMA ChainsQuiet ==
  ASSUME ChainInv, UNCHANGED <<records, crossed>>,
         \A c \in Callers : call'[c] = call[c] \/ call'[c].phase # "asking"
  PROVE  ChainInv'
<1>1. \A c \in Callers : Ready(call'[c], records, crossed)
  BY DEF ChainInv, Ready
<1>2. \A c \in Callers : call'[c].phase = "asking" => call'[c] = call[c]
  OBVIOUS
<1> QED  BY <1>1, <1>2 DEF ChainInv, Asking

LEMMA RecordsNumbered == ASSUME CallsOK PROVE Numbered(records)
<1>1. \A n \in DOMAIN records : records[n] \in Records
  BY DEF CallsOK
<1> QED  BY <1>1 DEF CallsOK, Numbered, Records

LEMMA ScanKeepsChains ==
  ASSUME CallsOK, ChainInv, NEW c \in Callers, LockAndScan(c)
  PROVE  ChainInv'
<1> DEFINE req == Reread(call[c])
<1>1. UNCHANGED records /\ LockFree(c)
  BY DEF LockAndScan
<1>2. PICK next \in CallsNow :
        /\ Becomes(c, next) /\ next.phase \in {"asking", "idle", "returned"}
        /\ next.phase = "asking" =>
             /\ next.lock = call[c].lock /\ next.request = req
             /\ crossed' = IF req # call[c].lock THEN crossed \cup {req} ELSE crossed
             /\ Answered(req) = {} /\ next.retry = Previous(req)
             /\ next.attempt = IF Previous(req) = None THEN 1
                               ELSE records[Previous(req)].attempt + 1
        /\ next.phase # "asking" => crossed' = crossed
  BY ScanShows DEF ChainInv
<1> HIDE DEF req
<1>3. CASE next.phase # "asking"
  BY <1>1, <1>2, <1>3, ChainsQuiet DEF Becomes
<1>4. CASE next.phase = "asking"
  <2>1. crossed \subseteq crossed' /\ call'[c] = next /\ \A d \in Callers : d # c => call'[d] = call[d]
    BY <1>2, <1>4 DEF Becomes
  <2>2. Bounded(records) /\ Chained(records, crossed)
    BY DEF ChainInv
  <2>3. Chained(records, crossed')
    BY <2>1, <2>2 DEF Chained
  <2>4. IdsOf(req) = AttemptsAt(req, records)
    BY DEF IdsOf, AttemptsAt
  <2>5. \A m \in AttemptsAt(req, records) : records[m].disposition = "failed"
    <3> SUFFICES ASSUME NEW m \in AttemptsAt(req, records) PROVE records[m].disposition = "failed"
      OBVIOUS
    <3>1. m \in DOMAIN records /\ m \notin Answered(req)
      BY <1>2, <1>4 DEF AttemptsAt
    <3>2. records[m] \in Records
      BY <3>1 DEF CallsOK
    <3> QED  BY <2>4, <3>1, <3>2, DispositionsKnown DEF Answered, Resolved, Records
  <2>6. ASSUME req \notin crossed'
        PROVE  Follows(next.attempt, next.retry, AttemptsAt(req, records), records)
    <3>1. CASE AttemptsAt(req, records) = {}
      <4>1. next.retry = None /\ next.attempt = 1
        BY <1>2, <1>4, <2>4, <3>1 DEF Previous
      <4> QED  BY <3>1, <4>1, FS_EmptySet DEF Follows
    <3>2. CASE AttemptsAt(req, records) # {}
      <4>1. PICK k \in AttemptsAt(req, records) :
              \A m \in AttemptsAt(req, records) : records[m].attempt <= records[k].attempt
        <5>1. PICK n \in DOMAIN records : records[n].request = req
          BY <3>2 DEF AttemptsAt
        <5> QED  BY <2>2, <5>1 DEF Bounded
      <4> DEFINE p == Previous(req)
      <4>2. /\ p \in AttemptsAt(req, records)
            /\ \A m \in AttemptsAt(req, records) : records[m].attempt <= records[p].attempt
        BY <2>4, <3>2, <4>1 DEF Previous
      <4> HIDE DEF p
      <4>3. /\ \A m \in AttemptsAt(req, records) : m <= p
            /\ records[p].attempt = Cardinality(AttemptsAt(req, records))
        BY <2>1, <2>2, <2>6, <4>2, HighestIsLast DEF CallsOK
      <4>4. p # None
        BY <4>2, AttemptsAreFinite, NoneIsNothing DEF CallsOK
      <4>5. next.retry = p /\ next.attempt = Cardinality(AttemptsAt(req, records)) + 1
        BY <1>2, <1>4, <4>3, <4>4 DEF p
      <4> QED  BY <2>5, <3>2, <4>2, <4>3, <4>5 DEF Follows
    <3> QED  BY <3>1, <3>2
  <2>7. \A d \in Callers : Ready(call'[d], records, crossed')
    <3>1. Ready(next, records, crossed')
      <4>1. next.request = req /\ (req = next.lock \/ req \in crossed')
        BY <1>2, <1>4
      <4> QED  BY <2>6, <4>1 DEF Ready
    <3>2. \A d \in Callers : Ready(call[d], records, crossed) => Ready(call[d], records, crossed')
      BY <2>1 DEF Ready
    <3> QED  BY <2>1, <3>1, <3>2 DEF ChainInv
  <2>8. \A d \in Callers : Asking(d) => call[d].lock # next.lock
    BY <1>1, <1>2, <1>4 DEF LockFree, Asking
  <2>9. \A d, e \in Callers :
          call'[d].phase = "asking" /\ call'[e].phase = "asking" /\ call'[d].lock = call'[e].lock => d = e
    BY <2>1, <2>8 DEF ChainInv, Asking
  <2> QED  BY <1>1, <2>2, <2>3, <2>7, <2>9 DEF ChainInv, Asking
<1> QED  BY <1>3, <1>4

LEMMA AnswerKeepsChains ==
  ASSUME CallsOK, ChainInv, NEW c \in Callers, Answer(c)
  PROVE  ChainInv'
<1> DEFINE new == Len(records) + 1
           req == call[c].request
<1>1. /\ call[c] \in Asks /\ records' \in Seq(Records) /\ UNCHANGED <<crossed, config>>
      /\ new \in Nat /\ Added(records, records', new)
      /\ records'[new].request = req /\ records'[new].attempt = call[c].attempt
      /\ records'[new].retry = call[c].retry
  BY AnswerShows DEF Added
<1>2. PICK next : Becomes(c, next) /\ next.phase \in {"idle", "returned"}
  BY AnswerShows
<1>3. /\ call[c].phase = "asking" /\ call'[c].phase # "asking"
      /\ \A d \in Callers : d # c => call'[d] = call[d]
  BY <1>1, <1>2 DEF Asks, Becomes
<1>4. Numbered(records) /\ Numbered(records')
  <2>1. \A n \in DOMAIN records' : records'[n] \in Records
    BY <1>1
  <2> QED  BY <1>1, <2>1, RecordsNumbered DEF Numbered, Records
<1> HIDE DEF new
<1>5. Bounded(records')
  BY <1>1, <1>4, BoundedStays DEF ChainInv
<1>6. Chained(records', crossed)
  BY <1>1, <1>3, <1>4, ChainedStays DEF ChainInv, Ready
<1>7. ASSUME NEW d \in Callers PROVE Ready(call'[d], records', crossed)
  <2>1. CASE d = c
    BY <1>3, <2>1 DEF Ready
  <2>2. CASE d # c /\ call[d].phase = "asking" /\ call[d].request \notin crossed
    <3>1. call[d].request # req
      <4> SUFFICES ASSUME call[d].request = req PROVE FALSE
        OBVIOUS
      <4>1. call[d].lock = req /\ call[c].lock = req
        BY <1>3, <2>2 DEF ChainInv, Ready
      <4> QED  BY <1>3, <2>2, <4>1 DEF ChainInv, Asking
    <3>2. AttemptsAt(call[d].request, records') = AttemptsAt(call[d].request, records)
      BY <1>1, <3>1, AttemptsAdded
    <3>3. \A m \in AttemptsAt(call[d].request, records) : records'[m] = records[m]
      BY <1>1 DEF Added, AttemptsAt
    <3>4. Follows(call[d].attempt, call[d].retry, AttemptsAt(call[d].request, records), records)
      BY <2>2 DEF ChainInv, Ready
    <3>5. Follows(call[d].attempt, call[d].retry, AttemptsAt(call[d].request, records), records')
      BY <3>3, <3>4, FollowsStays
    <3> QED  BY <1>3, <2>2, <3>2, <3>5 DEF ChainInv, Ready
  <2>3. CASE d # c /\ (call[d].phase # "asking" \/ call[d].request \in crossed)
    BY <1>3, <2>3 DEF ChainInv, Ready
  <2> QED  BY <2>1, <2>2, <2>3
<1>8. \A d, e \in Callers :
        call'[d].phase = "asking" /\ call'[e].phase = "asking" /\ call'[d].lock = call'[e].lock => d = e
  BY <1>3 DEF ChainInv, Asking
<1> QED  BY <1>1, <1>5, <1>6, <1>7, <1>8 DEF ChainInv, Asking
-----------------------------------------------------------------------------
(***************************************************************************)
(* The steps of replay_existing: types.                                    *)
(***************************************************************************)
LEMMA JobsAre ==
  ASSUME NEW job \in Jobs
  PROVE  /\ job.version \in Nat /\ job.status \in {"running", "completed", "completed_with_issues"}
         /\ job.settings \in Settings /\ DOMAIN job.targets \subseteq Targets
         /\ job.targets \in [DOMAIN job.targets -> TargetStates] /\ job # None
BY NoneIsNoJob DEF Jobs

LEMMA AreJobs ==
  ASSUME NEW version \in Nat, NEW status \in {"running", "completed", "completed_with_issues"},
         NEW settings \in Settings, NEW T \in SUBSET Targets, NEW targets \in [T -> TargetStates]
  PROVE  [version |-> version, status |-> status, settings |-> settings, targets |-> targets] \in Jobs
BY DEF Jobs

\* t's state in the job of a run becomes target.
SetTarget(run, t, target) == [run EXCEPT !.job.targets[t] = target]

LEMMA TargetSet ==
  ASSUME NEW run \in Working, NEW t \in DOMAIN run.job.targets, NEW target \in TargetStates
  PROVE  LET next == SetTarget(run, t, target) IN
         /\ next \in Working /\ next.phase = run.phase /\ next.live = run.live /\ next.done = run.done
         /\ next.batch = run.batch /\ next.at = run.at
         /\ next.job.version = run.job.version /\ next.job.status = run.job.status
         /\ next.job.settings = run.job.settings /\ DOMAIN next.job.targets = DOMAIN run.job.targets
         /\ next.job.targets[t] = target
         /\ \A u \in DOMAIN run.job.targets : u # t => next.job.targets[u] = run.job.targets[u]
<1> DEFINE job == run.job
           T == DOMAIN job.targets
           targets == [job.targets EXCEPT ![t] = target]
           new == [job EXCEPT !.targets = targets]
           next == SetTarget(run, t, target)
<1>1. run \in Runs /\ job \in Jobs /\ Reads(run)
  BY DEF Working, Runs
<1>2. /\ job.version \in Nat /\ job.status \in {"running", "completed", "completed_with_issues"}
      /\ job.settings \in Settings /\ T \subseteq Targets /\ job.targets \in [T -> TargetStates]
  BY <1>1, JobsAre
<1>3. /\ targets \in [T -> TargetStates] /\ targets[t] = target
      /\ \A u \in T : u # t => targets[u] = job.targets[u]
  <2>1. t \in T
    OBVIOUS
  <2> HIDE DEF T
  <2> QED  BY <1>2, <2>1
<1>4. new = [version |-> job.version, status |-> job.status, settings |-> job.settings, targets |-> targets]
  BY <1>1 DEF Jobs
<1>5. next = [run EXCEPT !.job = new]
  BY <1>1 DEF Runs, Jobs, SetTarget
<1> HIDE DEF targets, T
<1>6. new \in Jobs
  <2>1. /\ job.version \in Nat /\ job.status \in {"running", "completed", "completed_with_issues"}
        /\ job.settings \in Settings /\ T \in SUBSET Targets /\ targets \in [T -> TargetStates]
    BY <1>2, <1>3
  <2> HIDE DEF job, new
  <2>2. [version |-> job.version, status |-> job.status, settings |-> job.settings, targets |-> targets] \in Jobs
    BY <2>1, AreJobs
  <2> QED  BY <1>4, <2>2
<1>7. /\ new.version = job.version /\ new.status = job.status
      /\ new.settings = job.settings /\ new.targets = targets
  BY <1>4
<1> HIDE DEF new, job
<1>8. /\ next \in Runs /\ next.job = new /\ next.phase = run.phase /\ next.live = run.live
      /\ next.done = run.done /\ next.batch = run.batch /\ next.at = run.at
  BY <1>1, <1>5, <1>6 DEF Runs
<1> HIDE DEF next
<1>9. DOMAIN next.job.targets = T
  BY <1>3, <1>7, <1>8
<1>10. Reads(next)
  BY <1>1, <1>8, <1>9 DEF Reads, T, job
<1> QED  BY <1>1, <1>3, <1>7, <1>8, <1>9, <1>10 DEF Working, T, job, next

\* The run after its job was written.
Written(run) == [run EXCEPT !.job = [run.job EXCEPT !.version = @ + 1]]

LEMMA WrittenFits ==
  ASSUME NEW run \in Working
  PROVE  LET next == Written(run) IN
         /\ next \in Working /\ next.phase = run.phase /\ next.live = run.live /\ next.done = run.done
         /\ next.batch = run.batch /\ next.at = run.at
         /\ next.job.version = run.job.version + 1 /\ next.job.status = run.job.status
         /\ next.job.settings = run.job.settings /\ next.job.targets = run.job.targets
         /\ next.job \in Jobs
<1> DEFINE job == run.job
           new == [job EXCEPT !.version = @ + 1]
           next == Written(run)
<1>1. run \in Runs /\ job \in Jobs /\ Reads(run)
  BY DEF Working, Runs
<1>2. new \in Jobs /\ new.version = job.version + 1 /\ new.status = job.status
      /\ new.settings = job.settings /\ new.targets = job.targets
  BY <1>1 DEF Jobs
<1>3. next = [run EXCEPT !.job = new]
  BY DEF Written
<1> HIDE DEF new, job
<1>4. /\ next \in Runs /\ next.job = new /\ next.phase = run.phase /\ next.live = run.live
      /\ next.done = run.done /\ next.batch = run.batch /\ next.at = run.at
  BY <1>1, <1>2, <1>3 DEF Runs
<1> HIDE DEF next
<1>5. Reads(next)
  BY <1>1, <1>2, <1>4 DEF Reads, job
<1> QED  BY <1>1, <1>2, <1>4, <1>5 DEF Working, job, next

LEMMA Persisted ==
  ASSUME TypeInv, NEW w \in Workers, NEW run \in Working, Persist(w, run)
  PROVE  /\ worker' \in [Workers -> {NotRunning} \cup Working]
         /\ worker'[w] = Written(run) /\ \A v \in Workers : v # w => worker'[v] = worker[v]
         /\ manifest' \in {manifest, Written(run).job} /\ manifest' \in Jobs
         /\ rewritten' \in BOOLEAN /\ (manifest # None => manifest.version <= manifest'.version)
         /\ ~rewritten' => /\ manifest' = Written(run).job /\ ~rewritten
                           /\ manifest # None => manifest.version < Written(run).job.version
<1> DEFINE next == Written(run)
           job == [run.job EXCEPT !.version = @ + 1]
           again == manifest # None /\ job.version <= manifest.version
<1>1. next \in Working /\ next.job \in Jobs
  BY WrittenFits
<1>2. next = [run EXCEPT !.job = job] /\ next.job = job
  BY DEF Working, Runs, Written
<1>3. /\ worker' = [worker EXCEPT ![w] = next]
      /\ manifest' = IF again /\ job.version < manifest.version THEN manifest ELSE job
      /\ rewritten' = (rewritten \/ again)
  BY <1>2 DEF Persist
<1>4. worker \in [Workers -> {NotRunning} \cup Working] /\ manifest \in Jobs \cup {None} /\ rewritten \in BOOLEAN
  BY DEF TypeInv
<1>5. job.version \in Nat /\ (manifest # None => manifest.version \in Nat)
  BY <1>1, <1>2, <1>4, JobsAre
<1> HIDE DEF next, job
<1>6. manifest' \in {manifest, job} /\ manifest' \in Jobs /\ rewritten' \in BOOLEAN
  BY <1>1, <1>2, <1>3, <1>4
<1>7. ~rewritten' => manifest' = job /\ ~rewritten /\ (manifest # None => manifest.version < job.version)
  <2> SUFFICES ASSUME ~rewritten'
               PROVE  manifest' = job /\ ~rewritten /\ (manifest # None => manifest.version < job.version)
    OBVIOUS
  <2> HIDE DEF again
  <2>1. ~rewritten /\ ~again
    BY <1>3
  <2>2. manifest' = job
    BY <1>3, <2>1
  <2> USE DEF again
  <2>3. manifest # None => manifest.version < job.version
    BY <1>5, <2>1
  <2> QED  BY <2>1, <2>2, <2>3
<1>8. manifest # None => manifest.version <= manifest'.version
  BY <1>3, <1>5
<1> QED  BY <1>1, <1>2, <1>3, <1>4, <1>6, <1>7, <1>8 DEF next
-----------------------------------------------------------------------------
\* What the steps make of a run, before its job is written.
PassedRun(run, t, target) == [SetTarget(run, t, target) EXCEPT !.done = @ \cup {t}]
Asked(run, t, target) == [SetTarget(run, t, target) EXCEPT !.phase = "asking", !.at = t]
Enqueued(run, t, target) == [PassedRun(run, t, target) EXCEPT !.batch = Append(@, t)]
Settled(run, t, target) ==
  [PassedRun(run, t, target) EXCEPT !.at = None, !.phase = IF @ = "asking" THEN "walking" ELSE @]
Failed(run, t, target) == [SetTarget(run, t, target) EXCEPT !.batch = Tail(@)]

LEMMA Tails ==
  ASSUME NEW S, NEW s \in Seq(S), s # <<>>
  PROVE  /\ 1 \in DOMAIN s /\ Head(s) = s[1] /\ Head(s) \in S /\ Tail(s) \in Seq(S)
         /\ \A i \in DOMAIN Tail(s) : i \in Nat /\ i + 1 \in DOMAIN s /\ i + 1 # 1 /\ Tail(s)[i] = s[i + 1]
OBVIOUS

LEMMA Appended ==
  ASSUME NEW S, NEW s \in Seq(S), NEW t \in S
  PROVE  /\ Append(s, t) \in Seq(S) /\ DOMAIN Append(s, t) = DOMAIN s \cup {Len(s) + 1}
         /\ Len(s) + 1 \notin DOMAIN s /\ Append(s, t)[Len(s) + 1] = t
         /\ \A i \in DOMAIN s : Append(s, t)[i] = s[i]
OBVIOUS

LEMMA PassedFits ==
  ASSUME NEW run \in Working, NEW t \in DOMAIN run.job.targets, NEW target \in TargetStates
  PROVE  LET next == PassedRun(run, t, target) IN
         /\ next \in Working /\ next.phase = run.phase /\ next.live = run.live
         /\ next.done = run.done \cup {t} /\ next.batch = run.batch /\ next.at = run.at
         /\ next.job = SetTarget(run, t, target).job
<1> DEFINE set == SetTarget(run, t, target)
           next == PassedRun(run, t, target)
<1>1. /\ set \in Working /\ set.phase = run.phase /\ set.live = run.live /\ set.done = run.done
      /\ set.batch = run.batch /\ set.at = run.at
  BY TargetSet
<1>2. t \in Targets /\ run.done \in SUBSET Targets
  BY JobsAre DEF Working, Runs
<1>3. next = [set EXCEPT !.done = @ \cup {t}]
  BY DEF PassedRun
<1> HIDE DEF set, next
<1>4. /\ next \in Runs /\ next.phase = run.phase /\ next.live = run.live /\ next.job = set.job
      /\ next.done = run.done \cup {t} /\ next.batch = run.batch /\ next.at = run.at
  BY <1>1, <1>2, <1>3 DEF Runs, Working
<1>5. Reads(next)
  BY <1>1, <1>4 DEF Working, Reads
<1> QED  BY <1>4, <1>5 DEF Working, set, next

LEMMA AskedFits ==
  ASSUME NEW run \in Working, NEW t \in DOMAIN run.job.targets, NEW target \in TargetStates,
         run.phase = "walking"
  PROVE  LET next == Asked(run, t, target) IN
         /\ next \in Working /\ next.phase = "asking" /\ next.live = run.live
         /\ next.done = run.done /\ next.batch = run.batch /\ next.at = t
         /\ next.job = SetTarget(run, t, target).job
<1> DEFINE set == SetTarget(run, t, target)
           next == Asked(run, t, target)
<1>1. /\ DOMAIN set.job.targets = DOMAIN run.job.targets
      /\ set \in Working /\ set.phase = run.phase /\ set.live = run.live /\ set.done = run.done
      /\ set.batch = run.batch /\ set.at = run.at
  BY TargetSet
<1>2. t \in Targets
  BY JobsAre DEF Working, Runs
<1>3. next = [set EXCEPT !.phase = "asking", !.at = t]
  BY DEF Asked
<1> HIDE DEF set, next
<1>4. /\ next \in Runs /\ next.phase = "asking" /\ next.live = run.live /\ next.job = set.job
      /\ next.done = run.done /\ next.batch = run.batch /\ next.at = t
  BY <1>1, <1>2, <1>3 DEF Runs, Working
<1>5. t \in DOMAIN next.job.targets
  BY <1>1, <1>4
<1>6. Reads(next)
  BY <1>1, <1>4, <1>5 DEF Working, Reads
<1> QED  BY <1>4, <1>6 DEF Working, set, next

LEMMA EnqueuedFits ==
  ASSUME NEW run \in Working, NEW t \in DOMAIN run.job.targets, NEW target \in TargetStates,
         run.phase = "walking", run.live[t] # None
  PROVE  LET next == Enqueued(run, t, target) IN
         /\ next \in Working /\ next.phase = run.phase /\ next.live = run.live
         /\ next.done = run.done \cup {t} /\ next.batch = Append(run.batch, t) /\ next.at = run.at
         /\ next.job = SetTarget(run, t, target).job
<1> DEFINE set == PassedRun(run, t, target)
           next == Enqueued(run, t, target)
<1>1. /\ set \in Working /\ set.phase = run.phase /\ set.live = run.live
      /\ set.done = run.done \cup {t} /\ set.batch = run.batch /\ set.at = run.at
      /\ set.job = SetTarget(run, t, target).job
  BY PassedFits
<1>2. t \in Targets /\ run.batch \in Seq(Targets)
  BY JobsAre DEF Working, Runs
<1>3. next = [set EXCEPT !.batch = Append(@, t)]
  BY DEF Enqueued
<1> HIDE DEF set, next
<1>4. /\ next \in Runs /\ next.phase = run.phase /\ next.live = run.live /\ next.job = set.job
      /\ next.done = run.done \cup {t} /\ next.batch = Append(run.batch, t) /\ next.at = run.at
  <2>1. Append(run.batch, t) \in Seq(Targets)
    BY <1>2
  <2> QED  BY <1>1, <1>2, <1>3, <2>1 DEF Runs, Working
<1>5. DOMAIN next.job.targets = DOMAIN run.job.targets
  BY <1>1, <1>4, TargetSet
<1>6. Reads(next)
  <2>1. /\ run.at # None => run.at \in DOMAIN run.job.targets
        /\ \A i \in DOMAIN run.batch :
             run.batch[i] \in DOMAIN run.job.targets /\ run.live[run.batch[i]] # None
    BY DEF Working, Reads
  <2>2. next.live \in Snapshots /\ next.phase # "entering"
    BY <1>4 DEF Working, Reads
  <2>3. \A i \in DOMAIN next.batch : next.batch[i] = t \/ \E j \in DOMAIN run.batch : next.batch[i] = run.batch[j]
    BY <1>2, <1>4, Appended
  <2> QED  BY <1>4, <1>5, <2>1, <2>2, <2>3 DEF Reads
<1> QED  BY <1>1, <1>4, <1>6 DEF Working, set, next

LEMMA SettledFits ==
  ASSUME NEW run \in Working, NEW t \in DOMAIN run.job.targets, NEW target \in TargetStates,
         run.phase \in {"asking", "replying"}
  PROVE  LET next == Settled(run, t, target) IN
         /\ next \in Working /\ next.live = run.live
         /\ next.phase = IF run.phase = "asking" THEN "walking" ELSE "replying"
         /\ next.done = run.done \cup {t} /\ next.batch = run.batch /\ next.at = None
         /\ next.job = SetTarget(run, t, target).job
<1> DEFINE set == PassedRun(run, t, target)
           next == Settled(run, t, target)
<1>1. /\ set \in Working /\ set.phase = run.phase /\ set.live = run.live
      /\ set.done = run.done \cup {t} /\ set.batch = run.batch /\ set.at = run.at
      /\ set.job = SetTarget(run, t, target).job
  BY PassedFits
<1>2. next = [set EXCEPT !.at = None, !.phase = IF @ = "asking" THEN "walking" ELSE @]
  BY DEF Settled
<1> HIDE DEF set, next
<1>3. /\ next \in Runs /\ next.live = run.live /\ next.job = set.job
      /\ next.phase = IF run.phase = "asking" THEN "walking" ELSE "replying"
      /\ next.done = run.done \cup {t} /\ next.batch = run.batch /\ next.at = None
  BY <1>1, <1>2 DEF Runs, Working
<1>4. Reads(next)
  BY <1>1, <1>3 DEF Working, Reads
<1> QED  BY <1>1, <1>3, <1>4 DEF Working, set, next

LEMMA TakenFits ==
  ASSUME NEW run \in Working, run.phase = "replying", run.batch # <<>>
  PROVE  LET next == [run EXCEPT !.at = Head(run.batch), !.batch = Tail(@)] IN
         /\ next \in Working /\ next.phase = run.phase /\ next.live = run.live
         /\ next.done = run.done /\ next.batch = Tail(run.batch) /\ next.at = Head(run.batch)
         /\ next.job = run.job
<1> DEFINE next == [run EXCEPT !.at = Head(run.batch), !.batch = Tail(@)]
<1>1. run \in Runs /\ run.batch \in Seq(Targets) /\ Reads(run)
  BY DEF Working, Runs
<1>2. Head(run.batch) \in Targets /\ Tail(run.batch) \in Seq(Targets)
      /\ \A i \in DOMAIN Tail(run.batch) : \E j \in DOMAIN run.batch : Tail(run.batch)[i] = run.batch[j]
  BY <1>1, Tails
<1>3. /\ next \in Runs /\ next.phase = run.phase /\ next.live = run.live /\ next.job = run.job
      /\ next.done = run.done /\ next.batch = Tail(run.batch) /\ next.at = Head(run.batch)
  BY <1>1, <1>2 DEF Runs
<1> HIDE DEF next
<1>4. Reads(next)
  BY <1>1, <1>2, <1>3 DEF Reads
<1> QED  BY <1>3, <1>4 DEF Working, next

LEMMA FailedFits ==
  ASSUME NEW run \in Working, NEW t \in DOMAIN run.job.targets, NEW target \in TargetStates,
         run.phase = "failing", run.batch # <<>>
  PROVE  LET next == Failed(run, t, target) IN
         /\ next \in Working /\ next.phase = run.phase /\ next.live = run.live
         /\ next.done = run.done /\ next.batch = Tail(run.batch) /\ next.at = run.at
         /\ next.job = SetTarget(run, t, target).job
<1> DEFINE set == SetTarget(run, t, target)
           next == Failed(run, t, target)
<1>1. /\ set \in Working /\ set.phase = run.phase /\ set.live = run.live /\ set.done = run.done
      /\ set.batch = run.batch /\ set.at = run.at
  BY TargetSet
<1>2. next = [set EXCEPT !.batch = Tail(@)]
  BY DEF Failed
<1>3. run.batch \in Seq(Targets)
  BY DEF Working, Runs
<1>4. Tail(run.batch) \in Seq(Targets)
      /\ \A i \in DOMAIN Tail(run.batch) : \E j \in DOMAIN run.batch : Tail(run.batch)[i] = run.batch[j]
  BY <1>3, Tails
<1> HIDE DEF set, next
<1>5. /\ next \in Runs /\ next.phase = run.phase /\ next.live = run.live /\ next.job = set.job
      /\ next.done = run.done /\ next.batch = Tail(run.batch) /\ next.at = run.at
  BY <1>1, <1>2, <1>4 DEF Runs, Working
<1>6. Reads(next)
  BY <1>1, <1>4, <1>5 DEF Working, Reads
<1> QED  BY <1>5, <1>6 DEF Working, set, next

LEMMA EnteringFits ==
  ASSUME NEW job \in Jobs
  PROVE  LET next == Run("entering", job) IN
         /\ next \in Working /\ next.phase = "entering" /\ next.job = job
         /\ next.batch = <<>> /\ next.at = None
BY DEF Run, Runs, Working, Reads

\* A run whose worker has taken the lock and read the evidence.
Locked(run, ev) == [run EXCEPT !.phase = "walking", !.live = ev]

LEMMA LockedFits ==
  ASSUME NEW run \in Working, run.phase = "entering", NEW ev \in Snapshots
  PROVE  LET next == Locked(run, ev) IN
         /\ next \in Working /\ next.phase = "walking" /\ next.live = ev
         /\ next.done = run.done /\ next.batch = run.batch /\ next.at = run.at /\ next.job = run.job
<1> DEFINE next == Locked(run, ev)
<1>1. run \in Runs /\ run.batch = <<>> /\ DOMAIN run.batch = {} /\ run.at = None
  BY DEF Working, Reads
<1>2. /\ next \in Runs /\ next.phase = "walking" /\ next.live = ev
      /\ next.done = run.done /\ next.batch = run.batch /\ next.at = run.at /\ next.job = run.job
  BY <1>1 DEF Runs, Locked
<1> HIDE DEF next
<1>3. Reads(next)
  BY <1>1, <1>2 DEF Reads
<1> QED  BY <1>2, <1>3 DEF Working, next

LEMMA FlushedFits ==
  ASSUME NEW run \in Working, run.phase = "walking", NEW p \in {"replying", "failing"}
  PROVE  LET next == [run EXCEPT !.phase = p] IN
         /\ next \in Working /\ next.phase = p /\ next.live = run.live
         /\ next.done = run.done /\ next.batch = run.batch /\ next.at = run.at /\ next.job = run.job
BY DEF Runs, Working, Reads

LEMMA TargetsBegin ==
  ASSUME NEW target \in TargetStates
  PROVE  /\ Begun(target) \in TargetStates /\ Begun(target).status = "running"
         /\ Begun(target).attempts = target.attempts + 1
         /\ Begun(target).provider = target.provider /\ Begun(target).input = target.input
<1> DEFINE more == target.attempts + 1
           next == [target EXCEPT !.status = "running", !.attempts = more]
<1>1. more \in Nat
  BY DEF TargetStates
<1>2. Begun(target) = next
  BY DEF TargetStates, Begun
<1> HIDE DEF more
<1>3. /\ next \in TargetStates /\ next.status = "running" /\ next.attempts = more
      /\ next.provider = target.provider /\ next.input = target.input
  BY <1>1 DEF TargetStates
<1> QED  BY <1>2, <1>3 DEF more

LEMMA TargetsFail ==
  ASSUME NEW target \in TargetStates
  PROVE  /\ Fail(target) \in TargetStates /\ Fail(target).status = "failed"
         /\ Fail(target).attempts = target.attempts
         /\ Fail(target).provider = target.provider /\ Fail(target).input = target.input
BY DEF TargetStates, Fail

LEMMA TargetsRefused ==
  ASSUME NEW target \in TargetStates, NEW s \in {"failed", "blocked"}
  PROVE  LET next == [target EXCEPT !.status = s] IN
         /\ next \in TargetStates /\ next.status = s /\ next.attempts = target.attempts
         /\ next.provider = target.provider /\ next.input = target.input
BY DEF TargetStates

LEMMA TargetsSettle ==
  ASSUME NEW target \in TargetStates, NEW returned \in Returns
  PROVE  LET next == Outcome(target, returned) IN
         /\ next \in TargetStates /\ next.attempts = target.attempts
         /\ next.provider = target.provider /\ next.input = target.input
         /\ next.status \in {"disabled", "failed", "completed"}
         /\ next.status = "completed" =>
              returned.answer = "record" /\ next.record = returned.id /\ Resolved(records[returned.id])
<1>1. returned.id \in Nat \cup {None} /\ returned.answer \in {"disabled", "raised", "record"}
  BY DEF Returns
<1> QED  BY <1>1 DEF TargetStates, Outcome

LEMMA TargetsAreNew ==
  ASSUME NEW item \in Items, NEW p \in Providers, config \in Settings
  PROVE  /\ NewTarget(item, p) \in TargetStates /\ NewTarget(item, p).status \in {"blocked", "pending"}
         /\ NewTarget(item, p).attempts = 0
<1>1. Clip[item.text][config.limit] \in Inputs
  BY ClipsKnown DEF Items, Settings
<1> QED  BY <1>1 DEF TargetStates, NewTarget

-----------------------------------------------------------------------------
LEMMA StartShows ==
  ASSUME TypeInv, NEW w \in Workers, Start(w)
  PROVE  \E job \in Jobs :
           /\ job.version = 0 /\ job.status = "running" /\ job.settings = config
           /\ \A t \in DOMAIN job.targets : job.targets[t].status \in {"blocked", "pending"}
           /\ worker' = [worker EXCEPT ![w] = Run("entering", job)]
           /\ runs = 0 /\ runs' = 1 /\ UNCHANGED <<classificationVars, manifest, jobLock, rewritten>>
<1>1. PICK o \in Overrides :
        worker' = [worker EXCEPT ![w] = Run("entering",
            [version |-> 0, status |-> "running", settings |-> config,
             targets |-> [t \in Present |-> NewTarget(evidence[t], Chosen(evidence[t], o))]])]
  BY DEF Start
<1> DEFINE targets == [t \in Present |-> NewTarget(evidence[t], Chosen(evidence[t], o))]
           job == [version |-> 0, status |-> "running", settings |-> config, targets |-> targets]
<1>2. \A t \in Present : /\ NewTarget(evidence[t], Chosen(evidence[t], o)) \in TargetStates
                         /\ NewTarget(evidence[t], Chosen(evidence[t], o)).status \in {"blocked", "pending"}
  <2> SUFFICES ASSUME NEW t \in Present
               PROVE  evidence[t] \in Items /\ Chosen(evidence[t], o) \in Providers
    BY TargetsAreNew DEF TypeInv, CallsOK
  <2>1. evidence[t] \in Items
    BY DEF TypeInv, Snapshots, Present
  <2>2. Chosen(evidence[t], o) \in Providers
    BY ProviderKnown, OverridesKnown DEF Chosen
  <2> QED  BY <2>1, <2>2
<1>3. /\ targets \in [Present -> TargetStates] /\ Present \subseteq Targets
      /\ \A t \in Present : targets[t].status \in {"blocked", "pending"}
  BY <1>2 DEF Present
<1>4. config \in Settings
  BY DEF TypeInv, CallsOK
<1> HIDE DEF targets
<1>5. job \in Jobs
  BY <1>3, <1>4, AreJobs
<1>6. /\ job.version = 0 /\ job.status = "running" /\ job.settings = config
      /\ \A t \in DOMAIN job.targets : job.targets[t].status \in {"blocked", "pending"}
  BY <1>3
<1>7. worker' = [worker EXCEPT ![w] = Run("entering", job)]
  BY <1>1 DEF targets
<1>8. runs = 0 /\ runs' = 1 /\ UNCHANGED <<classificationVars, manifest, jobLock, rewritten>>
  BY DEF Start
<1> HIDE DEF job
<1> QED  BY <1>5, <1>6, <1>7, <1>8

LEMMA ResumeShows ==
  ASSUME TypeInv, NEW w \in Workers, Resume(w)
  PROVE  \E job \in Jobs :
           /\ manifest \in Jobs /\ job.version = manifest.version /\ job.status = "running"
           /\ job.settings = manifest.settings /\ job.targets = manifest.targets
           /\ worker' = [worker EXCEPT ![w] = Run("entering", job)]
           /\ worker[w] = NotRunning /\ runs # 0 /\ runs' \in Nat /\ runs' # 0
           /\ UNCHANGED <<classificationVars, manifest, jobLock, rewritten>>
<1> DEFINE job == [manifest EXCEPT !.status = "running"]
<1>1. manifest \in Jobs
  BY DEF TypeInv, Resume
<1>2. job \in Jobs /\ job.version = manifest.version /\ job.status = "running"
      /\ job.settings = manifest.settings /\ job.targets = manifest.targets
  BY <1>1 DEF Jobs
<1>3. worker' = [worker EXCEPT ![w] = Run("entering", job)]
  BY DEF Resume
<1>4. /\ worker[w] = NotRunning /\ runs # 0 /\ runs' \in Nat /\ runs' # 0
      /\ UNCHANGED <<classificationVars, manifest, jobLock, rewritten>>
  BY DEF Resume, TypeInv
<1> HIDE DEF job
<1> QED  BY <1>1, <1>2, <1>3, <1>4

LEMMA AWorkerRuns ==
  ASSUME TypeInv, NEW w \in Workers, worker[w].phase # "none"
  PROVE  worker[w] \in Working
BY DEF TypeInv, NotRunning

\* The run of a worker that is at a target.
LEMMA AtTargetShows ==
  ASSUME TypeInv, NEW w \in Workers, NEW t \in Targets, AtTarget(w, t)
  PROVE  /\ worker[w] \in Working /\ worker[w].phase = "walking" /\ t \in DOMAIN worker[w].job.targets
         /\ t \notin worker[w].done /\ worker[w].job.targets[t] \in TargetStates
         /\ worker[w].job \in Jobs /\ worker[w].live \in Snapshots
<1>1. worker[w] \in Working /\ worker[w].phase = "walking"
  <2>1. worker[w].phase = "walking"
    BY DEF AtTarget
  <2> QED  BY <2>1, AWorkerRuns
<1>2. t \in DOMAIN worker[w].job.targets /\ t \notin worker[w].done
  BY DEF AtTarget, Todo
<1>3. worker[w].job \in Jobs
  BY <1>1 DEF Working, Runs
<1> QED  BY <1>1, <1>2, <1>3, JobsAre DEF Working, Reads

LEMMA LockShows ==
  ASSUME TypeInv, NEW w \in Workers, Lock(w)
  PROVE  LET run == [worker[w] EXCEPT !.phase = "walking", !.live = evidence] IN
         /\ worker[w] \in Working /\ worker[w].phase = "entering"
         /\ run \in Working /\ run.phase = "walking" /\ run.live = evidence /\ run.done = worker[w].done
         /\ run.batch = <<>> /\ run.at = None /\ run.job = worker[w].job
         /\ Persist(w, run) /\ jobLock = None /\ jobLock' = w /\ UNCHANGED <<classificationVars, runs>>
<1>1. worker[w] \in Working /\ worker[w].phase = "entering"
  <2>1. worker[w].phase = "entering"
    BY DEF Lock
  <2> QED  BY <2>1, AWorkerRuns
<1>2. worker[w].batch = <<>> /\ worker[w].at = None
  BY <1>1 DEF Working, Reads
<1>3. evidence \in Snapshots
  BY DEF TypeInv
<1> DEFINE run == [worker[w] EXCEPT !.phase = "walking", !.live = evidence]
<1>4. /\ run \in Working /\ run.phase = "walking" /\ run.live = evidence /\ run.done = worker[w].done
      /\ run.batch = worker[w].batch /\ run.at = worker[w].at /\ run.job = worker[w].job
  <2>1. run = Locked(worker[w], evidence)
    BY DEF Locked
  <2> HIDE DEF run
  <2> QED  BY <1>1, <1>3, <2>1, LockedFits
<1>5. Persist(w, run) /\ jobLock = None /\ jobLock' = w /\ UNCHANGED <<classificationVars, runs>>
  BY DEF Lock
<1> HIDE DEF run
<1>6. run.batch = <<>> /\ run.at = None
  BY <1>2, <1>4
<1> QED  BY <1>1, <1>4, <1>5, <1>6 DEF run

LEMMA RefuseShows ==
  ASSUME TypeInv, NEW w \in Workers, NEW t \in Targets, Refuse(w, t)
  PROVE  \E target \in TargetStates :
           /\ target.status \in {"failed", "blocked"}
           /\ target.attempts = worker[w].job.targets[t].attempts
           /\ target.provider = worker[w].job.targets[t].provider
           /\ target.input = worker[w].job.targets[t].input
           /\ Persist(w, PassedRun(worker[w], t, target)) /\ UNCHANGED <<classificationVars, jobLock, runs>>
<1> DEFINE now == worker[w].job.targets[t]
<1>1. now \in TargetStates
  BY AtTargetShows DEF Refuse
<1>2. \/ Persist(w, Passed(w, t, [now EXCEPT !.status = "failed"]))
      \/ Persist(w, Passed(w, t, [now EXCEPT !.status = "blocked"]))
  BY DEF Refuse
<1>3. \A target : Passed(w, t, target) = PassedRun(worker[w], t, target)
  BY DEF Passed, PassedRun, WithTarget, SetTarget
<1>4. UNCHANGED <<classificationVars, jobLock, runs>>
  BY DEF Refuse
<1> HIDE DEF now
<1>5. PICK s \in {"failed", "blocked"} : Persist(w, PassedRun(worker[w], t, [now EXCEPT !.status = s]))
  BY <1>2, <1>3
<1> DEFINE next == [now EXCEPT !.status = s]
<1>6. /\ next \in TargetStates /\ next.status = s /\ next.attempts = now.attempts
      /\ next.provider = now.provider /\ next.input = now.input
  BY <1>1, TargetsRefused
<1>7. Persist(w, PassedRun(worker[w], t, next))
  BY <1>5
<1> HIDE DEF next
<1> QED  BY <1>4, <1>6, <1>7 DEF now

LEMMA UnchangedShows ==
  ASSUME TypeInv, NEW w \in Workers, NEW t \in Targets, AtTarget(w, t), Unchanged(w, t)
  PROVE  /\ worker[w].live[t] \in Items /\ worker[w].live[t] # None
         /\ Froze(worker[w].live[t], worker[w].job, t)
         /\ worker[w].job.targets[t].provider \in Providers
BY AtTargetShows DEF Unchanged, Snapshots, TargetStates, Froze

LEMMA AskShows ==
  ASSUME TypeInv, NEW w \in Workers, NEW t \in Targets, Ask(w, t)
  PROVE  LET now == worker[w].job.targets[t] IN
         /\ AtTarget(w, t) /\ Unchanged(w, t)
         /\ Persist(w, Asked(worker[w], t, Begun(now))) /\ Classify(w, t, worker[w].live[t], now.provider)
         /\ UNCHANGED <<evidence, config, edits, records, calls, crossed, jobLock, runs>>
<1>1. \A target : [WithTarget(w, t, target) EXCEPT !.phase = "asking", !.at = t] = Asked(worker[w], t, target)
  BY DEF Asked, WithTarget, SetTarget
<1> QED  BY <1>1 DEF Ask

LEMMA EnqueueShows ==
  ASSUME TypeInv, NEW w \in Workers, NEW t \in Targets, Enqueue(w, t)
  PROVE  LET now == worker[w].job.targets[t] IN
         /\ AtTarget(w, t) /\ Unchanged(w, t) /\ Persist(w, Enqueued(worker[w], t, Begun(now)))
         /\ UNCHANGED <<classificationVars, jobLock, runs>>
<1>1. \A target : [Passed(w, t, target) EXCEPT !.batch = Append(@, t)] = Enqueued(worker[w], t, target)
  BY DEF Enqueued, PassedRun, Passed, WithTarget, SetTarget
<1> QED  BY <1>1 DEF Enqueue

LEMMA SettleShows ==
  ASSUME TypeInv, NEW w \in Workers, Settle(w)
  PROVE  LET t == worker[w].at
             now == worker[w].job.targets[t]
         IN
         /\ worker[w] \in Working /\ worker[w].phase \in {"asking", "replying"}
         /\ t # None /\ t \in DOMAIN worker[w].job.targets /\ now \in TargetStates /\ t \in Targets
         /\ call[w] \in Returns /\ Outcome(now, call[w]) \in TargetStates
         /\ Persist(w, Settled(worker[w], t, Outcome(now, call[w])))
         /\ call' \in [Callers -> CallsNow] /\ call' = [call EXCEPT ![w] = Idle]
         /\ UNCHANGED <<evidence, config, edits, records, calls, crossed, jobLock, runs>>
<1> DEFINE t == worker[w].at
           now == worker[w].job.targets[t]
<1>1. worker[w] \in Working /\ worker[w].phase \in {"asking", "replying"}
  <2>1. worker[w].phase \in {"asking", "replying"}
    BY DEF Settle
  <2> QED  BY <2>1, AWorkerRuns
<1>2. call[w] \in Returns
  <2>1. call[w] \in {Idle} \cup Waits \cup Asks \cup Returns
    BY DEF TypeInv, CallsOK, Callers
  <2>2. call[w].phase = "returned"
    BY DEF Settle
  <2> QED  BY <2>1, <2>2 DEF Idle, Waits, Asks
<1>3. t # None
  <2> SUFFICES ASSUME t = None PROVE FALSE
    OBVIOUS
  <2>1. call[w] = Idle
    BY DEF TypeInv
  <2> QED  BY <1>2, <2>1 DEF Idle, Returns
<1>4. t \in DOMAIN worker[w].job.targets /\ worker[w].job \in Jobs
  BY <1>1, <1>3 DEF Working, Reads, Runs
<1>5. now \in TargetStates /\ t \in Targets
  BY <1>4, JobsAre
<1>6. Outcome(now, call[w]) \in TargetStates
  BY <1>2, <1>5, TargetsSettle
<1>7. Persist(w, Settled(worker[w], t, Outcome(now, call[w])))
  BY DEF Settle, Settled, PassedRun, Passed, WithTarget, SetTarget
<1>8. /\ call' = [call EXCEPT ![w] = Idle]
      /\ UNCHANGED <<evidence, config, edits, records, calls, crossed, jobLock, runs>>
  BY DEF Settle
<1>9. call' \in [Callers -> CallsNow]
  BY <1>8 DEF TypeInv, CallsOK, CallsNow
<1> QED  BY <1>1, <1>2, <1>3, <1>4, <1>5, <1>6, <1>7, <1>8, <1>9

\* The first target of a batch.
LEMMA HeadShows ==
  ASSUME TypeInv, NEW w \in Workers, worker[w] \in Working, worker[w].phase # "entering", worker[w].batch # <<>>
  PROVE  LET t == Head(worker[w].batch) IN
         /\ worker[w].job \in Jobs /\ t \in Targets /\ t \in DOMAIN worker[w].job.targets
         /\ worker[w].job.targets[t] \in TargetStates
         /\ worker[w].live[t] \in Items /\ worker[w].job.targets[t].provider \in Providers
<1>1. worker[w].batch \in Seq(Targets) /\ worker[w].job \in Jobs /\ worker[w].live \in Snapshots
  BY DEF Working, Runs, Reads
<1>2. 1 \in DOMAIN worker[w].batch /\ Head(worker[w].batch) = worker[w].batch[1]
      /\ Head(worker[w].batch) \in Targets
  BY <1>1, Tails
<1>3. /\ Head(worker[w].batch) \in DOMAIN worker[w].job.targets
      /\ worker[w].live[Head(worker[w].batch)] # None
  BY <1>2 DEF Working, Reads
<1>4. worker[w].job.targets[Head(worker[w].batch)] \in TargetStates
  BY <1>1, <1>3, JobsAre
<1> QED  BY <1>1, <1>2, <1>3, <1>4 DEF Snapshots, TargetStates

LEMMA TakeReplyShows ==
  ASSUME TypeInv, NEW w \in Workers, TakeReply(w)
  PROVE  LET t == Head(worker[w].batch) IN
         /\ worker[w] \in Working /\ worker[w].phase = "replying" /\ worker[w].batch # <<>>
         /\ worker[w].at = None
         /\ worker' = [worker EXCEPT ![w] = [worker[w] EXCEPT !.at = t, !.batch = Tail(@)]]
         /\ Classify(w, t, worker[w].live[t], worker[w].job.targets[t].provider)
         /\ UNCHANGED <<evidence, config, edits, records, calls, crossed,
                        manifest, jobLock, runs, rewritten>>
<1>1. worker[w] \in Working /\ worker[w].phase = "replying" /\ worker[w].batch # <<>> /\ worker[w].at = None
  <2>1. worker[w].phase = "replying" /\ worker[w].batch # <<>> /\ worker[w].at = None
    BY DEF TakeReply
  <2> QED  BY <2>1, AWorkerRuns
<1>2. worker' = [worker EXCEPT ![w] = [worker[w] EXCEPT !.at = Head(worker[w].batch), !.batch = Tail(@)]]
  BY DEF TypeInv, TakeReply
<1> QED  BY <1>1, <1>2 DEF TakeReply

LEMMA FailNextShows ==
  ASSUME TypeInv, NEW w \in Workers, FailNext(w)
  PROVE  LET t == Head(worker[w].batch) IN
         /\ worker[w] \in Working /\ worker[w].phase = "failing" /\ worker[w].batch # <<>>
         /\ Persist(w, Failed(worker[w], t, Fail(worker[w].job.targets[t])))
         /\ UNCHANGED <<classificationVars, jobLock, runs>>
<1>1. worker[w] \in Working /\ worker[w].phase = "failing" /\ worker[w].batch # <<>>
  <2>1. worker[w].phase = "failing" /\ worker[w].batch # <<>>
    BY DEF FailNext
  <2> QED  BY <2>1, AWorkerRuns
<1> DEFINE t == Head(worker[w].batch)
           target == Fail(worker[w].job.targets[t])
           run == [WithTarget(w, t, target) EXCEPT !.batch = Tail(@)]
<1>2. Persist(w, run) /\ UNCHANGED <<classificationVars, jobLock, runs>>
  BY DEF FailNext
<1>3. run = Failed(worker[w], t, target)
  <2> HIDE DEF t, target
  <2> QED  BY DEF Failed, WithTarget, SetTarget
<1> HIDE DEF run
<1> QED  BY <1>1, <1>2, <1>3

LEMMA EndShows ==
  ASSUME TypeInv, NEW w \in Workers, End(w)
  PROVE  LET job == worker[w].job IN
         \E last \in Jobs :
           /\ worker[w] \in Working /\ worker[w].phase \in {"walking", "replying", "failing"}
           /\ worker[w].at = None /\ worker[w].batch = <<>> /\ job \in Jobs
           /\ last.version = job.version + 1 /\ last.settings = job.settings /\ last.targets = job.targets
           /\ last.status = "completed" => \A t \in DOMAIN job.targets : job.targets[t].status \notin Loose
           /\ manifest' \in {manifest, last} /\ manifest' \in Jobs /\ rewritten' \in BOOLEAN
           /\ manifest # None /\ manifest.version <= manifest'.version
           /\ ~rewritten' => manifest' = last /\ ~rewritten /\ manifest.version < last.version
           /\ worker' = [worker EXCEPT ![w] = NotRunning] /\ jobLock' = None
           /\ UNCHANGED <<classificationVars, runs>>
<1> DEFINE job == worker[w].job
           loose == \E t \in DOMAIN job.targets : job.targets[t].status \in Loose
           last == [job EXCEPT !.version = @ + 1,
                               !.status = IF loose THEN "completed_with_issues" ELSE "completed"]
           again == last.version <= manifest.version
<1>1. /\ worker[w] \in Working /\ worker[w].phase \in {"walking", "replying", "failing"}
      /\ worker[w].at = None /\ worker[w].batch = <<>>
  <2>1. worker[w].phase \in {"walking", "replying", "failing"} /\ worker[w].at = None /\ worker[w].batch = <<>>
    BY DEF End
  <2> QED  BY <2>1, AWorkerRuns
<1>2. job \in Jobs /\ manifest # None
  BY <1>1 DEF Working, Runs, TypeInv, At, NotRunning
<1>3. /\ last \in Jobs /\ last.version = job.version + 1 /\ last.version \in Nat
      /\ last.settings = job.settings /\ last.targets = job.targets
      /\ last.status = "completed" => ~loose
  <2> DEFINE s == IF loose THEN "completed_with_issues" ELSE "completed"
             v == job.version + 1
  <2>1. v \in Nat /\ s \in {"completed", "completed_with_issues"} /\ (s = "completed" => ~loose)
    BY <1>2, JobsAre
  <2>2. last = [job EXCEPT !.version = v, !.status = s]
    BY <1>2 DEF Jobs
  <2> HIDE DEF s, v, last, job
  <2>3. /\ last \in Jobs /\ last.version = v /\ last.settings = job.settings
        /\ last.targets = job.targets /\ last.status = s
    BY <1>2, <2>1, <2>2 DEF Jobs
  <2> QED  BY <2>1, <2>3 DEF v
<1>4. /\ manifest' = IF last.version < manifest.version THEN manifest ELSE last
      /\ rewritten' = (rewritten \/ again)
      /\ worker' = [worker EXCEPT ![w] = NotRunning] /\ jobLock' = None
      /\ UNCHANGED <<classificationVars, runs>>
  BY DEF End
<1>5. manifest \in Jobs /\ manifest.version \in Nat /\ rewritten \in BOOLEAN
  BY <1>2, JobsAre DEF TypeInv
<1> HIDE DEF last
<1>6. manifest' \in {manifest, last} /\ manifest' \in Jobs /\ rewritten' \in BOOLEAN
  BY <1>3, <1>4, <1>5
<1>7. ~rewritten' => manifest' = last /\ ~rewritten /\ manifest.version < last.version
  <2> SUFFICES ASSUME ~rewritten' PROVE manifest' = last /\ ~rewritten /\ manifest.version < last.version
    OBVIOUS
  <2> HIDE DEF again
  <2>1. ~rewritten /\ ~again
    BY <1>4
  <2> USE DEF again
  <2>2. manifest.version < last.version
    BY <1>3, <1>5, <2>1
  <2>3. manifest' = last
    BY <1>3, <1>4, <1>5, <2>2
  <2> QED  BY <2>1, <2>2, <2>3
<1>9. manifest.version <= manifest'.version
  BY <1>3, <1>4, <1>5
<1>8. last.status = "completed" => \A t \in DOMAIN job.targets : job.targets[t].status \notin Loose
  BY <1>3
<1> QED  BY <1>1, <1>2, <1>3, <1>4, <1>6, <1>7, <1>8, <1>9
-----------------------------------------------------------------------------
LEMMA NotRunningIsNoRun == \A r \in Working : r # NotRunning
BY DEF Working, Runs, NotRunning

LEMMA PersistKeepsTypes ==
  ASSUME TypeInv, NEW w \in Workers, worker[w] \in Working, NEW run \in Working, Persist(w, run),
         call' \in [Callers -> CallsNow], \A v \in Workers : v # w => call'[v] = call[v],
         run.at = None => call'[w] = Idle,
         UNCHANGED <<records, config, evidence, runs>>, jobLock' \in Workers \cup {None}
  PROVE  TypeInv'
<1>1. /\ worker' \in [Workers -> {NotRunning} \cup Working]
      /\ worker'[w] = Written(run) /\ \A v \in Workers : v # w => worker'[v] = worker[v]
      /\ manifest' \in Jobs /\ rewritten' \in BOOLEAN
  BY Persisted
<1>2. Written(run).at = run.at
  BY WrittenFits
<1>3. \A v \in Workers : worker'[v] = NotRunning \/ worker'[v].at = None => call'[v] = Idle
  <2> SUFFICES ASSUME NEW v \in Workers, worker'[v] = NotRunning \/ worker'[v].at = None
               PROVE  call'[v] = Idle
    OBVIOUS
  <2>1. CASE v = w
    <3>1. worker'[w] \in Working
      BY <1>1, WrittenFits
    <3> QED  BY <1>1, <1>2, <2>1, <3>1, NotRunningIsNoRun
  <2>2. CASE v # w
    BY <1>1, <2>2 DEF TypeInv
  <2> QED  BY <2>1, <2>2
<1>4. runs' # 0
  BY NotRunningIsNoRun DEF TypeInv
<1>5. manifest' # None
  BY <1>1, JobsAre
<1>6. CallsOK'
  BY DEF TypeInv, CallsOK, CallsNow, Settings, Records
<1>7. evidence' \in Snapshots /\ runs' \in Nat
  BY DEF TypeInv, Snapshots
<1> QED  BY <1>1, <1>3, <1>4, <1>5, <1>6, <1>7 DEF TypeInv

\* The manifest stays and w's run becomes next.
LEMMA MoveKeepsTypes ==
  ASSUME TypeInv, NEW w \in Workers, NEW next \in {NotRunning} \cup Working,
         worker' = [worker EXCEPT ![w] = next],
         next \in Working /\ next.phase # "entering" => At(w),
         call' \in [Callers -> CallsNow], \A v \in Workers : v # w => call'[v] = call[v],
         next = NotRunning \/ next.at = None => call'[w] = Idle,
         UNCHANGED <<records, config, evidence>>, jobLock' \in Workers \cup {None},
         manifest' \in {manifest} \cup Jobs, rewritten' \in BOOLEAN,
         runs' \in Nat, runs' = 0 => next = NotRunning /\ runs = 0
  PROVE  TypeInv'
<1>1. /\ worker' \in [Workers -> {NotRunning} \cup Working] /\ worker'[w] = next
      /\ \A v \in Workers : v # w => worker'[v] = worker[v]
  BY DEF TypeInv
<1>2. \A v \in Workers : worker'[v] = NotRunning \/ worker'[v].at = None => call'[v] = Idle
  <2> SUFFICES ASSUME NEW v \in Workers, worker'[v] = NotRunning \/ worker'[v].at = None
               PROVE  call'[v] = Idle
    OBVIOUS
  <2>1. CASE v = w
    BY <1>1, <2>1
  <2>2. CASE v # w
    BY <1>1, <2>2 DEF TypeInv
  <2> QED  BY <2>1, <2>2
<1>3. runs' = 0 => \A v \in Workers : worker'[v] = NotRunning
  BY <1>1 DEF TypeInv
<1>4. manifest' = None => \A v \in Workers : ~(worker'[v] # NotRunning /\ worker'[v].phase # "entering")
  <2> SUFFICES ASSUME manifest' = None, NEW v \in Workers, worker'[v] # NotRunning,
                      worker'[v].phase # "entering"
               PROVE  FALSE
    OBVIOUS
  <2>1. manifest = None
    BY JobsAre
  <2>2. CASE v = w
    BY <1>1, <2>1, <2>2 DEF TypeInv
  <2>3. CASE v # w
    BY <1>1, <2>1, <2>3 DEF TypeInv, At
  <2> QED  BY <2>2, <2>3
<1>5. CallsOK'
  BY DEF TypeInv, CallsOK, CallsNow, Settings, Records
<1>6. evidence' \in Snapshots /\ manifest' \in Jobs \cup {None}
  BY DEF TypeInv, Snapshots
<1> QED  BY <1>1, <1>2, <1>3, <1>4, <1>5, <1>6 DEF TypeInv, At

\* Only calls, records, the evidence or the configuration change.
LEMMA ClassifyKeepsTypes ==
  ASSUME TypeInv, NEW c \in Callers, NEW next \in CallsNow, Becomes(c, next),
         c \in Workers => call[c] # Idle,
         records' \in Seq(Records), UNCHANGED <<config, evidence>>, UNCHANGED replayVars
  PROVE  TypeInv'
<1>1. CallsOK'
  BY DEF Becomes, TypeInv, CallsOK, CallsNow, Settings, Records
<1>2. \A v \in Workers : worker[v] = NotRunning \/ worker[v].at = None => call'[v] = Idle
  BY DEF TypeInv, Becomes, Callers
<1>3. UNCHANGED <<worker, manifest, jobLock, runs, rewritten>>
  BY DEF replayVars
<1>4. evidence' \in Snapshots
  BY DEF TypeInv, Snapshots
<1> QED  BY <1>1, <1>2, <1>3, <1>4 DEF TypeInv, At

LEMMA TypesKeptByWorker ==
  ASSUME TypeInv, NEW w \in Workers, Start(w) \/ Resume(w) \/ WorkerStep(w)
  PROVE  TypeInv'
<1>0. /\ call \in [Callers -> CallsNow] /\ w \in Callers /\ Idle \in CallsNow
      /\ runs \in Nat /\ jobLock \in Workers \cup {None} /\ rewritten \in BOOLEAN
      /\ worker \in [Workers -> {NotRunning} \cup Working]
  BY DEF TypeInv, CallsOK, CallsNow, Callers
<1>1. CASE Start(w)
  <2>1. PICK job \in Jobs : /\ worker' = [worker EXCEPT ![w] = Run("entering", job)]
                            /\ runs = 0 /\ runs' \in Nat /\ runs' # 0
                            /\ UNCHANGED <<classificationVars, manifest, jobLock, rewritten>>
    BY <1>1, StartShows
  <2>2. Run("entering", job) \in Working /\ Run("entering", job).phase = "entering"
    BY EnteringFits
  <2>3. call[w] = Idle /\ UNCHANGED <<call, records, config, evidence>>
    BY <2>1 DEF TypeInv, classificationVars
  <2> QED  BY <1>0, <2>1, <2>2, <2>3, MoveKeepsTypes
<1>2. CASE Resume(w)
  <2>1. PICK job \in Jobs : /\ worker' = [worker EXCEPT ![w] = Run("entering", job)]
                            /\ worker[w] = NotRunning /\ runs' \in Nat /\ runs' # 0
                            /\ UNCHANGED <<classificationVars, manifest, jobLock, rewritten>>
    BY <1>2, ResumeShows
  <2>2. Run("entering", job) \in Working /\ Run("entering", job).phase = "entering"
    BY EnteringFits
  <2>3. call[w] = Idle /\ UNCHANGED <<call, records, config, evidence>>
    BY <2>1 DEF TypeInv, classificationVars
  <2> QED  BY <1>0, <2>1, <2>2, <2>3, MoveKeepsTypes
<1>3. CASE Lock(w)
  <2> DEFINE run == [worker[w] EXCEPT !.phase = "walking", !.live = evidence]
  <2>1. /\ worker[w] \in Working /\ run \in Working /\ Persist(w, run) /\ worker[w].phase = "entering"
        /\ jobLock' = w /\ UNCHANGED <<classificationVars, runs>>
    BY <1>3, LockShows
  <2> HIDE DEF run
  <2>2. call[w] = Idle /\ UNCHANGED <<call, records, config, evidence>>
    BY <2>1 DEF TypeInv, classificationVars, Working, Reads
  <2> QED  BY <1>0, <2>1, <2>2, PersistKeepsTypes
<1>4. CASE LockBusy(w)
  <2>1. /\ worker' = [worker EXCEPT ![w] = NotRunning] /\ worker[w].phase = "entering"
        /\ UNCHANGED <<classificationVars, manifest, jobLock, runs, rewritten>>
    BY <1>4 DEF LockBusy
  <2>2. worker[w] \in Working /\ worker[w].at = None
    BY <1>0, <2>1 DEF NotRunning, Working, Reads
  <2>3. call[w] = Idle /\ UNCHANGED <<call, records, config, evidence>>
    BY <2>1, <2>2 DEF TypeInv, classificationVars
  <2> QED  BY <1>0, <2>1, <2>3, MoveKeepsTypes, NotRunningIsNoRun
<1>5. CASE Settle(w)
  <2> DEFINE t == worker[w].at
             target == Outcome(worker[w].job.targets[t], call[w])
             run == Settled(worker[w], t, target)
  <2>1. /\ worker[w] \in Working /\ worker[w].phase \in {"asking", "replying"}
        /\ t \in DOMAIN worker[w].job.targets /\ target \in TargetStates /\ Persist(w, run)
        /\ call' \in [Callers -> CallsNow] /\ call' = [call EXCEPT ![w] = Idle]
        /\ UNCHANGED <<evidence, config, records, jobLock, runs>>
    BY <1>5, SettleShows
  <2> HIDE DEF t, target
  <2>2. run \in Working
    BY <2>1, SettledFits
  <2> HIDE DEF run
  <2>3. call'[w] = Idle /\ \A v \in Workers : v # w => call'[v] = call[v]
    BY <1>0, <2>1 DEF Callers
  <2> QED  BY <1>0, <2>1, <2>2, <2>3, PersistKeepsTypes
<1>6. CASE Flush(w)
  <2>1. PICK p \in {"replying", "failing"} : worker' = [worker EXCEPT ![w].phase = p]
    BY <1>6 DEF Flush
  <2>2. worker[w] \in Working /\ worker[w].phase = "walking" /\ worker[w] # NotRunning
    BY <1>0, <1>6 DEF Flush, NotRunning
  <2> DEFINE next == [worker[w] EXCEPT !.phase = p]
  <2>3. worker' = [worker EXCEPT ![w] = next]
    BY <1>0, <2>1
  <2>4. next \in Working /\ next.at = worker[w].at
    BY <2>2, FlushedFits
  <2> HIDE DEF next
  <2>5. UNCHANGED <<call, records, config, evidence, manifest, jobLock, runs, rewritten>>
    BY <1>6 DEF Flush, classificationVars
  <2>6. At(w) /\ runs # 0 /\ (worker[w].at = None => call[w] = Idle)
    BY <2>2 DEF At, TypeInv
  <2> QED  BY <1>0, <2>3, <2>4, <2>5, <2>6, MoveKeepsTypes, NotRunningIsNoRun
<1>7. CASE TakeReply(w)
  <2> DEFINE t == Head(worker[w].batch)
             next == [worker[w] EXCEPT !.at = Head(worker[w].batch), !.batch = Tail(@)]
             p == worker[w].job.targets[t].provider
  <2>1. /\ worker[w] \in Working /\ worker[w].phase = "replying" /\ worker[w].batch # <<>>
        /\ worker' = [worker EXCEPT ![w] = next] /\ Classify(w, t, worker[w].live[t], p)
        /\ UNCHANGED <<evidence, config, records, manifest, jobLock, runs, rewritten>>
    BY <1>7, TakeReplyShows
  <2>2. t \in Targets /\ worker[w].live[t] \in Items /\ p \in Providers
    BY <2>1, HeadShows
  <2>3. next \in Working /\ next.at = t
    BY <2>1, TakenFits
  <2> HIDE DEF t, next, p
  <2>4. PICK n \in CallsNow : Becomes(w, n)
    BY <1>0, <2>1, <2>2, ClassifyShows DEF TypeInv
  <2>5. call' \in [Callers -> CallsNow] /\ \A v \in Workers : v # w => call'[v] = call[v]
    BY <2>4 DEF Becomes, Callers
  <2>6. At(w) /\ runs # 0 /\ next # NotRunning /\ next.at # None
    BY <2>1, <2>2, <2>3, TargetsAreListed, NoneIsNothing, NotRunningIsNoRun DEF At, TypeInv
  <2> QED  BY <1>0, <2>1, <2>3, <2>5, <2>6, MoveKeepsTypes
<1>8. CASE FailNext(w)
  <2> DEFINE t == Head(worker[w].batch)
             target == Fail(worker[w].job.targets[t])
             run == Failed(worker[w], t, target)
  <2>1. /\ worker[w] \in Working /\ worker[w].phase = "failing" /\ worker[w].batch # <<>>
        /\ Persist(w, run) /\ UNCHANGED <<classificationVars, jobLock, runs>>
    BY <1>8, FailNextShows
  <2>2. t \in DOMAIN worker[w].job.targets /\ worker[w].job.targets[t] \in TargetStates
    BY <2>1, HeadShows
  <2>3. target \in TargetStates
    BY <2>2, TargetsFail
  <2> HIDE DEF t, target
  <2>4. run \in Working /\ run.at = worker[w].at
    BY <2>1, <2>2, <2>3, FailedFits
  <2> HIDE DEF run
  <2>5. UNCHANGED <<call, records, config, evidence>> /\ (worker[w].at = None => call[w] = Idle)
    BY <2>1 DEF classificationVars, TypeInv
  <2> QED  BY <1>0, <2>1, <2>4, <2>5, PersistKeepsTypes
<1>9. CASE End(w)
  <2>1. PICK last \in Jobs :
           /\ worker[w] \in Working /\ worker[w].at = None
           /\ manifest' \in Jobs /\ rewritten' \in BOOLEAN
           /\ worker' = [worker EXCEPT ![w] = NotRunning] /\ jobLock' = None
           /\ UNCHANGED <<classificationVars, runs>>
    BY <1>9, EndShows
  <2>2. UNCHANGED <<call, records, config, evidence>> /\ call[w] = Idle
    BY <2>1 DEF classificationVars, TypeInv
  <2> QED  BY <1>0, <2>1, <2>2, MoveKeepsTypes, NotRunningIsNoRun
<1>10. CASE \E t \in Targets : Refuse(w, t)
  <2>1. PICK t \in Targets : Refuse(w, t)
    BY <1>10
  <2>2. PICK target \in TargetStates :
          Persist(w, PassedRun(worker[w], t, target)) /\ UNCHANGED <<classificationVars, jobLock, runs>>
    BY <2>1, RefuseShows
  <2>3. worker[w] \in Working /\ t \in DOMAIN worker[w].job.targets
    BY <2>1, AtTargetShows DEF Refuse
  <2> DEFINE run == PassedRun(worker[w], t, target)
  <2>4. run \in Working /\ run.at = worker[w].at
    BY <2>3, PassedFits
  <2>5. Persist(w, run)
    BY <2>2
  <2> HIDE DEF run
  <2>6. UNCHANGED <<call, records, config, evidence>> /\ (worker[w].at = None => call[w] = Idle)
    BY <2>2 DEF classificationVars, TypeInv
  <2> QED  BY <1>0, <2>2, <2>3, <2>4, <2>5, <2>6, PersistKeepsTypes
<1>11. CASE \E t \in Targets : Ask(w, t)
  <2>1. PICK t \in Targets : Ask(w, t)
    BY <1>11
  <2> DEFINE now == worker[w].job.targets[t]
             run == Asked(worker[w], t, Begun(now))
  <2>2. /\ AtTarget(w, t) /\ Unchanged(w, t) /\ Persist(w, run)
        /\ Classify(w, t, worker[w].live[t], now.provider)
        /\ UNCHANGED <<evidence, config, records, jobLock, runs>>
    BY <2>1, AskShows
  <2>3. /\ worker[w] \in Working /\ worker[w].phase = "walking" /\ t \in DOMAIN worker[w].job.targets
        /\ now \in TargetStates /\ worker[w].live[t] \in Items /\ now.provider \in Providers
    BY <2>2, AtTargetShows, UnchangedShows
  <2>4. Begun(now) \in TargetStates
    BY <2>3, TargetsBegin
  <2>5. run \in Working /\ run.at = t
    BY <2>3, <2>4, AskedFits
  <2> HIDE DEF run, now
  <2>6. PICK n \in CallsNow : Becomes(w, n)
    BY <1>0, <2>2, <2>3, ClassifyShows DEF TypeInv
  <2>7. call' \in [Callers -> CallsNow] /\ \A v \in Workers : v # w => call'[v] = call[v]
    BY <2>6 DEF Becomes, Callers
  <2>8. run.at # None
    BY <2>5, TargetsAreListed, NoneIsNothing
  <2> QED  BY <1>0, <2>2, <2>3, <2>5, <2>7, <2>8, PersistKeepsTypes
<1>12. CASE \E t \in Targets : Enqueue(w, t)
  <2>1. PICK t \in Targets : Enqueue(w, t)
    BY <1>12
  <2> DEFINE now == worker[w].job.targets[t]
             run == Enqueued(worker[w], t, Begun(now))
  <2>2. /\ AtTarget(w, t) /\ Unchanged(w, t) /\ Persist(w, run)
        /\ UNCHANGED <<classificationVars, jobLock, runs>>
    BY <2>1, EnqueueShows
  <2>3. /\ worker[w] \in Working /\ worker[w].phase = "walking" /\ t \in DOMAIN worker[w].job.targets
        /\ now \in TargetStates /\ worker[w].live[t] # None
    BY <2>2, AtTargetShows, UnchangedShows
  <2>4. Begun(now) \in TargetStates
    BY <2>3, TargetsBegin
  <2>5. run \in Working /\ run.at = worker[w].at
    BY <2>3, <2>4, EnqueuedFits
  <2> HIDE DEF run, now
  <2>6. UNCHANGED <<call, records, config, evidence>> /\ (worker[w].at = None => call[w] = Idle)
    BY <2>2 DEF classificationVars, TypeInv
  <2> QED  BY <1>0, <2>2, <2>3, <2>5, <2>6, PersistKeepsTypes
<1> QED  BY <1>1, <1>2, <1>3, <1>4, <1>5, <1>6, <1>7, <1>8, <1>9, <1>10, <1>11, <1>12 DEF WorkerStep

LEMMA TypesKept == TypeInv /\ ChainInv /\ [Next]_vars => TypeInv'
<1> SUFFICES ASSUME TypeInv, ChainInv, [Next]_vars PROVE TypeInv'
  OBVIOUS
<1>1. CASE \E w \in Workers : Start(w) \/ Resume(w) \/ WorkerStep(w)
  BY <1>1, TypesKeptByWorker
<1>2. CASE \E c \in Callers : Crash(c)
  <2>1. PICK c \in Callers : Crash(c)
    BY <1>2
  <2>2. /\ call' = [call EXCEPT ![c] = Idle]
        /\ worker' = IF c \in Workers THEN [worker EXCEPT ![c] = NotRunning] ELSE worker
        /\ jobLock' \in Workers \cup {None}
        /\ UNCHANGED <<evidence, config, records, manifest, runs, rewritten>>
    BY <2>1 DEF Crash, TypeInv
  <2>3. /\ call' \in [Callers -> CallsNow] /\ call'[c] = Idle
        /\ \A d \in Callers : call'[d] = call[d] \/ call'[d] = Idle
    BY <2>2 DEF TypeInv, CallsOK, CallsNow
  <2>4. CallsOK'
    BY <2>2, <2>3 DEF TypeInv, CallsOK, CallsNow, Settings, Records
  <2>5. /\ worker' \in [Workers -> {NotRunning} \cup Working]
        /\ \A v \in Workers : worker'[v] = worker[v] \/ (worker'[v] = NotRunning /\ v = c)
    BY <2>2 DEF TypeInv
  <2>6. \A v \in Workers : worker'[v] = NotRunning \/ worker'[v].at = None => call'[v] = Idle
    BY <2>3, <2>5 DEF TypeInv, Callers
  <2>7. runs = 0 => \A v \in Workers : worker'[v] = NotRunning
    BY <2>5 DEF TypeInv
  <2>8. manifest = None => \A v \in Workers : ~(worker'[v] # NotRunning /\ worker'[v].phase # "entering")
    BY <2>5 DEF TypeInv, At
  <2>9. evidence' \in Snapshots
    BY <2>2 DEF TypeInv, Snapshots
  <2> QED  BY <2>2, <2>4, <2>5, <2>6, <2>7, <2>8, <2>9 DEF TypeInv, At
<1>3. CASE \E c \in Callers : ClassifyStep(c) /\ UNCHANGED replayVars
  <2>1. PICK c \in Callers : ClassifyStep(c) /\ UNCHANGED replayVars
    BY <1>3
  <2>2. CASE LockAndScan(c)
    <3>1. call[c] # Idle /\ UNCHANGED <<records, config, evidence>>
      BY <2>2 DEF LockAndScan, Idle
    <3>2. PICK next \in CallsNow : Becomes(c, next)
      BY <2>2, ScanShows DEF TypeInv, ChainInv
    <3>3. records' \in Seq(Records)
      BY <3>1 DEF TypeInv, CallsOK, Records
    <3> QED  BY <2>1, <3>1, <3>2, <3>3, ClassifyKeepsTypes
  <2>3. CASE Answer(c)
    <3>1. call[c] # Idle /\ UNCHANGED <<config, evidence>>
      BY <2>3 DEF Answer, Idle
    <3>2. /\ records' \in Seq(Records)
          /\ \E next \in {Idle} \cup Returns : Becomes(c, next)
      BY <2>3, AnswerShows DEF TypeInv
    <3>3. PICK next \in CallsNow : Becomes(c, next)
      BY <3>2 DEF CallsNow
    <3> QED  BY <2>1, <3>1, <3>2, <3>3, ClassifyKeepsTypes
  <2>4. CASE AnswerLost(c)
    <3>1. call[c] # Idle /\ UNCHANGED <<records, config, evidence>>
      BY <2>4 DEF AnswerLost, Idle
    <3>2. PICK next \in CallsNow : Becomes(c, next)
      BY <2>4, LostShows DEF TypeInv, CallsNow
    <3>3. records' \in Seq(Records)
      BY <3>1 DEF TypeInv, CallsOK, Records
    <3> QED  BY <2>1, <3>1, <3>2, <3>3, ClassifyKeepsTypes
  <2> QED  BY <2>1, <2>2, <2>3, <2>4 DEF ClassifyStep
<1>4. CASE (\E c \in Registrars, t \in Targets : Register(c, t)) /\ UNCHANGED replayVars
  <2>1. PICK c \in Registrars, t \in Targets : Register(c, t)
    BY <1>4
  <2>2. c \in Callers /\ c \notin Workers /\ evidence[t] \in Items /\ UNCHANGED <<evidence, config, records>>
        /\ Classify(c, t, evidence[t], DefaultProvider)
    BY <2>1, TwoKindsOfCallers DEF Callers, Register, TypeInv, Snapshots
  <2>3. PICK next \in CallsNow : Becomes(c, next)
    BY <2>2, ProviderKnown, ClassifyShows DEF TypeInv
  <2>4. records' \in Seq(Records)
    BY <2>2 DEF TypeInv, CallsOK, Records
  <2> QED  BY <1>4, <2>2, <2>3, <2>4, ClassifyKeepsTypes
<1>5. CASE EditConfig /\ UNCHANGED replayVars
  <2>1. config' \in Settings
    BY <1>5, EditsShow DEF TypeInv, CallsOK
  <2>2. UNCHANGED <<evidence, records, call>>
    BY <1>5 DEF EditConfig
  <2>3. CallsOK'
    BY <2>1, <2>2 DEF TypeInv, CallsOK, Settings, Records
  <2> QED  BY <1>5, <2>2, <2>3 DEF TypeInv, replayVars, At, Snapshots
<1>6. CASE (\E t \in Targets : EditEvidence(t)) /\ UNCHANGED replayVars
  <2>1. PICK t \in Targets : EditEvidence(t)
    BY <1>6
  <2>2. UNCHANGED <<config, records, call>> /\ evidence' \in Snapshots
    BY <2>1, EvidenceKnown DEF EditEvidence, TypeInv, Snapshots
  <2>3. CallsOK'
    BY <2>2 DEF TypeInv, CallsOK, Settings, Records
  <2> QED  BY <1>6, <2>2, <2>3 DEF TypeInv, replayVars, At
<1>7. CASE UNCHANGED vars
  BY <1>7 DEF vars, classificationVars, replayVars, TypeInv, CallsOK, At, Snapshots, Settings, Records
<1> QED  BY <1>1, <1>2, <1>3, <1>4, <1>5, <1>6, <1>7 DEF Next

LEMMA ChainsKept == TypeInv /\ ChainInv /\ [Next]_vars => ChainInv'
<1> SUFFICES ASSUME TypeInv, ChainInv, [Next]_vars PROVE ChainInv'
  OBVIOUS
<1>1. CallsOK
  BY DEF TypeInv
<1>2. CASE UNCHANGED <<call, records, crossed>>
  BY <1>2, ChainsQuiet
<1>3. ASSUME NEW c \in Callers, NEW t \in Targets, NEW item \in Items, NEW p \in Providers,
             Classify(c, t, item, p), UNCHANGED <<records, crossed>>
      PROVE  ChainInv'
  <2>1. PICK next \in CallsNow : Becomes(c, next) /\ next.phase \in {"waiting", "idle", "returned"}
    BY <1>1, <1>3, ClassifyShows
  <2> QED  BY <1>3, <2>1, ChainsQuiet DEF Becomes
<1>4. CASE \E w \in Workers : Start(w) \/ Resume(w) \/ WorkerStep(w)
  <2>1. PICK w \in Workers : Start(w) \/ Resume(w) \/ WorkerStep(w)
    BY <1>4
  <2>2. w \in Callers
    BY DEF Callers
  <2>3. CASE Settle(w)
    <3>1. call' = [call EXCEPT ![w] = Idle] /\ UNCHANGED <<records, crossed>>
      BY <2>3 DEF Settle
    <3>2. \A c \in Callers : call'[c] = call[c] \/ call'[c].phase # "asking"
      BY <1>1, <3>1 DEF CallsOK, Idle
    <3> QED  BY <3>1, <3>2, ChainsQuiet
  <2>4. CASE TakeReply(w)
    <3> DEFINE t == Head(worker[w].batch)
    <3>1. /\ worker[w] \in Working /\ worker[w].phase = "replying" /\ worker[w].batch # <<>>
          /\ Classify(w, t, worker[w].live[t], worker[w].job.targets[t].provider)
          /\ UNCHANGED <<records, crossed>>
      BY <2>4, TakeReplyShows
    <3>2. t \in Targets /\ worker[w].live[t] \in Items /\ worker[w].job.targets[t].provider \in Providers
      BY <3>1, HeadShows
    <3> HIDE DEF t
    <3> QED  BY <1>3, <2>2, <3>1, <3>2
  <2>5. CASE \E t \in Targets : Ask(w, t)
    <3>1. PICK t \in Targets : Ask(w, t)
      BY <2>5
    <3>2. /\ AtTarget(w, t) /\ Unchanged(w, t)
          /\ Classify(w, t, worker[w].live[t], worker[w].job.targets[t].provider)
          /\ UNCHANGED <<records, crossed>>
      BY <3>1, AskShows
    <3>3. worker[w].live[t] \in Items /\ worker[w].job.targets[t].provider \in Providers
      BY <3>2, UnchangedShows
    <3> QED  BY <1>3, <2>2, <3>2, <3>3
  <2>6. CASE \/ Start(w) \/ Resume(w) \/ Lock(w) \/ LockBusy(w) \/ Flush(w) \/ FailNext(w) \/ End(w)
             \/ \E t \in Targets : Refuse(w, t) \/ Enqueue(w, t)
    BY <1>2, <2>6 DEF Start, Resume, Lock, LockBusy, Flush, FailNext, End, Refuse, Enqueue, classificationVars
  <2> QED  BY <2>1, <2>3, <2>4, <2>5, <2>6 DEF WorkerStep
<1>5. CASE \E c \in Callers : Crash(c)
  <2>1. PICK c \in Callers : Crash(c)
    BY <1>5
  <2>2. call' = [call EXCEPT ![c] = Idle] /\ UNCHANGED <<records, crossed>>
    BY <2>1 DEF Crash
  <2>3. \A d \in Callers : call'[d] = call[d] \/ call'[d].phase # "asking"
    BY <1>1, <2>2 DEF CallsOK, Idle
  <2> QED  BY <2>2, <2>3, ChainsQuiet
<1>6. CASE \E c \in Callers : ClassifyStep(c)
  <2>1. PICK c \in Callers : ClassifyStep(c)
    BY <1>6
  <2>2. CASE LockAndScan(c)
    BY <1>1, <2>2, ScanKeepsChains
  <2>3. CASE Answer(c)
    BY <1>1, <2>3, AnswerKeepsChains
  <2>4. CASE AnswerLost(c)
    <3>1. PICK next \in {Idle} \cup Returns : Becomes(c, next) /\ next.phase \in {"idle", "returned"}
      BY <1>1, <2>4, LostShows
    <3>2. UNCHANGED <<records, crossed>>
      BY <2>4 DEF AnswerLost
    <3> QED  BY <3>1, <3>2, ChainsQuiet DEF Becomes
  <2> QED  BY <2>1, <2>2, <2>3, <2>4 DEF ClassifyStep
<1>7. CASE \E c \in Registrars, t \in Targets : Register(c, t)
  <2>1. PICK c \in Registrars, t \in Targets : Register(c, t)
    BY <1>7
  <2>2. c \in Callers /\ evidence[t] \in Items /\ UNCHANGED <<records, crossed>>
        /\ Classify(c, t, evidence[t], DefaultProvider)
    BY <2>1 DEF Callers, Register, TypeInv, Snapshots
  <2> QED  BY <1>3, <2>2, ProviderKnown
<1>8. CASE EditConfig \/ \E t \in Targets : EditEvidence(t)
  BY <1>2, <1>8 DEF EditConfig, EditEvidence
<1>9. CASE UNCHANGED vars
  BY <1>2, <1>9 DEF vars, classificationVars
<1> QED  BY <1>4, <1>5, <1>6, <1>7, <1>8, <1>9 DEF Next

LEMMA InitTypes == Init => TypeInv /\ ChainInv
<1> SUFFICES ASSUME Init PROVE TypeInv /\ ChainInv
  OBVIOUS
<1>1. CallsOK
  <2>1. 1 \in Limits
    BY ClipsKnown DEF Limits
  <2> QED  BY <2>1 DEF Init, ClassificationInit, CallsOK, Settings
<1>2. evidence \in Snapshots
  BY EvidenceKnown DEF Init, ClassificationInit, Snapshots
<1>3. TypeInv
  BY <1>1, <1>2 DEF Init, ClassificationInit, TypeInv, At, Callers
<1>4. DOMAIN records = {} /\ \A c \in Callers : call[c].phase # "asking"
  BY DEF Init, ClassificationInit, Idle
<1>5. ChainInv
  BY <1>4 DEF ChainInv, Bounded, Chained, Ready, Asking
<1> QED  BY <1>3, <1>5

LEMMA TypesAndChains == Spec => [](TypeInv /\ ChainInv)
<1>1. (TypeInv /\ ChainInv) /\ [Next]_vars => (TypeInv /\ ChainInv)'
  BY TypesKept, ChainsKept
<1> QED  BY <1>1, InitTypes, PTL DEF Spec

(***************************************************************************)
(* Attempts at one request form one chain: numbered from 1, each naming    *)
(* the failed one before it, none after a resolved one, unless the request *)
(* was worked on under another request's lock.                             *)
(***************************************************************************)
THEOREM AttemptsStayChained == Spec => []AttemptsFormAChain
<1>1. TypeInv /\ ChainInv => AttemptsFormAChain
  <2>1. \A req : IdsOf(req) = AttemptsAt(req, records)
    BY DEF IdsOf, AttemptsAt
  <2> SUFFICES ASSUME ChainInv PROVE AttemptsFormAChain
    OBVIOUS
  <2> SUFFICES ASSUME NEW n \in DOMAIN records, records[n].request \notin crossed
               PROVE  LET r == records[n]
                          earlier == {m \in IdsOf(r.request) : m < n}
                      IN  /\ r.attempt = Cardinality(earlier) + 1
                          /\ \A m \in earlier : records[m].disposition = "failed"
                          /\ IF earlier = {} THEN r.retry = None
                             ELSE r.retry \in earlier /\ \A m \in earlier : m <= r.retry
    BY DEF AttemptsFormAChain
  <2>2. {m \in IdsOf(records[n].request) : m < n} = Earlier(n, records)
    BY <2>1 DEF Earlier
  <2>3. Follows(records[n].attempt, records[n].retry, Earlier(n, records), records)
    BY DEF ChainInv, Chained
  <2> QED  BY <2>2, <2>3 DEF Follows
<1> QED  BY <1>1, TypesAndChains, PTL
-----------------------------------------------------------------------------
(***************************************************************************)
(* What a job holds stays true as records and edits are added.             *)
(***************************************************************************)
Grows(rs, rs2) == DOMAIN rs \subseteq DOMAIN rs2 /\ \A n \in DOMAIN rs : rs2[n] = rs[n]

LEMMA MadeForStays ==
  ASSUME NEW req \in Requests, NEW job \in Jobs, NEW t, NEW e \in Settings, NEW e2 \in Settings, Later(e, e2),
         MadeFor(req, job, t, e)
  PROVE  MadeFor(req, job, t, e2)
<1>1. /\ req.edition \in Nat /\ e.edition \in Nat /\ e2.edition \in Nat
      /\ e.limit \in Nat /\ e2.limit \in Nat
  BY LimitsAreNumbers DEF Requests, Settings
<1>2. req.edition <= e2.edition
  BY <1>1 DEF MadeFor, Later
<1>3. ClippedFrom(req.input, job.targets[t].input, job.settings.limit, e2.limit)
  <2>1. PICK x \in Texts, n \in Limits :
          /\ Clip[x][job.settings.limit] = job.targets[t].input /\ req.input = Clip[x][n]
          /\ job.settings.limit <= n /\ n <= e.limit
    BY DEF MadeFor, ClippedFrom
  <2>2. n <= e2.limit
    BY <1>1, <2>1, LimitsAreNumbers DEF Later
  <2> QED  BY <2>1, <2>2 DEF ClippedFrom
<1> QED  BY <1>2, <1>3 DEF MadeFor

LEMMA IsAnswerStays ==
  ASSUME NEW rs \in Seq(Records), NEW rs2, Grows(rs, rs2), NEW n, NEW job \in Jobs, NEW t,
         NEW e \in Settings, NEW e2 \in Settings, Later(e, e2), IsAnswer(n, job, t, rs, e)
  PROVE  IsAnswer(n, job, t, rs2, e2) /\ rs2[n] = rs[n]
<1>1. n \in DOMAIN rs /\ rs[n] \in Records
  BY DEF IsAnswer
<1>2. rs[n].request \in Requests /\ n \in DOMAIN rs2 /\ rs2[n] = rs[n]
  BY <1>1 DEF Records, Grows
<1> QED  BY <1>2, MadeForStays DEF IsAnswer

LEMMA JobFitsStays ==
  ASSUME NEW rs \in Seq(Records), NEW rs2, Grows(rs, rs2), NEW job \in Jobs,
         NEW e \in Settings, NEW e2 \in Settings, Later(e, e2), JobFits(job, rs, e)
  PROVE  JobFits(job, rs2, e2)
<1>1. job.settings \in Settings
  BY JobsAre
<1>2. \A n, t : IsAnswer(n, job, t, rs, e) => IsAnswer(n, job, t, rs2, e2) /\ rs2[n] = rs[n]
  BY IsAnswerStays
<1>3. Later(job.settings, e2)
  BY <1>1, LimitsAreNumbers DEF JobFits, Later, Settings
<1> QED  BY <1>2, <1>3 DEF JobFits, Resolved

LEMMA ManifestFitsStays ==
  ASSUME NEW rs \in Seq(Records), NEW rs2, Grows(rs, rs2), NEW m \in Jobs \cup {None},
         NEW e \in Settings, NEW e2 \in Settings, Later(e, e2), ManifestFits(m, rs, e)
  PROVE  ManifestFits(m, rs2, e2)
<1>1. CASE m = None
  BY <1>1 DEF ManifestFits
<1>2. CASE m # None
  BY <1>2, JobFitsStays DEF ManifestFits
<1> QED  BY <1>1, <1>2

LEMMA CallFitsStays ==
  ASSUME NEW rs \in Seq(Records), NEW rs2, Grows(rs, rs2), NEW c \in CallsNow, NEW job \in Jobs, NEW t,
         NEW e \in Settings, NEW e2 \in Settings, Later(e, e2), CallFits(c, job, t, rs, e)
  PROVE  CallFits(c, job, t, rs2, e2)
<1>1. c.phase = "asking" => c.request \in Requests
  BY DEF CallsNow, Idle, Waits, Asks, Returns
<1> QED  BY <1>1, MadeForStays, IsAnswerStays DEF CallFits

LEMMA RunFitsStays ==
  ASSUME NEW rs \in Seq(Records), NEW rs2, Grows(rs, rs2), NEW c \in CallsNow, NEW r \in Working,
         NEW e \in Settings, NEW e2 \in Settings, Later(e, e2), RunFits(r, c, rs, e)
  PROVE  RunFits(r, c, rs2, e2)
<1>1. r.job \in Jobs
  BY DEF Working, Runs
<1>2. JobFits(r.job, rs2, e2)
  BY <1>1, JobFitsStays DEF RunFits
<1>3. r.at # None => CallFits(c, r.job, r.at, rs2, e2)
  BY <1>1, CallFitsStays DEF RunFits
<1> QED  BY <1>2, <1>3 DEF RunFits

\* A request made now, of the text that a job froze, is made for the job's target.
LEMMA RequestMade ==
  ASSUME NEW req, NEW t, NEW item \in Items, NEW job \in Jobs, NEW e \in Settings,
         req.target = t, req.provider = job.targets[t].provider, req.edition = e.edition,
         req.input = Clip[item.text][e.limit], Froze(item, job, t), Later(job.settings, e)
  PROVE  MadeFor(req, job, t, e)
<1>1. item.text \in Texts /\ e.limit \in Limits /\ e.edition \in Nat
  BY DEF Items, Settings
<1>2. e.limit <= e.limit /\ e.edition <= e.edition
  BY <1>1, LimitsAreNumbers
<1>3. ClippedFrom(req.input, job.targets[t].input, job.settings.limit, e.limit)
  BY <1>1, <1>2 DEF ClippedFrom, Froze, Later
<1> QED  BY <1>2, <1>3 DEF MadeFor, Later

\* What a run that set one target to a new state keeps of the rest.
KeepsOthers(next, run, t, target, rs, e) ==
  /\ JobFits(next.job, rs, e) /\ next.job.status = run.job.status
  /\ next.job.settings = run.job.settings
  /\ \A c : CallFits(c, run.job, t, rs, e) => CallFits(c, next.job, t, rs, e)
  /\ \A u : Marked(u, run) /\ u # t => Marked(u, next)
  /\ t \in DOMAIN next.job.targets /\ next.job.targets[t] = target

\* A new state of a target that fits the one it had.
TargetFits(target, run, t, rs, e) ==
  /\ target.provider = run.job.targets[t].provider /\ target.input = run.job.targets[t].input
  /\ target.status = "completed" =>
       IsAnswer(target.record, run.job, t, rs, e) /\ Resolved(rs[target.record])

LEMMA SetFits ==
  ASSUME NEW run \in Working, NEW t \in DOMAIN run.job.targets, NEW target \in TargetStates,
         NEW rs, NEW e, JobFits(run.job, rs, e), TargetFits(target, run, t, rs, e),
         NEW next, next.job = SetTarget(run, t, target).job, next.live = run.live
  PROVE  KeepsOthers(next, run, t, target, rs, e)
<1> DEFINE job == next.job
<1>1. /\ job.status = run.job.status /\ job.settings = run.job.settings
      /\ DOMAIN job.targets = DOMAIN run.job.targets /\ job.targets[t] = target
      /\ \A u \in DOMAIN run.job.targets : u # t => job.targets[u] = run.job.targets[u]
  BY TargetSet
<1> HIDE DEF job
<1>2. \A u \in DOMAIN run.job.targets : /\ job.targets[u].input = run.job.targets[u].input
                                        /\ job.targets[u].provider = run.job.targets[u].provider
  BY <1>1 DEF TargetFits
<1>3. \A req, u : MadeFor(req, run.job, u, e) /\ u \in DOMAIN run.job.targets => MadeFor(req, job, u, e)
  BY <1>1, <1>2 DEF MadeFor
<1>4. \A c : CallFits(c, run.job, t, rs, e) => CallFits(c, job, t, rs, e)
  BY <1>1, <1>2, <1>3 DEF CallFits, IsAnswer, Froze
<1>5. JobFits(job, rs, e)
  <2> SUFFICES ASSUME NEW u \in DOMAIN run.job.targets, job.targets[u].status = "completed"
               PROVE  IsAnswer(job.targets[u].record, job, u, rs, e) /\ Resolved(rs[job.targets[u].record])
    BY <1>1 DEF JobFits
  <2>1. IsAnswer(job.targets[u].record, run.job, u, rs, e) /\ Resolved(rs[job.targets[u].record])
    <3>1. CASE u = t
      BY <1>1, <3>1 DEF TargetFits
    <3>2. CASE u # t
      BY <1>1, <3>2 DEF JobFits
    <3> QED  BY <3>1, <3>2
  <2> QED  BY <1>3, <2>1 DEF IsAnswer
<1>6. \A u : Marked(u, run) /\ u # t => Marked(u, next)
  BY <1>1 DEF Marked, Froze, job
<1> QED  BY <1>1, <1>4, <1>5, <1>6 DEF KeepsOthers, job

\* The same for a run whose target is set to what is not completed.
OpenSet(next, run, t, target) ==
  /\ run \in Working /\ t \in DOMAIN run.job.targets /\ target \in TargetStates
  /\ target.provider = run.job.targets[t].provider /\ target.input = run.job.targets[t].input
  /\ target.status # "completed"
  /\ next.job = SetTarget(run, t, target).job /\ next.live = run.live

LEMMA OpenSetFits ==
  ASSUME NEW next, NEW run, NEW t, NEW target, OpenSet(next, run, t, target),
         NEW rs, NEW e, JobFits(run.job, rs, e)
  PROVE  KeepsOthers(next, run, t, target, rs, e)
<1>1. /\ run \in Working /\ t \in DOMAIN run.job.targets /\ target \in TargetStates
      /\ next.job = SetTarget(run, t, target).job /\ next.live = run.live
  BY DEF OpenSet
<1>2. TargetFits(target, run, t, rs, e)
  BY DEF OpenSet, TargetFits
<1> QED  BY <1>1, <1>2, SetFits

LEMMA WrittenRunFits ==
  ASSUME NEW run \in Working, NEW c, NEW rs, NEW e, RunFits(run, c, rs, e)
  PROVE  RunFits(Written(run), c, rs, e)
<1> DEFINE next == Written(run)
<1>1. /\ next.phase = run.phase /\ next.live = run.live /\ next.done = run.done
      /\ next.batch = run.batch /\ next.at = run.at /\ next.job.status = run.job.status
      /\ next.job.settings = run.job.settings /\ next.job.targets = run.job.targets
  BY WrittenFits
<1> HIDE DEF next
<1>2. \A req, u : MadeFor(req, run.job, u, e) => MadeFor(req, next.job, u, e)
  BY <1>1 DEF MadeFor
<1>3. JobFits(next.job, rs, e)
  BY <1>1, <1>2 DEF RunFits, JobFits, IsAnswer
<1>4. \A u : CallFits(c, run.job, u, rs, e) => CallFits(c, next.job, u, rs, e)
  BY <1>1, <1>2 DEF CallFits, IsAnswer, Froze
<1>5. \A u : Marked(u, run) => Marked(u, next)
  BY <1>1 DEF Marked, Froze
<1> QED  BY <1>1, <1>3, <1>4, <1>5 DEF RunFits, next

LEMMA PersistKeepsJobs ==
  ASSUME TypeInv, JobInv, NEW w \in Workers, NEW run \in Working, Persist(w, run),
         RunFits(run, call'[w], records, config),
         \A v \in Workers : v # w => call'[v] = call[v], UNCHANGED <<records, config>>
  PROVE  JobInv'
<1>1. /\ worker'[w] = Written(run) /\ \A v \in Workers : v # w => worker'[v] = worker[v]
      /\ manifest' \in {manifest, Written(run).job}
  BY Persisted
<1>2. RunFits(Written(run), call'[w], records, config)
  BY WrittenRunFits
<1>3. ManifestFits(Written(run).job, records, config)
  BY <1>2 DEF RunFits, ManifestFits
<1>4. ManifestFits(manifest', records, config)
  BY <1>1, <1>3 DEF JobInv
<1>5. \A v \in Workers : worker'[v] # NotRunning => RunFits(worker'[v], call'[v], records, config)
  BY <1>1, <1>2 DEF JobInv
<1> QED  BY <1>4, <1>5 DEF JobInv

LEMMA MoveKeepsJobs ==
  ASSUME TypeInv, JobInv, NEW w \in Workers, NEW next, worker' = [worker EXCEPT ![w] = next],
         next # NotRunning => RunFits(next, call'[w], records, config),
         \A v \in Workers : v # w => call'[v] = call[v], UNCHANGED <<records, config>>,
         ManifestFits(manifest', records, config)
  PROVE  JobInv'
<1>1. worker'[w] = next /\ \A v \in Workers : v # w => worker'[v] = worker[v]
  BY DEF TypeInv
<1> QED  BY <1>1 DEF JobInv

\* Every worker's run still fits after a step of classify_text, an edit or a crash.
LEMMA CallsKeepJobs ==
  ASSUME TypeInv, TypeInv', JobInv, Grows(records, records'), Later(config, config'),
         manifest' = manifest,
         \A v \in Workers : \/ worker'[v] = NotRunning
                            \/ worker'[v] = worker[v] /\ call'[v] = call[v]
                            \/ /\ worker'[v] = worker[v]
                               /\ worker[v] # NotRunning /\ worker[v].at # None =>
                                    CallFits(call'[v], worker[v].job, worker[v].at, records', config')
  PROVE  JobInv'
<1>1. records \in Seq(Records) /\ config \in Settings /\ config' \in Settings
  BY DEF TypeInv, CallsOK
<1>2. ManifestFits(manifest, records', config')
  BY <1>1, ManifestFitsStays DEF TypeInv, JobInv
<1>3. ASSUME NEW v \in Workers, worker'[v] # NotRunning
      PROVE  RunFits(worker'[v], call'[v], records', config')
  <2>1. worker'[v] = worker[v] /\ worker[v] \in Working /\ call[v] \in CallsNow
    BY <1>3 DEF TypeInv, CallsOK, CallsNow, Callers
  <2>2. RunFits(worker[v], call[v], records', config')
    BY <1>1, <1>3, <2>1, RunFitsStays DEF JobInv
  <2>3. worker[v].at # None => CallFits(call'[v], worker[v].job, worker[v].at, records', config')
    BY <1>3, <2>1, <2>2 DEF RunFits
  <2> QED  BY <2>1, <2>2, <2>3 DEF RunFits
<1> QED  BY <1>2, <1>3 DEF JobInv

LEMMA PassedRunFits ==
  ASSUME NEW run \in Working, NEW t \in DOMAIN run.job.targets, NEW target \in TargetStates,
         target.provider = run.job.targets[t].provider, target.input = run.job.targets[t].input,
         NEW rs, NEW e, NEW c, RunFits(run, c, rs, e), run.at = None, t \notin run.done,
         target.status # "completed"
  PROVE  RunFits(PassedRun(run, t, target), c, rs, e)
<1> DEFINE next == PassedRun(run, t, target)
<1>1. /\ next.phase = run.phase /\ next.live = run.live /\ next.done = run.done \cup {t}
      /\ next.batch = run.batch /\ next.at = run.at /\ next.job = SetTarget(run, t, target).job
  BY PassedFits
<1> HIDE DEF next
<1>2. /\ JobFits(next.job, rs, e) /\ next.job.status = run.job.status
      /\ \A u : Marked(u, run) /\ u # t => Marked(u, next)
  <2>1. JobFits(run.job, rs, e)
    BY DEF RunFits
  <2>2. OpenSet(next, run, t, target)
    BY <1>1 DEF OpenSet
  <2>3. KeepsOthers(next, run, t, target, rs, e)
    BY <2>1, <2>2, OpenSetFits
  <2> QED  BY <2>3 DEF KeepsOthers
<1>3. \A i \in DOMAIN run.batch : run.batch[i] # t /\ Marked(run.batch[i], run)
  BY DEF RunFits
<1> QED  BY <1>1, <1>2, <1>3 DEF RunFits, next

LEMMA EnqueuedRunFits ==
  ASSUME NEW run \in Working, NEW t \in DOMAIN run.job.targets, NEW target \in TargetStates,
         target.provider = run.job.targets[t].provider, target.input = run.job.targets[t].input,
         NEW rs, NEW e, NEW c, RunFits(run, c, rs, e), run.phase = "walking", t \notin run.done,
         target.status = "running", run.live[t] # None, Froze(run.live[t], run.job, t), t # None
  PROVE  RunFits(Enqueued(run, t, target), c, rs, e)
<1> DEFINE next == Enqueued(run, t, target)
<1>1. /\ next.phase = run.phase /\ next.live = run.live /\ next.done = run.done \cup {t}
      /\ next.batch = Append(run.batch, t) /\ next.at = run.at /\ next.job = SetTarget(run, t, target).job
  BY EnqueuedFits
<1>2. run.batch \in Seq(Targets) /\ t \in Targets /\ run.at = None
  BY JobsAre DEF Working, Runs, RunFits
<1> HIDE DEF next
<1>3. /\ JobFits(next.job, rs, e) /\ next.job.status = run.job.status
      /\ \A u : Marked(u, run) /\ u # t => Marked(u, next)
      /\ t \in DOMAIN next.job.targets /\ next.job.targets[t] = target
      /\ next.job.settings = run.job.settings
  <2>1. JobFits(run.job, rs, e)
    BY DEF RunFits
  <2>2. OpenSet(next, run, t, target)
    BY <1>1 DEF OpenSet
  <2>3. KeepsOthers(next, run, t, target, rs, e)
    BY <2>1, <2>2, OpenSetFits
  <2> QED  BY <2>3 DEF KeepsOthers
<1>4. Marked(t, next)
  BY <1>1, <1>3 DEF Marked, Froze
<1>5. \A i \in DOMAIN run.batch :
        /\ run.batch[i] # t /\ Marked(run.batch[i], next) /\ run.batch[i] \in next.done
        /\ run.batch[i] # None /\ \A j \in DOMAIN run.batch : i # j => run.batch[i] # run.batch[j]
  BY <1>1, <1>2, <1>3 DEF RunFits
<1> DEFINE k == Len(run.batch) + 1
<1>6. /\ DOMAIN next.batch = DOMAIN run.batch \cup {k} /\ k \notin DOMAIN run.batch
      /\ next.batch[k] = t /\ \A i \in DOMAIN run.batch : next.batch[i] = run.batch[i]
  BY <1>1, <1>2, Appended
<1> HIDE DEF k
<1>7. \A i \in DOMAIN next.batch :
       /\ Marked(next.batch[i], next) /\ next.batch[i] \in next.done /\ next.batch[i] # next.at
       /\ \A j \in DOMAIN next.batch : i # j => next.batch[i] # next.batch[j]
  BY <1>1, <1>2, <1>4, <1>5, <1>6
<1> QED  BY <1>1, <1>2, <1>3, <1>7 DEF RunFits, next

LEMMA AskedRunFits ==
  ASSUME NEW run \in Working, NEW t \in DOMAIN run.job.targets, NEW target \in TargetStates,
         target.provider = run.job.targets[t].provider, target.input = run.job.targets[t].input,
         NEW rs, NEW e, NEW c, NEW c2, RunFits(run, c, rs, e), run.phase = "walking", t \notin run.done,
         target.status = "running", run.live[t] # None, Froze(run.live[t], run.job, t),
         CallFits(c2, run.job, t, rs, e)
  PROVE  RunFits(Asked(run, t, target), c2, rs, e)
<1> DEFINE next == Asked(run, t, target)
<1>1. /\ next.phase = "asking" /\ next.live = run.live /\ next.done = run.done
      /\ next.batch = run.batch /\ next.at = t /\ next.job = SetTarget(run, t, target).job
  BY AskedFits
<1> HIDE DEF next
<1>2. /\ JobFits(next.job, rs, e) /\ next.job.status = run.job.status
      /\ \A u : Marked(u, run) /\ u # t => Marked(u, next)
      /\ CallFits(c2, next.job, t, rs, e)
      /\ t \in DOMAIN next.job.targets /\ next.job.targets[t] = target
      /\ next.job.settings = run.job.settings
  <2>1. JobFits(run.job, rs, e)
    BY DEF RunFits
  <2>2. OpenSet(next, run, t, target)
    BY <1>1 DEF OpenSet
  <2>3. KeepsOthers(next, run, t, target, rs, e)
    BY <2>1, <2>2, OpenSetFits
  <2> QED  BY <2>3 DEF KeepsOthers
<1>3. Marked(t, next)
  BY <1>1, <1>2 DEF Marked, Froze
<1>4. \A i \in DOMAIN run.batch : run.batch[i] # t /\ Marked(run.batch[i], next)
  BY <1>2 DEF RunFits
<1> QED  BY <1>1, <1>2, <1>3, <1>4 DEF RunFits, next

LEMMA SettledRunFits ==
  ASSUME NEW run \in Working, NEW t \in DOMAIN run.job.targets, NEW target \in TargetStates,
         target.provider = run.job.targets[t].provider, target.input = run.job.targets[t].input,
         NEW rs, NEW e, NEW c, RunFits(run, c, rs, e), run.phase \in {"asking", "replying"}, run.at = t,
         target.status = "completed" => IsAnswer(target.record, run.job, t, rs, e) /\ Resolved(rs[target.record])
  PROVE  RunFits(Settled(run, t, target), Idle, rs, e)
<1> DEFINE next == Settled(run, t, target)
<1>1. /\ next.phase \in {"walking", "replying"} /\ next.live = run.live /\ next.done = run.done \cup {t}
      /\ next.batch = run.batch /\ next.at = None /\ next.job = SetTarget(run, t, target).job
  BY SettledFits
<1> HIDE DEF next
<1>2. /\ JobFits(next.job, rs, e) /\ next.job.status = run.job.status
      /\ \A u : Marked(u, run) /\ u # t => Marked(u, next)
  <2>1. JobFits(run.job, rs, e)
    BY DEF RunFits
  <2>2. TargetFits(target, run, t, rs, e)
    BY DEF TargetFits
  <2>3. KeepsOthers(next, run, t, target, rs, e)
    BY <1>1, <2>1, <2>2, SetFits
  <2> QED  BY <2>3 DEF KeepsOthers
<1>3. \A i \in DOMAIN run.batch : /\ run.batch[i] # t /\ Marked(run.batch[i], next)
                                  /\ run.batch[i] \in DOMAIN run.job.targets
  BY <1>2 DEF RunFits, Marked
<1>4. \A u \in DOMAIN run.job.targets : u # None
  BY JobsAre, TargetsAreListed, NoneIsNothing DEF Working, Runs
<1> QED  BY <1>1, <1>2, <1>3, <1>4 DEF RunFits, next

LEMMA TakenRunFits ==
  ASSUME NEW run \in Working, NEW rs, NEW e, NEW c, NEW c2, RunFits(run, c, rs, e),
         run.phase = "replying", run.batch # <<>>, CallFits(c2, run.job, Head(run.batch), rs, e)
  PROVE  RunFits([run EXCEPT !.at = Head(run.batch), !.batch = Tail(@)], c2, rs, e)
<1> DEFINE next == [run EXCEPT !.at = Head(run.batch), !.batch = Tail(@)]
<1>1. /\ next.phase = run.phase /\ next.live = run.live /\ next.done = run.done
      /\ next.batch = Tail(run.batch) /\ next.at = Head(run.batch) /\ next.job = run.job
  BY TakenFits
<1>2. run.batch \in Seq(Targets)
  BY DEF Working, Runs
<1>3. /\ 1 \in DOMAIN run.batch /\ Head(run.batch) = run.batch[1]
      /\ \A i \in DOMAIN next.batch :
           /\ i + 1 \in DOMAIN run.batch /\ i + 1 # 1 /\ next.batch[i] = run.batch[i + 1] /\ i \in Nat
  BY <1>1, <1>2, Tails
<1> HIDE DEF next
<1> SUFFICES RunFits(next, c2, rs, e)
  BY DEF next
<1>4. \A u : Marked(u, run) => Marked(u, next)
  BY <1>1 DEF Marked, Froze
<1>5. /\ Marked(next.at, next)
      /\ \A i \in DOMAIN next.batch :
           Marked(next.batch[i], next) /\ next.batch[i] \in next.done /\ next.batch[i] # next.at
  BY <1>1, <1>3, <1>4 DEF RunFits
<1>6. \A i, j \in DOMAIN next.batch : i # j => next.batch[i] # next.batch[j]
  <2> SUFFICES ASSUME NEW i \in DOMAIN next.batch, NEW j \in DOMAIN next.batch, i # j
               PROVE  next.batch[i] # next.batch[j]
    OBVIOUS
  <2>1. i + 1 # j + 1
    BY <1>3
  <2> QED  BY <1>3, <2>1 DEF RunFits
<1> QED  BY <1>1, <1>5, <1>6 DEF RunFits

LEMMA FailedRunFits ==
  ASSUME NEW run \in Working, NEW t \in DOMAIN run.job.targets, NEW target \in TargetStates,
         target.provider = run.job.targets[t].provider, target.input = run.job.targets[t].input,
         NEW rs, NEW e, NEW c, RunFits(run, c, rs, e), run.phase = "failing", run.batch # <<>>,
         t = Head(run.batch), target.status = "failed"
  PROVE  RunFits(Failed(run, t, target), c, rs, e)
<1> DEFINE next == Failed(run, t, target)
<1>1. /\ next.phase = run.phase /\ next.live = run.live /\ next.done = run.done
      /\ next.batch = Tail(run.batch) /\ next.at = run.at /\ next.job = SetTarget(run, t, target).job
  BY FailedFits
<1>2. run.batch \in Seq(Targets) /\ run.at = None
  BY DEF Working, Runs, RunFits
<1>3. /\ 1 \in DOMAIN run.batch /\ t = run.batch[1]
      /\ \A i \in DOMAIN next.batch :
           /\ i + 1 \in DOMAIN run.batch /\ i + 1 # 1 /\ next.batch[i] = run.batch[i + 1] /\ i \in Nat
  <2>1. next.batch = Tail(run.batch) /\ t = Head(run.batch)
    BY <1>1
  <2> HIDE DEF next
  <2> QED  BY <1>2, <2>1, Tails
<1> HIDE DEF next
<1>4. /\ JobFits(next.job, rs, e) /\ next.job.status = run.job.status
      /\ \A u : Marked(u, run) /\ u # t => Marked(u, next)
  <2>1. JobFits(run.job, rs, e)
    BY DEF RunFits
  <2>2. OpenSet(next, run, t, target)
    BY <1>1 DEF OpenSet
  <2>3. KeepsOthers(next, run, t, target, rs, e)
    BY <2>1, <2>2, OpenSetFits
  <2> QED  BY <2>3 DEF KeepsOthers
<1>5. \A i \in DOMAIN next.batch :
        /\ next.batch[i] # t /\ Marked(next.batch[i], run)
        /\ next.batch[i] \in next.done /\ next.batch[i] # next.at
  BY <1>1, <1>3 DEF RunFits
<1>6. \A i, j \in DOMAIN next.batch : i # j => next.batch[i] # next.batch[j]
  <2> SUFFICES ASSUME NEW i \in DOMAIN next.batch, NEW j \in DOMAIN next.batch, i # j
               PROVE  next.batch[i] # next.batch[j]
    OBVIOUS
  <2>1. i + 1 # j + 1
    BY <1>3
  <2> QED  BY <1>3, <2>1 DEF RunFits
<1> QED  BY <1>1, <1>2, <1>4, <1>5, <1>6 DEF RunFits, next
-----------------------------------------------------------------------------
\* What a worker's call becomes fits the target it asks about.
LEMMA ClassifiedFits ==
  ASSUME TypeInv, NEW w \in Workers, NEW t \in Targets, NEW item \in Items, NEW p \in Providers,
         Classify(w, t, item, p), NEW job \in Jobs,
         Froze(item, job, t), p = job.targets[t].provider
  PROVE  /\ CallFits(call'[w], job, t, records, config)
         /\ \A v \in Workers : v # w => call'[v] = call[v]
<1>1. w \in Callers
  BY DEF Callers
<1>2. PICK next \in CallsNow :
        /\ Becomes(w, next) /\ next.phase \in {"waiting", "idle", "returned"}
        /\ next.phase = "waiting" => next.lock.target = t /\ next.lock.provider = p /\ next.item = item
        /\ next.phase = "returned" => next.answer = "disabled"
  BY <1>1, ClassifyShows DEF TypeInv
<1>3. call'[w] = next /\ \A v \in Workers : v # w => call'[v] = call[v]
  BY <1>2 DEF Becomes, Callers
<1>4. CallFits(next, job, t, records, config)
  BY <1>2 DEF CallFits
<1> QED  BY <1>3, <1>4

LEMMA JobsKeptByWorker ==
  ASSUME TypeInv, JobInv, NEW w \in Workers, Start(w) \/ Resume(w) \/ WorkerStep(w)
  PROVE  JobInv'
<1> DEFINE rs == records
           e == config
<1>0. /\ e \in Settings /\ ManifestFits(manifest, rs, e)
      /\ worker \in [Workers -> {NotRunning} \cup Working]
      /\ worker[w] \in Working => RunFits(worker[w], call[w], rs, e)
  BY NotRunningIsNoRun DEF JobInv, TypeInv, CallsOK, Settings
<1>1. CASE Start(w)
  <2>1. PICK job \in Jobs : /\ job.status = "running" /\ job.settings = config
                            /\ \A t \in DOMAIN job.targets : job.targets[t].status \in {"blocked", "pending"}
                            /\ worker' = [worker EXCEPT ![w] = Run("entering", job)]
                            /\ UNCHANGED <<classificationVars, manifest>>
    BY <1>1, StartShows
  <2> DEFINE next == Run("entering", job)
  <2>2. next.phase = "entering" /\ next.job = job /\ next.batch = <<>> /\ next.at = None
    BY EnteringFits
  <2>3. JobFits(job, rs, e)
    BY <1>0, <2>1, LimitsAreNumbers DEF JobFits, Later, Settings
  <2>4. worker' = [worker EXCEPT ![w] = next] /\ UNCHANGED <<call, records, config, manifest>>
    BY <2>1 DEF classificationVars
  <2> HIDE DEF next
  <2>5. RunFits(next, call'[w], rs, e)
    BY <2>1, <2>2, <2>3 DEF RunFits
  <2> QED  BY <1>0, <2>4, <2>5, MoveKeepsJobs
<1>2. CASE Resume(w)
  <2>1. PICK job \in Jobs : /\ manifest \in Jobs /\ job.status = "running"
                            /\ job.settings = manifest.settings /\ job.targets = manifest.targets
                            /\ worker' = [worker EXCEPT ![w] = Run("entering", job)]
                            /\ UNCHANGED <<classificationVars, manifest>>
    BY <1>2, ResumeShows
  <2> DEFINE next == Run("entering", job)
  <2>2. next.phase = "entering" /\ next.job = job /\ next.batch = <<>> /\ next.at = None
    BY EnteringFits
  <2>3. JobFits(job, rs, e)
    <3>1. JobFits(manifest, rs, e)
      BY <1>0, <2>1, NoneIsNoJob DEF ManifestFits
    <3>2. \A req, t : MadeFor(req, manifest, t, e) => MadeFor(req, job, t, e)
      BY <2>1 DEF MadeFor
    <3> QED  BY <2>1, <3>1, <3>2 DEF JobFits, IsAnswer
  <2>4. worker' = [worker EXCEPT ![w] = next] /\ UNCHANGED <<call, records, config, manifest>>
    BY <2>1 DEF classificationVars
  <2> HIDE DEF next
  <2>5. RunFits(next, call'[w], rs, e)
    BY <2>1, <2>2, <2>3 DEF RunFits
  <2> QED  BY <1>0, <2>4, <2>5, MoveKeepsJobs
<1>3. CASE Lock(w)
  <2> DEFINE run == [worker[w] EXCEPT !.phase = "walking", !.live = evidence]
  <2>1. /\ worker[w] \in Working /\ run \in Working /\ Persist(w, run)
        /\ run.batch = <<>> /\ run.at = None /\ run.job = worker[w].job
        /\ UNCHANGED <<classificationVars, runs>>
    BY <1>3, LockShows
  <2> HIDE DEF run
  <2>2. UNCHANGED <<call, records, config>>
    BY <2>1 DEF classificationVars
  <2>3. RunFits(run, call'[w], rs, e)
    BY <1>0, <2>1 DEF RunFits
  <2> QED  BY <2>1, <2>2, <2>3, PersistKeepsJobs
<1>4. CASE LockBusy(w)
  <2>1. worker' = [worker EXCEPT ![w] = NotRunning] /\ UNCHANGED <<call, records, config, manifest>>
    BY <1>4 DEF LockBusy, classificationVars
  <2> QED  BY <1>0, <2>1, MoveKeepsJobs
<1>5. CASE Settle(w)
  <2> DEFINE t == worker[w].at
             now == worker[w].job.targets[t]
             target == Outcome(now, call[w])
             run == Settled(worker[w], t, target)
  <2>1. /\ worker[w] \in Working /\ worker[w].phase \in {"asking", "replying"} /\ t # None
        /\ t \in DOMAIN worker[w].job.targets /\ now \in TargetStates /\ target \in TargetStates
        /\ call[w] \in Returns /\ Persist(w, run) /\ call' = [call EXCEPT ![w] = Idle]
        /\ UNCHANGED <<config, records>>
    BY <1>5, SettleShows
  <2>2. /\ target.provider = now.provider /\ target.input = now.input
        /\ target.status = "completed" =>
             call[w].answer = "record" /\ target.record = call[w].id /\ Resolved(records[call[w].id])
    BY <2>1, TargetsSettle
  <2>3. RunFits(worker[w], call[w], rs, e)
    BY <1>0, <2>1
  <2>4. CallFits(call[w], worker[w].job, t, rs, e) /\ call[w].phase = "returned"
    BY <2>1, <2>3 DEF RunFits, Returns
  <2>5. target.status = "completed" =>
          IsAnswer(target.record, worker[w].job, t, rs, e) /\ Resolved(rs[target.record])
    BY <2>2, <2>4 DEF CallFits
  <2>6. call'[w] = Idle /\ \A v \in Workers : v # w => call'[v] = call[v]
    BY <2>1 DEF TypeInv, CallsOK, Callers
  <2>7. t = worker[w].at
    OBVIOUS
  <2>8. now = worker[w].job.targets[t]
    OBVIOUS
  <2> HIDE DEF t, now, target
  <2>9. run \in Working
    BY <2>1, SettledFits
  <2>10. RunFits(run, call'[w], rs, e)
    BY <2>1, <2>2, <2>3, <2>5, <2>6, <2>7, <2>8, SettledRunFits
  <2> HIDE DEF run
  <2> QED  BY <2>1, <2>6, <2>9, <2>10, PersistKeepsJobs
<1>6. CASE Flush(w)
  <2>1. PICK p \in {"replying", "failing"} : worker' = [worker EXCEPT ![w].phase = p]
    BY <1>6 DEF Flush
  <2>2. /\ worker[w] \in Working /\ worker[w].phase = "walking"
        /\ UNCHANGED <<call, records, config, manifest>>
    BY <1>0, <1>6 DEF Flush, NotRunning, classificationVars
  <2> DEFINE next == [worker[w] EXCEPT !.phase = p]
  <2>3. worker' = [worker EXCEPT ![w] = next]
    BY <1>0, <2>1
  <2>4. /\ next.phase = p /\ next.live = worker[w].live /\ next.done = worker[w].done
        /\ next.batch = worker[w].batch /\ next.at = worker[w].at /\ next.job = worker[w].job
    BY <2>2, FlushedFits
  <2> HIDE DEF next
  <2>5. RunFits(next, call'[w], rs, e)
    <3>1. RunFits(worker[w], call[w], rs, e) /\ call'[w] = call[w]
      BY <1>0, <2>2
    <3>2. worker[w].at = None
      BY <2>2, <3>1 DEF RunFits
    <3>3. \A u : Marked(u, worker[w]) => Marked(u, next)
      BY <2>4 DEF Marked, Froze
    <3> QED  BY <2>4, <3>1, <3>2, <3>3 DEF RunFits
  <2> QED  BY <1>0, <2>2, <2>3, <2>5, MoveKeepsJobs
<1>7. CASE TakeReply(w)
  <2> DEFINE run == worker[w]
             t == Head(run.batch)
             p == run.job.targets[t].provider
             next == [run EXCEPT !.at = Head(run.batch), !.batch = Tail(@)]
  <2>1. /\ run \in Working /\ run.phase = "replying" /\ run.batch # <<>>
        /\ worker' = [worker EXCEPT ![w] = next] /\ Classify(w, t, run.live[t], p)
        /\ UNCHANGED <<config, records, manifest>>
    BY <1>7, TakeReplyShows
  <2>2. t \in Targets /\ run.live[t] \in Items /\ p \in Providers /\ run.job \in Jobs
    BY <2>1, HeadShows
  <2>3. RunFits(run, call[w], rs, e)
    BY <1>0, <2>1
  <2>4. Froze(run.live[t], run.job, t)
    <3>1. run.batch \in Seq(Targets)
      BY <2>1 DEF Working, Runs
    <3>2. 1 \in DOMAIN run.batch /\ t = run.batch[1]
      BY <2>1, <3>1, Tails
    <3> QED  BY <2>3, <3>2 DEF RunFits, Marked
  <2>5. /\ CallFits(call'[w], run.job, t, rs, e)
        /\ \A v \in Workers : v # w => call'[v] = call[v]
    BY <2>1, <2>2, <2>4, ClassifiedFits
  <2>6. RunFits(next, call'[w], rs, e)
    BY <2>1, <2>3, <2>5, TakenRunFits
  <2> HIDE DEF run, next
  <2> QED  BY <1>0, <2>1, <2>5, <2>6, MoveKeepsJobs
<1>8. CASE FailNext(w)
  <2> DEFINE run == worker[w]
             t == Head(run.batch)
             now == run.job.targets[t]
             next == Failed(run, t, Fail(now))
  <2>1. /\ run \in Working /\ run.phase = "failing" /\ run.batch # <<>>
        /\ Persist(w, next) /\ UNCHANGED <<classificationVars, jobLock, runs>>
    BY <1>8, FailNextShows
  <2>2. t \in DOMAIN run.job.targets /\ now \in TargetStates
    BY <2>1, HeadShows
  <2>3. /\ Fail(now) \in TargetStates /\ Fail(now).provider = now.provider /\ Fail(now).input = now.input
        /\ Fail(now).status = "failed"
    BY <2>2, TargetsFail
  <2>4. UNCHANGED <<call, records, config>> /\ RunFits(run, call[w], rs, e)
    BY <1>0, <2>1 DEF classificationVars
  <2>5. next \in Working
    BY <2>1, <2>2, <2>3, FailedFits
  <2>6. RunFits(next, call[w], rs, e)
    BY <2>1, <2>2, <2>3, <2>4, FailedRunFits
  <2> HIDE DEF run, next
  <2> QED  BY <2>1, <2>4, <2>5, <2>6, PersistKeepsJobs
<1>9. CASE End(w)
  <2>1. PICK last \in Jobs :
           /\ worker[w] \in Working /\ worker[w].job \in Jobs
           /\ last.settings = worker[w].job.settings /\ last.targets = worker[w].job.targets
           /\ last.status = "completed" =>
                \A t \in DOMAIN worker[w].job.targets : worker[w].job.targets[t].status \notin Loose
           /\ manifest' \in {manifest, last}
           /\ worker' = [worker EXCEPT ![w] = NotRunning]
           /\ UNCHANGED <<classificationVars, runs>>
    BY <1>9, EndShows
  <2>2. UNCHANGED <<call, records, config>>
    BY <2>1 DEF classificationVars
  <2>3. JobFits(last, rs, e)
    <3>1. JobFits(worker[w].job, rs, e)
      BY <1>0, <2>1 DEF RunFits
    <3>2. \A req, t : MadeFor(req, worker[w].job, t, e) => MadeFor(req, last, t, e)
      BY <2>1 DEF MadeFor
    <3> QED  BY <2>1, <3>1, <3>2 DEF JobFits, IsAnswer
  <2>4. last.status = "completed" =>
          \A t \in DOMAIN last.targets : last.targets[t].status \in {"completed", "disabled"}
    <3>1. \A t \in DOMAIN last.targets : last.targets[t] \in TargetStates
      BY JobsAre
    <3> QED  BY <2>1, <3>1 DEF Loose, TargetStates
  <2>5. ManifestFits(manifest', rs, e)
    BY <1>0, <2>1, <2>3, <2>4 DEF ManifestFits
  <2> QED  BY <2>1, <2>2, <2>5, MoveKeepsJobs
<1>10. CASE \E t \in Targets : Refuse(w, t)
  <2>1. PICK t \in Targets : Refuse(w, t)
    BY <1>10
  <2> DEFINE run == worker[w]
             now == run.job.targets[t]
  <2>2. PICK target \in TargetStates :
          /\ target.status \in {"failed", "blocked"}
          /\ target.provider = now.provider /\ target.input = now.input
          /\ Persist(w, PassedRun(run, t, target)) /\ UNCHANGED <<classificationVars, jobLock, runs>>
    BY <2>1, RefuseShows
  <2>3. run \in Working /\ run.phase = "walking" /\ t \in DOMAIN run.job.targets /\ t \notin run.done
    BY <2>1, AtTargetShows DEF Refuse
  <2>4. UNCHANGED <<call, records, config>> /\ RunFits(run, call[w], rs, e) /\ run.at = None
    BY <1>0, <2>2, <2>3 DEF classificationVars, RunFits
  <2> DEFINE next == PassedRun(run, t, target)
  <2>5. next \in Working
    BY <2>3, PassedFits
  <2>6. RunFits(next, call[w], rs, e)
    BY <2>2, <2>3, <2>4, PassedRunFits
  <2>7. Persist(w, next)
    BY <2>2
  <2> HIDE DEF run, next
  <2> QED  BY <2>4, <2>5, <2>6, <2>7, PersistKeepsJobs
<1>11. CASE \E t \in Targets : Ask(w, t)
  <2>1. PICK t \in Targets : Ask(w, t)
    BY <1>11
  <2> DEFINE run == worker[w]
             now == run.job.targets[t]
             next == Asked(run, t, Begun(now))
  <2>2. /\ AtTarget(w, t) /\ Unchanged(w, t) /\ Persist(w, next)
        /\ Classify(w, t, run.live[t], now.provider) /\ UNCHANGED <<config, records>>
    BY <2>1, AskShows
  <2>3. /\ run \in Working /\ run.phase = "walking" /\ t \in DOMAIN run.job.targets /\ t \notin run.done
        /\ now \in TargetStates /\ run.job \in Jobs
        /\ run.live[t] \in Items /\ run.live[t] # None /\ Froze(run.live[t], run.job, t)
        /\ now.provider \in Providers
    BY <2>2, AtTargetShows, UnchangedShows
  <2>4. /\ Begun(now) \in TargetStates /\ Begun(now).status = "running"
        /\ Begun(now).provider = now.provider /\ Begun(now).input = now.input
    BY <2>3, TargetsBegin
  <2>5. RunFits(run, call[w], rs, e)
    BY <1>0, <2>3
  <2>6. /\ CallFits(call'[w], run.job, t, rs, e)
        /\ \A v \in Workers : v # w => call'[v] = call[v]
    BY <2>2, <2>3, <2>5, ClassifiedFits
  <2>7. next \in Working
    BY <2>3, <2>4, AskedFits
  <2>8. RunFits(next, call'[w], rs, e)
    BY <2>3, <2>4, <2>5, <2>6, AskedRunFits
  <2> HIDE DEF run, next
  <2> QED  BY <2>2, <2>6, <2>7, <2>8, PersistKeepsJobs
<1>12. CASE \E t \in Targets : Enqueue(w, t)
  <2>1. PICK t \in Targets : Enqueue(w, t)
    BY <1>12
  <2> DEFINE run == worker[w]
             now == run.job.targets[t]
             next == Enqueued(run, t, Begun(now))
  <2>2. /\ AtTarget(w, t) /\ Unchanged(w, t) /\ Persist(w, next)
        /\ UNCHANGED <<classificationVars, jobLock, runs>>
    BY <2>1, EnqueueShows
  <2>3. /\ run \in Working /\ run.phase = "walking" /\ t \in DOMAIN run.job.targets /\ t \notin run.done
        /\ now \in TargetStates /\ run.live[t] # None /\ Froze(run.live[t], run.job, t) /\ t # None
    BY <2>2, AtTargetShows, UnchangedShows, TargetsAreListed, NoneIsNothing
  <2>4. /\ Begun(now) \in TargetStates /\ Begun(now).status = "running"
        /\ Begun(now).provider = now.provider /\ Begun(now).input = now.input
    BY <2>3, TargetsBegin
  <2>5. UNCHANGED <<call, records, config>> /\ RunFits(run, call[w], rs, e)
    BY <1>0, <2>2, <2>3 DEF classificationVars
  <2>6. next \in Working
    BY <2>3, <2>4, EnqueuedFits
  <2>7. RunFits(next, call[w], rs, e)
    BY <2>3, <2>4, <2>5, EnqueuedRunFits
  <2> HIDE DEF run, next
  <2> QED  BY <2>2, <2>5, <2>6, <2>7, PersistKeepsJobs
<1> QED  BY <1>1, <1>2, <1>3, <1>4, <1>5, <1>6, <1>7, <1>8, <1>9, <1>10, <1>11, <1>12 DEF WorkerStep

\* A step of classify_text that a worker's call takes gives what fits its target.
LEMMA StepFits ==
  ASSUME TypeInv, ChainInv, JobInv, NEW w \in Workers, ClassifyStep(w), worker[w] # NotRunning, worker[w].at # None
  PROVE  CallFits(call'[w], worker[w].job, worker[w].at, records', config)
<1> DEFINE job == worker[w].job
           t == worker[w].at
           e == config
<1>1. /\ w \in Callers /\ config \in Settings /\ records \in Seq(Records) /\ call \in [Callers -> CallsNow]
      /\ worker[w] \in Working
  BY DEF Callers, TypeInv, CallsOK, CallsNow, Settings
<1>2. job \in Jobs /\ RunFits(worker[w], call[w], records, e)
  BY <1>1 DEF Working, Runs, JobInv
<1>3. CallFits(call[w], job, t, records, e) /\ Later(job.settings, e)
  BY <1>2 DEF RunFits, JobFits
<1> HIDE DEF job, t
<1>4. CASE LockAndScan(w)
  <2> DEFINE req == Reread(call[w])
  <2>1. PICK next \in CallsNow :
          /\ Becomes(w, next) /\ next.phase \in {"asking", "idle", "returned"}
          /\ next.phase = "asking" => next.request = req
          /\ next.phase = "returned" /\ next.answer = "record" => next.id \in IdsOf(req)
    BY <1>1, <1>4, ScanShows DEF TypeInv, ChainInv
  <2>2. call[w] \in Waits /\ call[w].phase = "waiting" /\ call[w].item \in Items
    BY <1>1, <1>4, ScanShows DEF TypeInv, ChainInv, Waits
  <2>3. /\ call[w].lock.target = t /\ call[w].lock.provider = job.targets[t].provider
        /\ Froze(call[w].item, job, t)
    BY <1>3, <2>2 DEF CallFits
  <2>4. MadeFor(req, job, t, e)
    <3>1. /\ req.target = call[w].lock.target /\ req.provider = call[w].lock.provider
          /\ req.edition = e.edition /\ req.input = Clip[call[w].item.text][e.limit]
      BY <1>1, <2>2, RereadFits
    <3> HIDE DEF req
    <3> QED  BY <1>1, <1>2, <1>3, <2>2, <2>3, <3>1, RequestMade
  <2> HIDE DEF req
  <2>5. next.phase = "returned" /\ next.answer = "record" => IsAnswer(next.id, job, t, records, e)
    BY <2>1, <2>4 DEF IdsOf, IsAnswer
  <2>6. CallFits(next, job, t, records, e)
    BY <2>1, <2>4, <2>5 DEF CallFits
  <2>7. call'[w] = next /\ records' = records
    BY <1>4, <2>1 DEF Becomes, LockAndScan
  <2> QED  BY <2>6, <2>7 DEF job, t
<1>5. CASE Answer(w)
  <2> DEFINE new == Len(records) + 1
  <2>1. /\ call[w] \in Asks /\ DOMAIN records' = DOMAIN records \cup {new}
        /\ records'[new].request = call[w].request
    BY <1>1, <1>5, AnswerShows DEF TypeInv
  <2>2. PICK next : /\ Becomes(w, next) /\ next.phase \in {"idle", "returned"}
                    /\ next.phase = "returned" => next.answer = "record" /\ next.id = new
    BY <1>1, <1>5, AnswerShows DEF TypeInv
  <2>3. MadeFor(call[w].request, job, t, e)
    BY <1>3, <2>1 DEF CallFits, Asks
  <2> HIDE DEF new
  <2>4. IsAnswer(new, job, t, records', e)
    BY <2>1, <2>3 DEF IsAnswer
  <2>5. CallFits(next, job, t, records', e)
    BY <2>2, <2>4 DEF CallFits
  <2> QED  BY <2>2, <2>5 DEF Becomes, job, t
<1>6. CASE AnswerLost(w)
  <2>1. PICK next : /\ Becomes(w, next) /\ next.phase \in {"idle", "returned"}
                    /\ next.phase = "returned" => next.answer = "raised"
    BY <1>1, <1>6, LostShows DEF TypeInv
  <2>2. CallFits(next, job, t, records', e)
    BY <2>1 DEF CallFits
  <2> QED  BY <2>1, <2>2 DEF Becomes, job, t
<1> QED  BY <1>4, <1>5, <1>6 DEF ClassifyStep

LEMMA StepGrows ==
  ASSUME TypeInv, ChainInv, NEW c \in Callers, ClassifyStep(c)
  PROVE  /\ Grows(records, records') /\ config' = config
         /\ \A d \in Callers : d # c => call'[d] = call[d]
         /\ call[c] # Idle
<1>1. CASE LockAndScan(c)
  <2>1. UNCHANGED <<records, config>> /\ call[c] # Idle
    BY <1>1 DEF LockAndScan, Idle
  <2>2. \E next : Becomes(c, next)
    BY <1>1, ScanShows DEF TypeInv, ChainInv
  <2> QED  BY <2>1, <2>2 DEF Grows, Becomes
<1>2. CASE Answer(c)
  <2>1. /\ DOMAIN records \subseteq DOMAIN records' /\ config' = config
        /\ \A n \in DOMAIN records : records'[n] = records[n]
        /\ \E next : Becomes(c, next)
    BY <1>2, AnswerShows DEF TypeInv
  <2>2. call[c] # Idle
    BY <1>2 DEF Answer, Idle
  <2> QED  BY <2>1, <2>2 DEF Grows, Becomes
<1>3. CASE AnswerLost(c)
  <2>1. UNCHANGED <<records, config>> /\ call[c] # Idle
    BY <1>3 DEF AnswerLost, Idle
  <2>2. \E next : Becomes(c, next)
    BY <1>3, LostShows DEF TypeInv
  <2> QED  BY <2>1, <2>2 DEF Grows, Becomes
<1> QED  BY <1>1, <1>2, <1>3 DEF ClassifyStep

LEMMA JobsKept == TypeInv /\ ChainInv /\ JobInv /\ [Next]_vars => JobInv'
<1> SUFFICES ASSUME TypeInv, ChainInv, JobInv, [Next]_vars PROVE JobInv'
  OBVIOUS
<1>1. TypeInv'
  BY TypesKept
<1>2. config \in Settings /\ Later(config, config) /\ Grows(records, records)
  BY LimitsAreNumbers DEF TypeInv, CallsOK, Settings, Grows, Later
<1>3. CASE \E w \in Workers : Start(w) \/ Resume(w) \/ WorkerStep(w)
  BY <1>3, JobsKeptByWorker
<1>4. CASE \E c \in Callers : Crash(c)
  <2>1. PICK c \in Callers : Crash(c)
    BY <1>4
  <2>2. /\ call' = [call EXCEPT ![c] = Idle] /\ UNCHANGED <<config, records, manifest>>
        /\ worker' = IF c \in Workers THEN [worker EXCEPT ![c] = NotRunning] ELSE worker
    BY <2>1 DEF Crash
  <2>3. \A v \in Workers : \/ worker'[v] = NotRunning
                           \/ worker'[v] = worker[v] /\ call'[v] = call[v]
    BY <2>2 DEF TypeInv, CallsOK, Callers
  <2> QED  BY <1>1, <1>2, <2>2, <2>3, CallsKeepJobs
<1>5. CASE \E c \in Callers : ClassifyStep(c) /\ UNCHANGED replayVars
  <2>1. PICK c \in Callers : ClassifyStep(c) /\ UNCHANGED replayVars
    BY <1>5
  <2>2. /\ Grows(records, records') /\ config' = config /\ call[c] # Idle
        /\ \A d \in Callers : d # c => call'[d] = call[d]
    BY <2>1, StepGrows
  <2>3. worker' = worker /\ manifest' = manifest
    BY <2>1 DEF replayVars
  <2>4. \A v \in Workers : \/ worker'[v] = NotRunning
                           \/ worker'[v] = worker[v] /\ call'[v] = call[v]
                           \/ /\ worker'[v] = worker[v]
                              /\ worker[v] # NotRunning /\ worker[v].at # None =>
                                   CallFits(call'[v], worker[v].job, worker[v].at, records', config')
    <3> SUFFICES ASSUME NEW v \in Workers, v = c, worker[v] # NotRunning, worker[v].at # None
                 PROVE  CallFits(call'[v], worker[v].job, worker[v].at, records', config')
      BY <2>2, <2>3 DEF Callers
    <3> QED  BY <2>1, <2>2, StepFits
  <2> QED  BY <1>1, <1>2, <2>2, <2>3, <2>4, CallsKeepJobs
<1>6. CASE (\E c \in Registrars, t \in Targets : Register(c, t)) /\ UNCHANGED replayVars
  <2>1. PICK c \in Registrars, t \in Targets : Register(c, t)
    BY <1>6
  <2>2. c \in Callers /\ c \notin Workers /\ evidence[t] \in Items /\ UNCHANGED <<config, records>>
        /\ Classify(c, t, evidence[t], DefaultProvider)
    BY <2>1, TwoKindsOfCallers DEF Callers, Register, TypeInv, Snapshots
  <2>3. \E next \in CallsNow : Becomes(c, next)
    BY <2>2, ProviderKnown, ClassifyShows DEF TypeInv
  <2>4. \A v \in Workers : worker'[v] = worker[v] /\ call'[v] = call[v]
    BY <1>6, <2>2, <2>3 DEF Becomes, Callers, replayVars
  <2>5. manifest' = manifest
    BY <1>6 DEF replayVars
  <2> QED  BY <1>1, <1>2, <2>2, <2>4, <2>5, CallsKeepJobs
<1>7. CASE EditConfig /\ UNCHANGED replayVars
  <2>1. UNCHANGED <<records, call, worker, manifest>>
    BY <1>7 DEF EditConfig, replayVars
  <2>2. Later(config, config')
    BY <1>2, <1>7, EditsShow
  <2> QED  BY <1>1, <1>2, <2>1, <2>2, CallsKeepJobs
<1>8. CASE (\E t \in Targets : EditEvidence(t)) /\ UNCHANGED replayVars
  BY <1>1, <1>2, <1>8, CallsKeepJobs DEF EditEvidence, replayVars
<1>9. CASE UNCHANGED vars
  BY <1>1, <1>2, <1>9, CallsKeepJobs DEF vars, classificationVars, replayVars
<1> QED  BY <1>3, <1>4, <1>5, <1>6, <1>7, <1>8, <1>9 DEF Next

LEMMA TypesChainsAndJobs == Spec => [](TypeInv /\ ChainInv /\ JobInv)
<1>1. Init => JobInv
  BY DEF Init, ClassificationInit, JobInv, ManifestFits
<1>2. (TypeInv /\ ChainInv /\ JobInv) /\ [Next]_vars => (TypeInv /\ ChainInv /\ JobInv)'
  BY TypesKept, ChainsKept, JobsKept
<1> QED  BY <1>1, <1>2, InitTypes, PTL DEF Spec

(***************************************************************************)
(* What the manifest calls completed is backed by a resolved record of the *)
(* same target and provider and of a clip of the text that the job froze,  *)
(* of the job's edition and input while these settings are the job's, and a*)
(* completed job left no target out, whatever was edited, killed, resumed  *)
(* or classified by others meanwhile.                                      *)
(***************************************************************************)
THEOREM CompletedStaysBacked == Spec => []CompletedIsBacked
<1>1. TypeInv /\ JobInv => CompletedIsBacked
  <2> SUFFICES ASSUME TypeInv, JobInv, manifest # None, NEW t \in DOMAIN manifest.targets
               PROVE  LET target == manifest.targets[t]
                      IN  /\ target.status = "completed" => Backed(target, t)
                          /\ manifest.status = "completed" =>
                               target.status = "disabled" \/ Backed(target, t)
    BY DEF CompletedIsBacked
  <2> DEFINE target == manifest.targets[t]
             r == records[target.record]
  <2>1. manifest \in Jobs /\ JobFits(manifest, records, config)
    BY DEF TypeInv, JobInv, ManifestFits
  <2>2. manifest.status = "completed" => target.status \in {"completed", "disabled"}
    BY DEF JobInv, ManifestFits
  <2>3. target.status = "completed" => Backed(target, t)
    <3> SUFFICES ASSUME target.status = "completed" PROVE Backed(target, t)
      OBVIOUS
    <3>1. IsAnswer(target.record, manifest, t, records, config) /\ Resolved(r)
      BY <2>1 DEF JobFits
    <3>2. target.record \in DOMAIN records /\ MadeFor(r.request, manifest, t, config)
      BY <3>1 DEF IsAnswer
    <3>3. r \in Records /\ target.record \in Nat
      BY <3>2 DEF TypeInv, CallsOK
    <3>4. target.record # None
      BY <3>3, NoneIsNothing
    <3>5. r.request.edition \in Nat /\ config.edition \in Nat /\ config.limit \in Nat
      BY <3>3, LimitsAreNumbers DEF Records, Requests, TypeInv, CallsOK, Settings
    <3>6. config.edition = manifest.settings.edition => r.request.edition = config.edition
      BY <3>2, <3>5 DEF MadeFor
    <3>7. PICK x \in Texts, n \in Limits :
            /\ Clip[x][manifest.settings.limit] = target.input /\ r.request.input = Clip[x][n]
            /\ manifest.settings.limit <= n /\ n <= config.limit
      BY <3>2 DEF MadeFor, ClippedFrom
    <3>8. config.limit = manifest.settings.limit => n = config.limit
      BY <3>5, <3>7, LimitsAreNumbers
    <3>9. config.limit = manifest.settings.limit => r.request.input = target.input
      BY <3>7, <3>8
    <3> QED  BY <3>1, <3>2, <3>4, <3>6, <3>7, <3>9 DEF Backed, MadeFor
  <2> QED  BY <2>2, <2>3
<1> QED  BY <1>1, TypesChainsAndJobs, PTL
=============================================================================
