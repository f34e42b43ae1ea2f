----------------------------- MODULE TaskLease -----------------------------
(***************************************************************************)
(* Task records and their leases (polder_research.tasks), written by       *)
(* several agent processes.  Every operation takes an advisory file lock,  *)
(* reads the record, and replaces its file atomically; a process may die   *)
(* between any two of these steps, and the kernel then drops its lock.     *)
(*                                                                         *)
(* One action stands for one step another process can observe or precede:  *)
(* the call, the lock, each read, each file replacement, the return.       *)
(***************************************************************************)
EXTENDS Integers, FiniteSets

CONSTANTS Tasks,       \* task ids that can be minted
          Sigs,        \* (task_kind, role, summary) signatures
          Agents,      \* processes calling the API
          TTLs,        \* lease durations asked for
          CreateLock,  \* the name of task-create.lock
          None,        \* the holder of a free lock, the task of an idle process
          StatusesTried,  \* bound: the statuses tasks are created with and set to
          MaxTime,     \* bound: the clock stops here
          MaxCalls     \* bound: calls made in one behaviour

ASSUME TTLsPositive == TTLs \subseteq Nat \ {0}
ASSUME NamesDistinct == CreateLock \notin Tasks /\ None \notin Agents \cup Tasks
ASSUME BoundsNat == MaxTime \in Nat /\ MaxCalls \in Nat

VARIABLES
  tasks,       \* the task files
  leaseFiles,  \* tokens whose locks/<token>.json exists
  flock,       \* the holder of each advisory lock
  now,         \* the wall clock
  pc, op, target, token, draft, unread,  \* each process's call
  issued,      \* tokens minted so far
  calls,       \* calls made so far
  grants, ended, returned, reopened      \* history, read by properties only

files == <<tasks, leaseFiles>>
locals == <<op, target, token, draft, unread>>
history == <<grants, ended, returned, reopened>>
vars == <<files, flock, now, pc, locals, issued, calls, history>>

\* The statuses the operations tell apart: "failed" stands for "abandoned" too,
\* "in_progress" for "blocked" and "awaiting_handoff".
Statuses == {"pending", "leased", "in_progress", "completed", "failed"}
ASSUME StatusesKnown == StatusesTried \subseteq Statuses
Closed == {"completed", "failed"}
Ops == {"none", "create", "update", "acquire", "release"}
Steps == {"idle", "lock", "scan", "read", "write", "file", "unlock"}

NoLease == [token |-> 0, expires |-> 0]
Blank == [status |-> "absent", sig |-> None, lease |-> NoLease]
Exists(t) == tasks[t].status # "absent"
Open(t) == Exists(t) /\ tasks[t].status \notin Closed

\* Mutant: write_task locks the id it has just minted.
LockPerTask(p) == target[p]

LockOf(p) == IF op[p] = "create" THEN CreateLock ELSE target[p]

\* Mutant: a second of tolerance for skewed clocks.
UnexpiredWithSkew(lease) == lease # NoLease /\ lease.expires > now + 1

\* acquire_lease: "expires_at > now" refuses the caller.
Unexpired(lease) == lease # NoLease /\ lease.expires > now

Init ==
  /\ tasks = [t \in Tasks |-> Blank]
  /\ leaseFiles = {} /\ grants = {} /\ ended = {} /\ reopened = {}
  /\ flock = [l \in Tasks \cup {CreateLock} |-> None]
  /\ now = 0 /\ issued = 0 /\ calls = 0
  /\ pc = [p \in Agents |-> "idle"]
  /\ op = [p \in Agents |-> "none"]
  /\ target = [p \in Agents |-> None]
  /\ token = [p \in Agents |-> 0]
  /\ draft = [p \in Agents |-> Blank]
  /\ unread = [p \in Agents |-> {}]
  /\ returned = [p \in Agents |-> {}]

-----------------------------------------------------------------------------
\* Calls.  A created task gets a fresh uuid and the status its caller asks for;
\* the other calls name any task; a release names a token its agent was given,
\* or none.

Begin(p, o, t, k, d) ==
  /\ pc[p] = "idle" /\ calls < MaxCalls
  /\ calls' = calls + 1
  /\ pc' = [pc EXCEPT ![p] = "lock"]
  /\ op' = [op EXCEPT ![p] = o]
  /\ target' = [target EXCEPT ![p] = t]
  /\ token' = [token EXCEPT ![p] = k]
  /\ draft' = [draft EXCEPT ![p] = d]
  /\ UNCHANGED <<files, flock, now, unread, issued, history>>

CallCreate(p) ==
  \E t \in Tasks, g \in Sigs, s \in StatusesTried :
    /\ ~Exists(t)
    /\ \A q \in Agents : op[q] = "create" => target[q] # t
    /\ Begin(p, "create", t, 0, [status |-> s, sig |-> g, lease |-> NoLease])

CallUpdate(p) == \E t \in Tasks : Begin(p, "update", t, 0, Blank)
CallAcquire(p) == \E t \in Tasks : Begin(p, "acquire", t, 0, Blank)
CallRelease(p) == \E t \in Tasks, k \in returned[p] \cup {0} :
                    Begin(p, "release", t, k, Blank)

\* Mutant: the lock is taken without asking whether it is free.
LockUnasked(p) ==
  /\ pc[p] = "lock"
  /\ flock' = [flock EXCEPT ![LockOf(p)] = p]
  /\ pc' = [pc EXCEPT ![p] = IF op[p] = "create" THEN "scan" ELSE "read"]
  /\ unread' = [unread EXCEPT ![p] = IF op[p] = "create"
                                     THEN {t \in Tasks : Exists(t)} ELSE {}]
  /\ UNCHANGED <<files, now, op, target, token, draft, issued, calls, history>>

\* acquire_file_lock(..., wait=True): block until flock grants the lock.
Lock(p) ==
  /\ pc[p] = "lock"
  /\ flock[LockOf(p)] = None
  /\ flock' = [flock EXCEPT ![LockOf(p)] = p]
  /\ pc' = [pc EXCEPT ![p] = IF op[p] = "create" THEN "scan" ELSE "read"]
  /\ unread' = [unread EXCEPT ![p] = IF op[p] = "create"
                                     THEN {t \in Tasks : Exists(t)} ELSE {}]
  /\ UNCHANGED <<files, now, op, target, token, draft, issued, calls, history>>

-----------------------------------------------------------------------------
\* Under the lock: each record is read once, then decided on.

Goto(p, step) == pc' = [pc EXCEPT ![p] = step]

\* write_task reads the files one by one; an open twin ends the call.
ScanOne(p) ==
  /\ pc[p] = "scan"
  /\ \E t \in unread[p] :
       IF Open(t) /\ tasks[t].sig = draft[p].sig
       THEN Goto(p, "unlock") /\ unread' = [unread EXCEPT ![p] = {}]
       ELSE Goto(p, "scan") /\ unread' = [unread EXCEPT ![p] = @ \ {t}]
  /\ UNCHANGED <<files, flock, now, op, target, token, draft, issued, calls, history>>

ScanDone(p) ==
  /\ pc[p] = "scan" /\ unread[p] = {}
  /\ Goto(p, "write")
  /\ UNCHANGED <<files, flock, now, locals, issued, calls, history>>

\* An early exit: the record is missing, or the operation refuses the caller.
Refuse(p) ==
  /\ Goto(p, "unlock")
  /\ UNCHANGED <<files, flock, now, locals, issued, calls, history>>

Edited(t, s, lease) == [status |-> s, sig |-> tasks[t].sig, lease |-> lease]

\* Mutant: the lease file is written before the record.
DecideFileFirst(p, rec, k) ==
  /\ draft' = [draft EXCEPT ![p] = rec]
  /\ token' = [token EXCEPT ![p] = k]
  /\ Goto(p, IF op[p] = "acquire" THEN "file" ELSE "write")
  /\ UNCHANGED <<files, flock, now, op, target, unread, calls, history>>

Decide(p, rec, k) ==
  /\ draft' = [draft EXCEPT ![p] = rec]
  /\ token' = [token EXCEPT ![p] = k]
  /\ Goto(p, "write")
  /\ UNCHANGED <<files, flock, now, op, target, unread, calls, history>>

ReadUpdate(p) ==
  /\ pc[p] = "read" /\ op[p] = "update"
  /\ LET t == target[p] IN
     \/ ~Exists(t) /\ Refuse(p)
     \/ /\ Exists(t)
        /\ \E s \in StatusesTried : Decide(p, Edited(t, s, tasks[t].lease), 0)
        /\ UNCHANGED issued

\* Mutant: the expiry of the lease on record is not looked at.
AcquireAnyway(p) ==
  /\ pc[p] = "read" /\ op[p] = "acquire" /\ Exists(target[p])
  /\ issued' = issued + 1
  /\ \E ttl \in TTLs :
       Decide(p, Edited(target[p], "leased", [token |-> issued + 1, expires |-> now + ttl]),
              issued + 1)

ReadAcquire(p) ==
  /\ pc[p] = "read" /\ op[p] = "acquire"
  /\ LET t == target[p] IN
     \/ ~Exists(t) /\ Refuse(p)
     \/ Exists(t) /\ Unexpired(tasks[t].lease) /\ Refuse(p)
     \/ /\ Exists(t) /\ ~Unexpired(tasks[t].lease)
        /\ issued' = issued + 1
        /\ \E ttl \in TTLs :
             Decide(p, Edited(t, "leased", [token |-> issued + 1, expires |-> now + ttl]),
                    issued + 1)

\* Mutant: the token given is not compared with the one on record.
ReleaseAny(p) ==
  /\ pc[p] = "read" /\ op[p] = "release" /\ Exists(target[p])
  /\ tasks[target[p]].lease # NoLease
  /\ Decide(p, Edited(target[p], "pending", NoLease), token[p])
  /\ UNCHANGED issued

ReadRelease(p) ==
  /\ pc[p] = "read" /\ op[p] = "release"
  /\ LET t == target[p] IN
     \/ ~Exists(t) /\ Refuse(p)
     \/ Exists(t) /\ tasks[t].lease = NoLease /\ Refuse(p)
     \/ Exists(t) /\ token[p] # 0 /\ tasks[t].lease.token # token[p] /\ Refuse(p)
     \/ /\ Exists(t) /\ tasks[t].lease # NoLease
        /\ token[p] \in {0, tasks[t].lease.token}
        /\ Decide(p, Edited(t, "pending", NoLease), token[p])
        /\ UNCHANGED issued

-----------------------------------------------------------------------------
\* write_atomic replaces the whole record with the draft.
Write(p) ==
  LET t == target[p]
  IN  /\ pc[p] = "write"
      /\ tasks' = [tasks EXCEPT ![t] = draft[p]]
      /\ Goto(p, IF op[p] = "acquire" THEN "file" ELSE "unlock")
      /\ grants' = IF op[p] = "acquire"
                   THEN grants \cup {[task |-> t, token |-> token[p],
                                      expires |-> draft[p].lease.expires]}
                   ELSE grants
      /\ ended' = IF op[p] = "release" THEN ended \cup {tasks[t].lease.token} ELSE ended
      /\ reopened' = IF tasks[t].status \in Closed /\ draft[p].status \notin Closed
                     THEN reopened \cup {t} ELSE reopened
      /\ UNCHANGED <<leaseFiles, flock, now, locals, issued, calls, returned>>

\* acquire_lease's second write: locks/<token>.json.
WriteLeaseFile(p) ==
  /\ pc[p] = "file"
  /\ leaseFiles' = leaseFiles \cup {token[p]}
  /\ returned' = [returned EXCEPT ![p] = @ \cup {token[p]}]
  /\ Goto(p, "unlock")
  /\ UNCHANGED <<tasks, flock, now, locals, issued, calls, grants, ended, reopened>>

\* Back to the caller: the call's local variables are gone.
Leave(p) ==
  /\ Goto(p, "idle")
  /\ op' = [op EXCEPT ![p] = "none"]
  /\ target' = [target EXCEPT ![p] = None]
  /\ token' = [token EXCEPT ![p] = 0]
  /\ draft' = [draft EXCEPT ![p] = Blank]
  /\ unread' = [unread EXCEPT ![p] = {}]
  /\ UNCHANGED <<files, now, issued, calls, grants, ended, reopened>>

\* Mutant: a return that does not pass through the finally clause.
ReturnLocked(p) == pc[p] = "unlock" /\ Leave(p) /\ UNCHANGED <<flock, returned>>

\* The finally clause releases the lock on every path out of the call.
Unlock(p) ==
  /\ pc[p] = "unlock"
  /\ flock' = [flock EXCEPT ![LockOf(p)] = None]
  /\ Leave(p)
  /\ UNCHANGED returned

\* The process dies: the kernel drops its lock, the tokens it knew are lost.
Crash(p) ==
  /\ pc[p] # "idle"
  /\ flock' = [l \in DOMAIN flock |-> IF flock[l] = p THEN None ELSE flock[l]]
  /\ returned' = [returned EXCEPT ![p] = {}]
  /\ Leave(p)

Tick ==
  /\ now < MaxTime
  /\ now' = now + 1
  /\ UNCHANGED <<files, flock, pc, locals, issued, calls, history>>

Call(p) == CallCreate(p) \/ CallUpdate(p) \/ CallAcquire(p) \/ CallRelease(p)
Read(p) == ScanOne(p) \/ ScanDone(p) \/ ReadUpdate(p) \/ ReadAcquire(p) \/ ReadRelease(p)
Proceed(p) == Lock(p) \/ Read(p) \/ Write(p) \/ WriteLeaseFile(p) \/ Unlock(p)

Next == Tick \/ \E p \in Agents : Call(p) \/ Proceed(p) \/ Crash(p)

Spec == Init /\ [][Next]_vars

\* A process that has entered a call keeps running until it returns or dies.
FairSpec == Spec /\ \A p \in Agents : WF_vars(Proceed(p))

-----------------------------------------------------------------------------
Lease == [token : Nat, expires : Nat]
Record == [status : Statuses \cup {"absent"}, sig : Sigs \cup {None}, lease : Lease]

\* Every variable has its type, histories included.
TypeOK ==
  /\ tasks \in [Tasks -> Record]
  /\ leaseFiles \subseteq Nat
  /\ flock \in [Tasks \cup {CreateLock} -> Agents \cup {None}]
  /\ now \in Nat /\ issued \in Nat /\ calls \in Nat
  /\ pc \in [Agents -> Steps]
  /\ op \in [Agents -> Ops]
  /\ target \in [Agents -> Tasks \cup {None}]
  /\ token \in [Agents -> Nat]
  /\ draft \in [Agents -> Record]
  /\ unread \in [Agents -> SUBSET Tasks]
  /\ grants \subseteq [task : Tasks, token : Nat, expires : Nat]
  /\ ended \subseteq Nat
  /\ returned \in [Agents -> SUBSET Nat]
  /\ reopened \subseteq Tasks

\* Leases are exclusive ("mutual exclusion is real", acquire_lease): of all the
\* leases ever granted on a task, at most one is neither released nor expired.
InForce(g) == g.token \notin ended /\ g.expires > now
OneLeaseInForce ==
  \A g, h \in grants : g.task = h.task /\ InForce(g) /\ InForce(h) => g = h

\* Releasing with a token never ends another owner's lease, and no status
\* update or late write of an older read drops or replaces a lease in force.
OnlyOwnerEndsLease ==
  [][\A t \in Tasks :
       Unexpired(tasks[t].lease) /\ tasks'[t].lease # tasks[t].lease
         => \E p \in Agents : /\ op[p] = "release" /\ target[p] = t
                              /\ token[p] \in {0, tasks[t].lease.token}]_vars

\* A token that reached its caller, or that has a lease file, is the token of a
\* lease that was first written to the task record, whoever crashed meanwhile.
LeaseFilesFollowRecords ==
  /\ leaseFiles \subseteq {g.token : g \in grants}
  /\ \A p \in Agents : returned[p] \subseteq leaseFiles

\* write_task alone never leaves two open tasks of one signature: a pair of
\* open twins needs one that was closed and then put back to an open status.
TwinsNeedReopening ==
  \A t, u \in Tasks :
    t # u /\ Open(t) /\ Open(u) /\ tasks[t].sig = tasks[u].sig
      => t \in reopened \/ u \in reopened

\* Every call returns or its process dies: no exit keeps a lock.
CallsEnd == \A p \in Agents : pc[p] # "idle" ~> pc[p] = "idle"

-----------------------------------------------------------------------------
\* Why leases are exclusive: the inductive invariant of the proofs.

StepsFitCalls ==
  \A p \in Agents :
    /\ pc[p] = "idle" <=> op[p] = "none"
    /\ pc[p] # "idle" => target[p] \in Tasks
    /\ pc[p] = "scan" => op[p] = "create"
    /\ pc[p] = "read" => op[p] # "create"
    /\ pc[p] = "file" => op[p] = "acquire"

\* From the lock to the return, a process holds the lock of its call.
LocksHeld ==
  \A p \in Agents : pc[p] \notin {"idle", "lock"} => flock[LockOf(p)] = p

\* A task about to be created is nobody else's, and absent until it is written.
CreatesAreFresh ==
  /\ \A t \in Tasks : ~Exists(t) => tasks[t] = Blank
  /\ \A p, q \in Agents :
       op[p] = "create" /\ op[q] = "create" /\ target[p] = target[q] => p = q
  /\ \A p \in Agents :
       op[p] = "create" /\ pc[p] \in {"lock", "scan", "write"}
         => ~Exists(target[p]) /\ draft[p].status # "absent" /\ draft[p].lease = NoLease

\* What was read under the lock still holds when the draft is written.
DraftsStillFit ==
  \A p \in Agents : pc[p] = "write" /\ op[p] # "create" =>
    LET old == tasks[target[p]].lease
        new == draft[p].lease
    IN  /\ Exists(target[p]) /\ draft[p].status # "absent"
        /\ op[p] = "update" => new = old
        /\ op[p] = "acquire" => new.token = token[p] /\ ~Unexpired(old)
        /\ op[p] = "release" => /\ new = NoLease /\ old # NoLease
                                /\ token[p] \in {0, old.token}

\* No two grants share a token, nor does one about to be written.
TokensUnique ==
  /\ \A g \in grants : g.token \in 1..issued
  /\ \A g, h \in grants : g.token = h.token => g = h
  /\ \A p \in Agents : pc[p] = "write" /\ op[p] = "acquire" =>
       /\ token[p] \in 1..issued
       /\ \A g \in grants : g.token # token[p]
       /\ \A q \in Agents : pc[q] = "write" /\ op[q] = "acquire" /\ token[q] = token[p]
                             => q = p

\* A lease in force is the one in its task's record.
GrantsRecorded ==
  \A g \in grants :
    InForce(g) => tasks[g.task].lease = [token |-> g.token, expires |-> g.expires]

LeaseInv == /\ TypeOK /\ StepsFitCalls /\ LocksHeld /\ CreatesAreFresh
            /\ DraftsStillFit /\ TokensUnique /\ GrantsRecorded

-----------------------------------------------------------------------------
\* The record's lease field implements the exclusive lease.
Abstract == INSTANCE ExclusiveLease
              WITH Resources <- Tasks,
                   lease <- [t \in Tasks |-> tasks[t].lease],
                   used <- {g.token : g \in grants}
ImplementsExclusiveLease == Abstract!Spec
=============================================================================
