-------------------------- MODULE TaskLeaseProofs --------------------------
(***************************************************************************)
(* Proofs about TaskLease, for any tasks, agents, lease durations and      *)
(* bounds: types, exclusive leases, and the refinement of ExclusiveLease.  *)
(***************************************************************************)
EXTENDS TaskLease, TLAPS

\* Locks and holders are different things.
LEMMA NoneHoldsNothing == None \notin Agents /\ None \notin Tasks /\ CreateLock \notin Tasks
BY NamesDistinct

\* Nothing below looks at how a record or a lease is built beyond these facts.
LEMMA BlankIsRecord == Blank \in Record /\ Blank.lease = NoLease /\ Blank.status = "absent"
BY DEF Blank, NoLease, Record, Lease

THEOREM InitInv == Init => LeaseInv
<1> SUFFICES ASSUME Init PROVE LeaseInv
  OBVIOUS
<1>1. TypeOK
  BY BlankIsRecord DEF Init, TypeOK, Steps, Ops
<1>2. StepsFitCalls /\ LocksHeld
  BY DEF Init, StepsFitCalls, LocksHeld
<1>3. CreatesAreFresh /\ DraftsStillFit
  BY BlankIsRecord DEF Init, CreatesAreFresh, DraftsStillFit, Exists
<1>4. TokensUnique /\ GrantsRecorded
  BY DEF Init, TokensUnique, GrantsRecorded
<1> QED  BY <1>1, <1>2, <1>3, <1>4 DEF LeaseInv

-----------------------------------------------------------------------------
\* Type correctness, action by action.

LEMMA CallTypes == ASSUME TypeOK, NEW p \in Agents, Call(p) PROVE TypeOK'
<1> USE BlankIsRecord DEF TypeOK, Steps, Ops
<1>1. CASE CallCreate(p)
  <2>1. PICK t \in Tasks, g \in Sigs, s \in StatusesTried :
          Begin(p, "create", t, 0, [status |-> s, sig |-> g, lease |-> NoLease])
    BY <1>1 DEF CallCreate
  <2>2. [status |-> s, sig |-> g, lease |-> NoLease] \in Record
    BY StatusesKnown DEF NoLease, Record, Lease, Statuses
  <2> QED  BY <2>1, <2>2 DEF Begin, files, history
<1>2. CASE CallUpdate(p)
  BY <1>2 DEF CallUpdate, Begin, files, history
<1>3. CASE CallAcquire(p)
  BY <1>3 DEF CallAcquire, Begin, files, history
<1>4. CASE CallRelease(p)
  BY <1>4 DEF CallRelease, Begin, files, history
<1> QED  BY <1>1, <1>2, <1>3, <1>4 DEF Call

LEMMA ReadTypes == ASSUME TypeOK, NEW p \in Agents, Read(p), target[p] \in Tasks \/ pc[p] # "read"
                   PROVE TypeOK'
<1> USE DEF TypeOK, Steps, Ops, Goto
<1>1. CASE ScanOne(p)
  BY <1>1 DEF ScanOne, files, history
<1>2. CASE ScanDone(p)
  BY <1>2 DEF ScanDone, files, history, locals
<1>3. ASSUME Refuse(p) PROVE TypeOK'
  BY <1>3 DEF Refuse, files, history, locals
<1>4. ASSUME NEW rec \in Record, NEW k \in Nat, Decide(p, rec, k), issued' \in Nat
      PROVE TypeOK'
  BY <1>4 DEF Decide, files, history
<1>5. CASE ReadUpdate(p)
  <2>1. ASSUME NEW s \in StatusesTried, target[p] \in Tasks
        PROVE Edited(target[p], s, tasks[target[p]].lease) \in Record
    BY <2>1, StatusesKnown DEF Record, Edited
  <2> QED  BY <1>3, <1>4, <1>5, <2>1 DEF ReadUpdate
<1>6. CASE ReadAcquire(p)
  <2>1. ASSUME NEW ttl \in TTLs, target[p] \in Tasks
        PROVE Edited(target[p], "leased",
                     [token |-> issued + 1, expires |-> now + ttl]) \in Record
    BY <2>1, TTLsPositive DEF Record, Lease, Statuses, Edited
  <2>2. CASE Refuse(p)
    BY <1>3, <2>2
  <2>3. CASE ~Refuse(p)
    <3>1. target[p] \in Tasks /\ issued' = issued + 1
      BY <1>6, <2>3 DEF ReadAcquire
    <3>2. PICK ttl \in TTLs :
            Decide(p, Edited(target[p], "leased",
                             [token |-> issued + 1, expires |-> now + ttl]), issued + 1)
      BY <1>6, <2>3 DEF ReadAcquire
    <3>3. issued' \in Nat /\ issued + 1 \in Nat
      BY <3>1
    <3> QED  BY <1>4, <2>1, <3>1, <3>2, <3>3
  <2> QED  BY <2>2, <2>3
<1>7. CASE ReadRelease(p)
  <2>1. ASSUME target[p] \in Tasks
        PROVE Edited(target[p], "pending", NoLease) \in Record
    BY <2>1 DEF Record, Lease, NoLease, Statuses, Edited
  <2> QED  BY <1>3, <1>4, <1>7, <2>1 DEF ReadRelease
<1> QED  BY <1>1, <1>2, <1>5, <1>6, <1>7 DEF Read

LEMMA WriteTypes == ASSUME TypeOK, NEW p \in Agents, target[p] \in Tasks,
                           Write(p) \/ WriteLeaseFile(p)
                    PROVE TypeOK'
<1> USE DEF TypeOK, Steps, Ops, Goto
<1>1. CASE Write(p)
  <2>1. tasks' \in [Tasks -> Record] /\ pc' \in [Agents -> Steps]
    BY <1>1 DEF Write
  <2>2. draft[p].lease.expires \in Nat /\ tasks[target[p]].lease.token \in Nat
    BY DEF Record, Lease
  <2>3. grants' \subseteq [task : Tasks, token : Nat, expires : Nat]
    BY <1>1, <2>2 DEF Write
  <2>4. ended' \subseteq Nat /\ reopened' \subseteq Tasks
    BY <1>1, <2>2 DEF Write
  <2> QED  BY <1>1, <2>1, <2>3, <2>4 DEF Write, locals
<1>2. CASE WriteLeaseFile(p)
  <2>1. leaseFiles' \subseteq Nat /\ returned' \in [Agents -> SUBSET Nat]
    <3>1. token[p] \in Nat /\ returned[p] \cup {token[p]} \in SUBSET Nat
      OBVIOUS
    <3> QED  BY <1>2, <3>1, Zenon DEF WriteLeaseFile
  <2>2. pc' \in [Agents -> Steps]
    BY <1>2 DEF WriteLeaseFile
  <2> QED  BY <1>2, <2>1, <2>2 DEF WriteLeaseFile, locals
<1> QED  BY <1>1, <1>2

LEMMA LeaveTypes == ASSUME TypeOK, NEW p \in Agents, Unlock(p) \/ Crash(p) PROVE TypeOK'
<1>1. /\ pc' \in [Agents -> Steps] /\ op' \in [Agents -> Ops]
      /\ target' \in [Agents -> Tasks \cup {None}] /\ token' \in [Agents -> Nat]
      /\ draft' \in [Agents -> Record] /\ unread' \in [Agents -> SUBSET Tasks]
  BY BlankIsRecord DEF TypeOK, Unlock, Crash, Leave, Goto, Steps, Ops
<1>2. flock' \in [Tasks \cup {CreateLock} -> Agents \cup {None}]
  BY DEF TypeOK, Unlock, Crash
<1>3. returned' \in [Agents -> SUBSET Nat]
  BY DEF TypeOK, Unlock, Crash
<1> QED  BY <1>1, <1>2, <1>3 DEF TypeOK, Unlock, Crash, Leave, files

LEMMA StepTypes == ASSUME TypeOK, StepsFitCalls, [Next]_vars PROVE TypeOK'
<1>1. CASE Tick
  BY <1>1 DEF Tick, TypeOK, files, locals, history
<1>2. ASSUME NEW p \in Agents, Lock(p) PROVE TypeOK'
  BY <1>2 DEF Lock, TypeOK, files, history, Steps
<1>3. ASSUME NEW p \in Agents, Call(p) \/ Proceed(p) \/ Crash(p) PROVE TypeOK'
  <2>1. pc[p] # "idle" => target[p] \in Tasks
    BY DEF StepsFitCalls
  <2>2. CASE Read(p)
    BY <2>1, <2>2, ReadTypes
  <2>3. CASE Write(p) \/ WriteLeaseFile(p)
    BY <2>1, <2>3, WriteTypes DEF Write, WriteLeaseFile
  <2> QED  BY <1>2, <1>3, <2>2, <2>3, CallTypes, LeaveTypes DEF Proceed
<1>4. CASE UNCHANGED vars
  BY <1>4 DEF vars, TypeOK, files, locals, history
<1> QED  BY <1>1, <1>3, <1>4 DEF Next

-----------------------------------------------------------------------------
\* What the calls and the reads can do, for the lemmas that follow.

LEMMA CallEffect ==
  ASSUME TypeOK, NEW p \in Agents, Call(p)
  PROVE  \E o \in Ops \ {"none"}, t \in Tasks, k \in Nat, d \in Record :
           /\ Begin(p, o, t, k, d)
           /\ o = "create" => /\ ~Exists(t) /\ d.status # "absent" /\ d.lease = NoLease
                              /\ \A q \in Agents : op[q] = "create" => target[q] # t
<1>1. CASE CallCreate(p)
  <2>1. PICK t \in Tasks, g \in Sigs, s \in StatusesTried :
          /\ ~Exists(t)
          /\ \A q \in Agents : op[q] = "create" => target[q] # t
          /\ Begin(p, "create", t, 0, [status |-> s, sig |-> g, lease |-> NoLease])
    BY <1>1 DEF CallCreate
  <2>2. [status |-> s, sig |-> g, lease |-> NoLease] \in Record
    BY StatusesKnown DEF NoLease, Record, Lease, Statuses
  <2>3. s # "absent"
    BY StatusesKnown DEF Statuses
  <2> QED  BY <2>1, <2>2, <2>3 DEF Ops
<1>2. CASE CallUpdate(p)
  BY <1>2, BlankIsRecord DEF CallUpdate, Ops
<1>3. CASE CallAcquire(p)
  BY <1>3, BlankIsRecord DEF CallAcquire, Ops
<1>4. CASE CallRelease(p)
  <2>1. PICK t \in Tasks, k \in returned[p] \cup {0} : Begin(p, "release", t, k, Blank)
    BY <1>4 DEF CallRelease
  <2>2. k \in Nat
    BY <2>1 DEF TypeOK
  <2> QED  BY <2>1, <2>2, BlankIsRecord DEF Ops
<1> QED  BY <1>1, <1>2, <1>3, <1>4 DEF Call

\* A read moves its own process and leaves every file and lock alone.
LEMMA ReadFrame ==
  ASSUME NEW p \in Agents, Read(p), TypeOK
  PROVE  /\ UNCHANGED <<tasks, leaseFiles, flock, now, op, target, calls, history>>
         /\ pc[p] \in {"scan", "read"}
         /\ \E x \in {"scan", "write", "unlock"} : pc' = [pc EXCEPT ![p] = x]
         /\ \A q \in Agents \ {p} : draft'[q] = draft[q] /\ token'[q] = token[q]
         /\ issued' \in {issued, issued + 1}
<1>1. ASSUME Refuse(p) PROVE UNCHANGED <<files, flock, now, locals, issued, calls, history>>
                             /\ pc' = [pc EXCEPT ![p] = "unlock"]
  BY <1>1 DEF Refuse, Goto
<1>2. CASE ScanOne(p)
  BY <1>2 DEF ScanOne, Goto, files, history
<1>3. CASE ScanDone(p)
  BY <1>3 DEF ScanDone, Goto, files, locals, history
<1>4. CASE ReadUpdate(p)
  BY <1>1, <1>4 DEF ReadUpdate, Decide, Goto, files, locals, history, TypeOK
<1>5. CASE ReadAcquire(p)
  BY <1>1, <1>5 DEF ReadAcquire, Decide, Goto, files, locals, history, TypeOK
<1>6. CASE ReadRelease(p)
  BY <1>1, <1>6 DEF ReadRelease, Decide, Goto, files, locals, history, TypeOK
<1> QED  BY <1>2, <1>3, <1>4, <1>5, <1>6 DEF Read

\* A read that decides to write has a draft that fits what it read.
LEMMA ReadDecides ==
  ASSUME NEW p \in Agents, Read(p), TypeOK, StepsFitCalls, pc'[p] = "write"
  PROVE  \/ op[p] = "create" /\ UNCHANGED <<draft, token, issued>>
         \/ /\ op[p] # "create" /\ target[p] \in Tasks /\ Exists(target[p])
            /\ draft'[p].status # "absent"
            /\ \/ /\ op[p] = "update" /\ draft'[p].lease = tasks[target[p]].lease
                  /\ UNCHANGED issued
               \/ /\ op[p] = "acquire" /\ ~Unexpired(tasks[target[p]].lease)
                  /\ issued' = issued + 1 /\ token'[p] = issued'
                  /\ draft'[p].lease.token = token'[p]
               \/ /\ op[p] = "release" /\ tasks[target[p]].lease # NoLease
                  /\ draft'[p].lease = NoLease /\ UNCHANGED issued
                  /\ token'[p] \in {0, tasks[target[p]].lease.token}
<1> DEFINE t == target[p]
<1>0. ~Refuse(p)
  BY DEF Refuse, Goto, TypeOK
<1>1. CASE ScanOne(p)
  BY <1>1 DEF ScanOne, Goto, TypeOK
<1>2. CASE ScanDone(p)
  BY <1>2 DEF ScanDone, locals, StepsFitCalls
<1>3. CASE ReadUpdate(p)
  <2>1. /\ op[p] = "update" /\ t \in Tasks /\ Exists(t) /\ UNCHANGED issued
        /\ \E s \in StatusesTried : Decide(p, Edited(t, s, tasks[t].lease), 0)
    BY <1>0, <1>3 DEF ReadUpdate, StepsFitCalls
  <2> QED  BY <2>1, StatusesKnown DEF Decide, Edited, Statuses, TypeOK
<1>4. CASE ReadAcquire(p)
  <2>1. /\ op[p] = "acquire" /\ t \in Tasks /\ Exists(t) /\ issued' = issued + 1
        /\ ~Unexpired(tasks[t].lease)
        /\ \E ttl \in TTLs :
             Decide(p, Edited(t, "leased", [token |-> issued + 1, expires |-> now + ttl]),
                    issued + 1)
    BY <1>0, <1>4 DEF ReadAcquire, StepsFitCalls
  <2> QED  BY <2>1 DEF Decide, Edited, TypeOK
<1>5. CASE ReadRelease(p)
  <2>1. /\ op[p] = "release" /\ t \in Tasks /\ Exists(t) /\ UNCHANGED issued
        /\ tasks[t].lease # NoLease /\ token[p] \in {0, tasks[t].lease.token}
        /\ Decide(p, Edited(t, "pending", NoLease), token[p])
    BY <1>0, <1>5 DEF ReadRelease, StepsFitCalls
  <2> QED  BY <2>1 DEF Decide, Edited, TypeOK
<1> QED  BY <1>1, <1>2, <1>3, <1>4, <1>5 DEF Read

-----------------------------------------------------------------------------
\* Where a process is says which call it makes.
LEMMA StepFits == ASSUME TypeOK, StepsFitCalls, [Next]_vars PROVE StepsFitCalls'
<1> USE DEF StepsFitCalls
<1>1. CASE Tick \/ UNCHANGED vars
  BY <1>1 DEF Tick, vars, locals
<1>2. ASSUME NEW p \in Agents, Call(p) PROVE StepsFitCalls'
  <2>1. PICK o \in Ops \ {"none"}, t \in Tasks, k \in Nat, d \in Record : Begin(p, o, t, k, d)
    BY <1>2, CallEffect
  <2> QED  BY <2>1 DEF Begin, TypeOK
<1>3. ASSUME NEW p \in Agents, Lock(p) PROVE StepsFitCalls'
  BY <1>3 DEF Lock, TypeOK
<1>4. ASSUME NEW p \in Agents, Read(p) PROVE StepsFitCalls'
  <2>1. pc'[p] = "scan" => op[p] = "create"
    BY <1>4 DEF Read, ScanOne, ScanDone, ReadUpdate, ReadAcquire, ReadRelease, Refuse, Decide,
                Goto, TypeOK
  <2>2. /\ UNCHANGED <<op, target>> /\ pc[p] \in {"scan", "read"}
        /\ \E x \in {"scan", "write", "unlock"} : pc' = [pc EXCEPT ![p] = x]
    BY <1>4, ReadFrame
  <2> QED  BY <2>1, <2>2 DEF TypeOK
<1>5. ASSUME NEW p \in Agents, Write(p) \/ WriteLeaseFile(p) PROVE StepsFitCalls'
  BY <1>5 DEF Write, WriteLeaseFile, Goto, TypeOK, locals
<1>6. ASSUME NEW p \in Agents, Unlock(p) \/ Crash(p) PROVE StepsFitCalls'
  BY <1>6 DEF Unlock, Crash, Leave, Goto, TypeOK
<1> QED  BY <1>1, <1>2, <1>3, <1>4, <1>5, <1>6 DEF Next, Proceed

\* A lock is held by one process, from its lock step to its return.
LEMMA StepLocks == ASSUME TypeOK, StepsFitCalls, LocksHeld, [Next]_vars PROVE LocksHeld'
<1> USE NoneHoldsNothing DEF LocksHeld
<1>1. CASE Tick \/ UNCHANGED vars
  BY <1>1 DEF Tick, vars, locals, LockOf
<1>2. ASSUME NEW p \in Agents, Call(p) PROVE LocksHeld'
  <2>1. PICK o \in Ops \ {"none"}, t \in Tasks, k \in Nat, d \in Record : Begin(p, o, t, k, d)
    BY <1>2, CallEffect
  <2> QED  BY <2>1 DEF Begin, TypeOK, LockOf
<1>3. ASSUME NEW p \in Agents, Lock(p) PROVE LocksHeld'
  <2>1. LockOf(p) \in Tasks \cup {CreateLock}
    BY <1>3 DEF LockOf, Lock, StepsFitCalls
  <2> QED  BY <1>3, <2>1 DEF Lock, LockOf, TypeOK
<1>4. ASSUME NEW p \in Agents, Read(p) PROVE LocksHeld'
  <2>1. /\ UNCHANGED <<op, target, flock>> /\ pc[p] \in {"scan", "read"}
        /\ \E x \in {"scan", "write", "unlock"} : pc' = [pc EXCEPT ![p] = x]
    BY <1>4, ReadFrame
  <2> QED  BY <2>1 DEF TypeOK, LockOf
<1>5. ASSUME NEW p \in Agents, Write(p) \/ WriteLeaseFile(p) PROVE LocksHeld'
  BY <1>5 DEF Write, WriteLeaseFile, Goto, TypeOK, locals, LockOf
<1>6. ASSUME NEW p \in Agents, Unlock(p) PROVE LocksHeld'
  <2>1. \A q \in Agents \ {p} : pc[q] \notin {"idle", "lock"} => LockOf(q) # LockOf(p)
    BY <1>6 DEF Unlock
  <2> QED  BY <1>6, <2>1 DEF Unlock, Leave, Goto, TypeOK, LockOf
<1>7. ASSUME NEW p \in Agents, Crash(p) PROVE LocksHeld'
  <2>1. \A q \in Agents \ {p} : pc[q] \notin {"idle", "lock"} =>
          LockOf(q) \in DOMAIN flock /\ flock[LockOf(q)] = q
    BY DEF TypeOK, LockOf, StepsFitCalls
  <2> QED  BY <1>7, <2>1 DEF Crash, Leave, Goto, TypeOK, LockOf
<1> QED  BY <1>1, <1>2, <1>3, <1>4, <1>5, <1>6, <1>7 DEF Next, Proceed

\* Of the processes about to write, no two write the same task.
LEMMA OneWriter ==
  ASSUME StepsFitCalls, LocksHeld, CreatesAreFresh, DraftsStillFit,
         NEW p \in Agents, NEW q \in Agents, pc[p] = "write", pc[q] = "write",
         target[p] = target[q]
  PROVE  p = q
<1>1. CASE op[p] = "create" /\ op[q] = "create"
  BY <1>1 DEF CreatesAreFresh
<1>2. CASE op[p] # "create" /\ op[q] # "create"
  BY <1>2 DEF LocksHeld, LockOf
<1>3. CASE op[p] = "create" <=> op[q] # "create"
  BY <1>3 DEF CreatesAreFresh, DraftsStillFit
<1> QED  BY <1>1, <1>2, <1>3

\* Only the written task changes, and it exists afterwards.
LEMMA WriteFrame ==
  ASSUME TypeOK, StepsFitCalls, CreatesAreFresh, DraftsStillFit, NEW p \in Agents, Write(p)
  PROVE  /\ target[p] \in Tasks
         /\ tasks'[target[p]] = draft[p] /\ draft[p].status # "absent"
         /\ \A t \in Tasks \ {target[p]} : tasks'[t] = tasks[t]
         /\ UNCHANGED <<now, locals, issued>>
         /\ pc'[p] \in {"file", "unlock"} /\ \A q \in Agents \ {p} : pc'[q] = pc[q]
BY DEF Write, TypeOK, StepsFitCalls, CreatesAreFresh, DraftsStillFit, Goto

\* A task being created stays absent until its own write.
LEMMA StepFresh ==
  ASSUME TypeOK, StepsFitCalls, LocksHeld, CreatesAreFresh, DraftsStillFit, [Next]_vars
  PROVE  CreatesAreFresh'
<1> USE DEF CreatesAreFresh
<1>1. CASE Tick \/ UNCHANGED vars
  BY <1>1 DEF Tick, vars, files, locals, Exists
<1>2. ASSUME NEW p \in Agents, Call(p) PROVE CreatesAreFresh'
  <2>1. PICK o \in Ops \ {"none"}, t \in Tasks, k \in Nat, d \in Record :
          /\ Begin(p, o, t, k, d)
          /\ o = "create" => /\ ~Exists(t) /\ d.status # "absent" /\ d.lease = NoLease
                             /\ \A q \in Agents : op[q] = "create" => target[q] # t
    BY <1>2, CallEffect
  <2>2. UNCHANGED tasks /\ pc[p] = "idle"
    BY <2>1 DEF Begin, files
  <2>3. \A q, r \in Agents : op'[q] = "create" /\ op'[r] = "create" /\ target'[q] = target'[r]
                             => q = r
    BY <2>1 DEF Begin, TypeOK
  <2>4. \A q \in Agents : op'[q] = "create" /\ pc'[q] \in {"lock", "scan", "write"}
          => ~Exists(target'[q]) /\ draft'[q].status # "absent" /\ draft'[q].lease = NoLease
    BY <2>1 DEF Begin, TypeOK
  <2> QED  BY <2>2, <2>3, <2>4 DEF Exists
<1>3. ASSUME NEW p \in Agents, Lock(p) PROVE CreatesAreFresh'
  BY <1>3 DEF Lock, TypeOK, files, Exists
<1>4. ASSUME NEW p \in Agents, Read(p) PROVE CreatesAreFresh'
  <2>1. /\ UNCHANGED <<tasks, op, target>> /\ pc[p] \in {"scan", "read"}
        /\ \E x \in {"scan", "write", "unlock"} : pc' = [pc EXCEPT ![p] = x]
        /\ \A q \in Agents \ {p} : draft'[q] = draft[q]
    BY <1>4, ReadFrame
  <2>2. op[p] = "create" => pc[p] = "scan" /\ draft' = draft
    BY <1>4 DEF Read, ScanOne, ScanDone, ReadUpdate, ReadAcquire, ReadRelease, locals
  <2> QED  BY <2>1, <2>2 DEF TypeOK, Exists
<1>5. ASSUME NEW p \in Agents, Write(p) PROVE CreatesAreFresh'
  <2> DEFINE t == target[p]
  <2>1. /\ t \in Tasks /\ tasks'[t] = draft[p] /\ draft[p].status # "absent"
        /\ \A u \in Tasks \ {t} : tasks'[u] = tasks[u]
        /\ UNCHANGED <<op, target, draft>>
        /\ pc'[p] \in {"file", "unlock"} /\ \A q \in Agents \ {p} : pc'[q] = pc[q]
    BY <1>5, WriteFrame DEF locals
  <2>2. ASSUME NEW q \in Agents, op[q] = "create", pc'[q] \in {"lock", "scan", "write"}
        PROVE  target[q] # t
    <3>1. q # p /\ pc[q] = pc'[q] /\ pc[p] = "write"
      BY <1>5, <2>1, <2>2 DEF Write
    <3> QED  BY <3>1, <2>2 DEF DraftsStillFit
  <2>3. \A q \in Agents : op[q] = "create" /\ pc'[q] \in {"lock", "scan", "write"}
          => target[q] \in Tasks \ {t} /\ pc[q] \in {"lock", "scan", "write"}
    BY <2>1, <2>2 DEF StepsFitCalls
  <2>4. \A u \in Tasks : ~Exists(u)' => tasks'[u] = Blank
    BY <2>1 DEF Exists
  <2>5. \A q \in Agents : op'[q] = "create" /\ pc'[q] \in {"lock", "scan", "write"}
          => ~Exists(target[q])' /\ draft'[q].status # "absent" /\ draft'[q].lease = NoLease
    BY <2>1, <2>3 DEF Exists
  <2> QED  BY <2>1, <2>4, <2>5
<1>6. ASSUME NEW p \in Agents, WriteLeaseFile(p) PROVE CreatesAreFresh'
  BY <1>6 DEF WriteLeaseFile, Goto, TypeOK, locals, Exists
<1>7. ASSUME NEW p \in Agents, Unlock(p) \/ Crash(p) PROVE CreatesAreFresh'
  <2>1. Leave(p) /\ UNCHANGED tasks
    BY <1>7 DEF Unlock, Crash, Leave, files
  <2>2. \A q \in Agents : op'[q] = "create" =>
          q # p /\ op'[q] = op[q] /\ target'[q] = target[q] /\ draft'[q] = draft[q] /\ pc'[q] = pc[q]
    BY <2>1 DEF Leave, Goto, TypeOK
  <2> QED  BY <2>1, <2>2 DEF Exists
<1> QED  BY <1>1, <1>2, <1>3, <1>4, <1>5, <1>6, <1>7 DEF Next, Proceed

\* Nobody changes what another process read before it writes: a lease found
\* expired stays expired, and only the holder of the task's lock writes it.
LEMMA StepDrafts ==
  ASSUME TypeOK, StepsFitCalls, LocksHeld, CreatesAreFresh, DraftsStillFit, [Next]_vars
  PROVE  DraftsStillFit'
<1> USE DEF DraftsStillFit
<1>1. CASE Tick
  <2>1. \A t \in Tasks : ~Unexpired(tasks[t].lease) => ~Unexpired(tasks[t].lease)'
    <3>1. \A t \in Tasks : tasks[t].lease.expires \in Nat
      BY DEF TypeOK, Record, Lease
    <3> QED  BY <1>1, <3>1 DEF Tick, files, Unexpired, TypeOK
  <2>2. \A p \in Agents : pc[p] = "write" => target[p] \in Tasks
    BY DEF StepsFitCalls
  <2>3. UNCHANGED <<tasks, pc, op, target, token, draft>>
    BY <1>1 DEF Tick, files, locals
  <2> QED  BY <2>1, <2>2, <2>3 DEF Exists
<1>2. CASE UNCHANGED vars
  BY <1>2 DEF vars, files, locals, Exists, Unexpired
<1>3. ASSUME NEW p \in Agents, Call(p) PROVE DraftsStillFit'
  <2>1. PICK o \in Ops \ {"none"}, t \in Tasks, k \in Nat, d \in Record : Begin(p, o, t, k, d)
    BY <1>3, CallEffect
  <2>2. /\ pc'[p] = "lock" /\ UNCHANGED <<tasks, now>>
        /\ \A q \in Agents \ {p} : /\ pc'[q] = pc[q] /\ op'[q] = op[q] /\ token'[q] = token[q]
                                   /\ target'[q] = target[q] /\ draft'[q] = draft[q]
    BY <2>1 DEF Begin, TypeOK, files
  <2> QED  BY <2>2 DEF Exists, Unexpired
<1>4. ASSUME NEW p \in Agents, Lock(p) \/ WriteLeaseFile(p) PROVE DraftsStillFit'
  <2>1. /\ pc'[p] # "write" /\ \A q \in Agents \ {p} : pc'[q] = pc[q]
        /\ UNCHANGED <<op, target, token, draft, tasks, now>>
    BY <1>4 DEF Lock, WriteLeaseFile, Goto, TypeOK, files, locals
  <2> QED  BY <2>1 DEF Exists, Unexpired
<1>5. ASSUME NEW p \in Agents, Read(p) PROVE DraftsStillFit'
  <2>1. /\ UNCHANGED <<tasks, op, target, now>>
        /\ \A q \in Agents \ {p} : pc'[q] = pc[q] /\ draft'[q] = draft[q] /\ token'[q] = token[q]
    BY <1>5, ReadFrame DEF TypeOK
  <2>2. pc'[p] = "write" /\ op[p] # "create" =>
          /\ Exists(target[p]) /\ draft'[p].status # "absent"
          /\ op[p] = "update" => draft'[p].lease = tasks[target[p]].lease
          /\ op[p] = "acquire" => /\ draft'[p].lease.token = token'[p]
                                  /\ ~Unexpired(tasks[target[p]].lease)
          /\ op[p] = "release" => /\ draft'[p].lease = NoLease
                                  /\ tasks[target[p]].lease # NoLease
                                  /\ token'[p] \in {0, tasks[target[p]].lease.token}
    BY <1>5, ReadDecides
  <2> QED  BY <2>1, <2>2 DEF Exists, Unexpired
<1>6. ASSUME NEW p \in Agents, Write(p) PROVE DraftsStillFit'
  <2>1. /\ \A t \in Tasks \ {target[p]} : tasks'[t] = tasks[t]
        /\ UNCHANGED <<now, op, target, token, draft>>
        /\ pc'[p] # "write" /\ \A q \in Agents \ {p} : pc'[q] = pc[q]
    BY <1>6, WriteFrame DEF locals
  <2>2. \A q \in Agents : pc'[q] = "write" => target[q] \in Tasks \ {target[p]} /\ pc[q] = "write"
    BY <1>6, <2>1, OneWriter DEF Write, StepsFitCalls
  <2> QED  BY <2>1, <2>2 DEF Exists, Unexpired
<1>7. ASSUME NEW p \in Agents, Unlock(p) \/ Crash(p) PROVE DraftsStillFit'
  <2>1. /\ pc'[p] = "idle" /\ UNCHANGED <<tasks, now>>
        /\ \A q \in Agents \ {p} : /\ pc'[q] = pc[q] /\ op'[q] = op[q] /\ token'[q] = token[q]
                                   /\ target'[q] = target[q] /\ draft'[q] = draft[q]
    BY <1>7 DEF Unlock, Crash, Leave, Goto, TypeOK, files
  <2> QED  BY <2>1 DEF Exists, Unexpired
<1> QED  BY <1>1, <1>2, <1>3, <1>4, <1>5, <1>6, <1>7 DEF Next, Proceed

\* Every grant has a token of its own, from the read that mints it on.
LEMMA StepTokens ==
  ASSUME TypeOK, StepsFitCalls, DraftsStillFit, TokensUnique, [Next]_vars
  PROVE  TokensUnique'
<1> USE DEF TokensUnique
<1>1. CASE Tick \/ UNCHANGED vars
  BY <1>1 DEF Tick, vars, locals, history
<1>2. ASSUME NEW p \in Agents,
             pc'[p] # "write", UNCHANGED <<grants, issued>>,
             \A q \in Agents \ {p} : pc'[q] = pc[q] /\ op'[q] = op[q] /\ token'[q] = token[q]
      PROVE  TokensUnique'
  BY <1>2
<1>3. ASSUME NEW p \in Agents, Call(p) PROVE TokensUnique'
  <2>1. PICK o \in Ops \ {"none"}, t \in Tasks, k \in Nat, d \in Record : Begin(p, o, t, k, d)
    BY <1>3, CallEffect
  <2> QED  BY <1>2, <2>1 DEF Begin, TypeOK, history
<1>4. ASSUME NEW p \in Agents, Lock(p) \/ WriteLeaseFile(p) PROVE TokensUnique'
  BY <1>2, <1>4 DEF Lock, WriteLeaseFile, Goto, TypeOK, history, locals
<1>5. ASSUME NEW p \in Agents, Read(p) PROVE TokensUnique'
  <2>1. /\ UNCHANGED <<grants, op>> /\ issued' \in {issued, issued + 1} /\ issued \in Nat
        /\ \A q \in Agents \ {p} : pc'[q] = pc[q] /\ token'[q] = token[q]
    BY <1>5, ReadFrame DEF TypeOK, history
  <2>2. pc'[p] = "write" /\ op[p] = "acquire" => issued' = issued + 1 /\ token'[p] = issued + 1
    BY <1>5, ReadDecides
  <2>3. \A n \in 1..issued : n \in 1..issued' /\ n # issued + 1
    BY <2>1
  <2> QED  BY <2>1, <2>2, <2>3
<1>6. ASSUME NEW p \in Agents, Write(p) PROVE TokensUnique'
  <2>1. /\ UNCHANGED <<op, token, issued>>
        /\ pc[p] = "write" /\ pc'[p] # "write" /\ \A q \in Agents \ {p} : pc'[q] = pc[q]
    BY <1>6 DEF Write, Goto, TypeOK, locals
  <2>2. CASE op[p] # "acquire"
    BY <1>6, <2>1, <2>2 DEF Write
  <2>3. CASE op[p] = "acquire"
    <3> DEFINE g == [task |-> target[p], token |-> token[p], expires |-> draft[p].lease.expires]
    <3>1. grants' = grants \cup {g}
      BY <1>6, <2>3 DEF Write
    <3>2. g.token \in 1..issued /\ \A h \in grants : h.token # g.token
      BY <2>1, <2>3
    <3>3. \A q \in Agents : pc'[q] = "write" /\ op'[q] = "acquire" => token'[q] # g.token
      BY <2>1, <2>3
    <3> HIDE DEF g
    <3> QED  BY <2>1, <3>1, <3>2, <3>3
  <2> QED  BY <2>2, <2>3
<1>7. ASSUME NEW p \in Agents, Unlock(p) \/ Crash(p) PROVE TokensUnique'
  BY <1>2, <1>7 DEF Unlock, Crash, Leave, Goto, TypeOK
<1> QED  BY <1>1, <1>3, <1>4, <1>5, <1>6, <1>7 DEF Next, Proceed

\* A lease in force keeps its place in the record: an update copies it, a
\* release ends it, and nobody acquires over it.
LEMMA StepGrants == ASSUME LeaseInv, [Next]_vars PROVE GrantsRecorded'
<1> USE DEF LeaseInv
<1>1. CASE UNCHANGED <<tasks, grants, ended, now>>
  BY <1>1 DEF GrantsRecorded, InForce
<1>2. CASE Tick
  <2>1. \A g \in grants : g.expires \in Nat
    BY DEF TypeOK
  <2> QED  BY <1>2, <2>1 DEF Tick, GrantsRecorded, InForce, files, history, TypeOK
<1>3. ASSUME NEW p \in Agents, Write(p) PROVE GrantsRecorded'
  <2> DEFINE t == target[p]
             old == tasks[t].lease
  <2>1. /\ t \in Tasks /\ tasks'[t] = draft[p] /\ UNCHANGED now
        /\ \A u \in Tasks \ {t} : tasks'[u] = tasks[u]
    BY <1>3, WriteFrame
  <2>2. ended \subseteq ended' /\ (op[p] = "release" => old.token \in ended')
    BY <1>3 DEF Write
  <2>3. SUFFICES ASSUME NEW g \in grants', InForce(g)'
                 PROVE  tasks'[g.task].lease = [token |-> g.token, expires |-> g.expires]
    BY DEF GrantsRecorded
  <2>4. CASE g \in grants
    <3>1. /\ InForce(g) /\ g.task \in Tasks /\ g.token \in Nat \ {0}
          /\ tasks[g.task].lease = [token |-> g.token, expires |-> g.expires]
      BY <2>1, <2>2, <2>3, <2>4 DEF GrantsRecorded, InForce, TypeOK, TokensUnique
    <3>2. CASE g.task # t
      BY <2>1, <3>1, <3>2
    <3>3. CASE g.task = t
      <4>1. old # NoLease /\ Unexpired(old) /\ old.token = g.token
        BY <3>1, <3>3 DEF NoLease, Unexpired, InForce
      <4>2. op[p] \notin {"create", "acquire"}
        <5>1. op[p] = "create" => tasks[t] = Blank
          BY <1>3, <2>1 DEF Write, CreatesAreFresh
        <5> QED  BY <1>3, <4>1, <5>1, BlankIsRecord DEF Write, DraftsStillFit
      <4>3. op[p] # "release"
        BY <2>2, <2>3, <4>1 DEF InForce
      <4>4. op[p] = "update"
        BY <1>3, <4>2, <4>3 DEF Write, StepsFitCalls, TypeOK, Ops
      <4> QED  BY <1>3, <2>1, <3>1, <3>3, <4>4 DEF Write, DraftsStillFit
    <3> QED  BY <3>2, <3>3
  <2>5. CASE g \notin grants
    <3>1. /\ op[p] = "acquire"
          /\ g = [task |-> t, token |-> token[p], expires |-> draft[p].lease.expires]
      BY <1>3, <2>3, <2>5 DEF Write
    <3>2. draft[p].lease.token = token[p] /\ draft[p].lease \in Lease
      BY <1>3, <3>1 DEF Write, DraftsStillFit, TypeOK, Record
    <3> QED  BY <2>1, <3>1, <3>2 DEF Lease
  <2> QED  BY <2>4, <2>5
<1>4. ASSUME NEW p \in Agents, Call(p) \/ Lock(p) \/ Read(p) PROVE GrantsRecorded'
  <2>1. Read(p) => UNCHANGED <<tasks, grants, ended, now>>
    BY ReadFrame DEF history
  <2>2. Lock(p) => UNCHANGED <<tasks, grants, ended, now>>
    BY DEF Lock, files, history
  <2>3. Call(p) => UNCHANGED <<tasks, grants, ended, now>>
    BY CallEffect DEF Begin, files, history
  <2> QED  BY <1>1, <1>4, <2>1, <2>2, <2>3
<1>5. ASSUME NEW p \in Agents, WriteLeaseFile(p) \/ Unlock(p) \/ Crash(p) PROVE GrantsRecorded'
  BY <1>1, <1>5 DEF WriteLeaseFile, Unlock, Crash, Leave, files
<1>6. CASE UNCHANGED vars
  BY <1>1, <1>6 DEF vars, files, history
<1> QED  BY <1>2, <1>3, <1>4, <1>5, <1>6 DEF Next, Proceed

-----------------------------------------------------------------------------
\* The invariant holds in every reachable state.
THEOREM InvHolds == Spec => []LeaseInv
<1>1. LeaseInv /\ [Next]_vars => LeaseInv'
  BY StepTypes, StepFits, StepLocks, StepFresh, StepDrafts, StepTokens, StepGrants DEF LeaseInv
<1> QED  BY InitInv, <1>1, PTL DEF Spec

\* Type correctness, histories included.
THEOREM TypeCorrect == Spec => []TypeOK
BY InvHolds, PTL DEF LeaseInv

\* Of all the leases granted on a task, at most one is in force, whichever
\* processes crash, expire or release in whatever order (acquire_lease).
THEOREM LeasesAreExclusive == Spec => []OneLeaseInForce
<1>1. LeaseInv => OneLeaseInForce
  <2> SUFFICES ASSUME LeaseInv, NEW g \in grants, NEW h \in grants,
                      g.task = h.task, InForce(g), InForce(h)
               PROVE  g = h
    BY DEF OneLeaseInForce
  <2>1. /\ tasks[g.task].lease = [token |-> g.token, expires |-> g.expires]
        /\ tasks[g.task].lease = [token |-> h.token, expires |-> h.expires]
    BY DEF LeaseInv, GrantsRecorded
  <2>2. g.token = h.token
    BY <2>1
  <2> QED  BY <2>2 DEF LeaseInv, TokensUnique
<1> QED  BY <1>1, InvHolds, PTL

\* What a write does to the lease in the record, by call: it grants, it ends,
\* or it leaves the lease as it was.
LEMMA WriteLease ==
  ASSUME LeaseInv, NEW p \in Agents, Write(p)
  PROVE  LET old == tasks[target[p]].lease
             new == tasks'[target[p]].lease
         IN  \/ new = old /\ UNCHANGED grants
             \/ /\ op[p] = "release" /\ old # NoLease /\ new = NoLease /\ UNCHANGED grants
                /\ token[p] \in {0, old.token}
             \/ /\ ~Unexpired(old) /\ new # NoLease /\ \A g \in grants : g.token # new.token
                /\ grants' = grants \cup {[task |-> target[p], token |-> new.token,
                                           expires |-> draft[p].lease.expires]}
<1> DEFINE t == target[p]
<1>1. pc[p] = "write" /\ tasks'[t] = draft[p]
  BY WriteFrame DEF Write, LeaseInv
<1>2. CASE op[p] = "create"
  <2>1. tasks[t] = Blank /\ draft[p].lease = NoLease /\ UNCHANGED grants
    BY <1>1, <1>2 DEF Write, LeaseInv, CreatesAreFresh, StepsFitCalls
  <2> QED  BY <1>1, <2>1, BlankIsRecord
<1>3. CASE op[p] = "update"
  BY <1>1, <1>3 DEF Write, LeaseInv, DraftsStillFit
<1>4. CASE op[p] = "release"
  BY <1>1, <1>4 DEF Write, LeaseInv, DraftsStillFit
<1>5. CASE op[p] = "acquire"
  <2>1. draft[p].lease.token = token[p] /\ ~Unexpired(tasks[t].lease)
    BY <1>1, <1>5 DEF LeaseInv, DraftsStillFit
  <2>2. token[p] \in 1..issued /\ \A g \in grants : g.token # token[p]
    BY <1>1, <1>5 DEF LeaseInv, TokensUnique
  <2>3. draft[p].lease # NoLease
    BY <2>1, <2>2 DEF NoLease
  <2> QED  BY <1>1, <1>5, <2>1, <2>2, <2>3 DEF Write
<1> QED  BY <1>1, <1>2, <1>3, <1>4, <1>5 DEF LeaseInv, TypeOK, StepsFitCalls, Ops

\* Every other step leaves the records and the grants alone.
LEMMA OnlyWritesWrite ==
  ASSUME TypeOK, [Next]_vars, ~\E p \in Agents : Write(p)
  PROVE  /\ UNCHANGED <<tasks, grants>>
         /\ now' = now \/ now' = now + 1
<1>1. ASSUME NEW p \in Agents, Call(p) PROVE UNCHANGED <<tasks, grants, now>>
  BY <1>1, CallEffect DEF Begin, files, history
<1>2. ASSUME NEW p \in Agents, Read(p) PROVE UNCHANGED <<tasks, grants, now>>
  BY <1>2, ReadFrame DEF history
<1>3. ASSUME NEW p \in Agents, Lock(p) \/ WriteLeaseFile(p) \/ Unlock(p) \/ Crash(p)
      PROVE UNCHANGED <<tasks, grants, now>>
  BY <1>3 DEF Lock, WriteLeaseFile, Unlock, Crash, Leave, files, history
<1>4. CASE Tick \/ UNCHANGED vars
  BY <1>4 DEF Tick, vars, files, history
<1> QED  BY <1>1, <1>2, <1>3, <1>4 DEF Next, Proceed

\* No step ends a lease in force but a release that names it, or names none.
THEOREM OwnersEndLeases == Spec => OnlyOwnerEndsLease
<1> DEFINE A == \A t \in Tasks :
                  Unexpired(tasks[t].lease) /\ tasks'[t].lease # tasks[t].lease
                    => \E p \in Agents : /\ op[p] = "release" /\ target[p] = t
                                         /\ token[p] \in {0, tasks[t].lease.token}
<1>1. LeaseInv /\ [Next]_vars => [A]_vars
  <2> SUFFICES ASSUME LeaseInv, [Next]_vars PROVE A
    OBVIOUS
  <2>1. CASE ~\E p \in Agents : Write(p)
    BY <2>1, OnlyWritesWrite DEF LeaseInv
  <2>2. ASSUME NEW p \in Agents, Write(p) PROVE A
    <3>1. \A t \in Tasks \ {target[p]} : tasks'[t] = tasks[t]
      BY <2>2, WriteFrame DEF LeaseInv
    <3> QED  BY <2>2, <3>1, WriteLease
  <2> QED  BY <2>1, <2>2
<1> QED  BY <1>1, InvHolds, PTL DEF OnlyOwnerEndsLease, Spec

-----------------------------------------------------------------------------
\* The lease field of the task records implements the abstract lease: the
\* write of an acquisition is a grant, that of a release a release, and every
\* other step of every process a stutter or the clock's.
THEOREM Refinement == Spec => ImplementsExclusiveLease
<1> DEFINE held == [t \in Tasks |-> tasks[t].lease]
           tokens == {g.token : g \in grants}
<1>1. Init => Abstract!Init
  BY BlankIsRecord DEF Init, Abstract!Init
<1>2. LeaseInv /\ [Next]_vars => [Abstract!Next]_(Abstract!vars)
  <2> SUFFICES ASSUME LeaseInv, [Next]_vars PROVE [Abstract!Next]_(Abstract!vars)
    OBVIOUS
  <2>1. CASE ~\E p \in Agents : Write(p)
    <3>1. /\ held' = held /\ tokens' = tokens
          /\ now' = now \/ (now' = now + 1 /\ now \in Nat)
      BY <2>1, OnlyWritesWrite DEF LeaseInv, TypeOK
    <3>2. CASE now' = now
      BY <3>1, <3>2 DEF Abstract!vars
    <3>3. CASE now' = now + 1 /\ now \in Nat
      <4>1. now' \in Nat /\ now' > now
        BY <3>3
      <4> QED  BY <3>1, <4>1 DEF Abstract!Next, Abstract!Advance
    <3> QED  BY <3>1, <3>2, <3>3
  <2>2. ASSUME NEW p \in Agents, Write(p) PROVE [Abstract!Next]_(Abstract!vars)
    <3> DEFINE t == target[p]
    <3>1. /\ t \in Tasks /\ now' = now
          /\ \A u \in Tasks \ {t} : tasks'[u] = tasks[u]
      BY <2>2, WriteFrame DEF LeaseInv
    <3>2. held' = [held EXCEPT ![t] = tasks'[t].lease]
      BY <3>1
    <3>3. CASE tasks'[t].lease = tasks[t].lease /\ UNCHANGED grants
      BY <3>1, <3>2, <3>3 DEF Abstract!vars
    <3>4. CASE tasks[t].lease # NoLease /\ tasks'[t].lease = NoLease /\ UNCHANGED grants
      BY <3>1, <3>2, <3>4 DEF Abstract!Next, Abstract!Release
    <3>5. CASE /\ ~Unexpired(tasks[t].lease) /\ tasks'[t].lease # NoLease
               /\ \A g \in grants : g.token # tasks'[t].lease.token
               /\ grants' = grants \cup {[task |-> t, token |-> tasks'[t].lease.token,
                                          expires |-> draft[p].lease.expires]}
      <4>1. tokens' = tokens \cup {held'[t].token} /\ held'[t].token \notin tokens
        <5> DEFINE g == [task |-> t, token |-> tasks'[t].lease.token,
                         expires |-> draft[p].lease.expires]
        <5>1. grants' = grants \cup {g} /\ g.token = held'[t].token
          BY <3>1, <3>5
        <5>2. \A h \in grants : h.token # g.token
          BY <3>5
        <5> HIDE DEF g, t
        <5> QED  BY <5>1, <5>2
      <4>2. ~Abstract!Live(t)
        BY <3>1, <3>5 DEF Abstract!Live, Unexpired
      <4>3. held'[t] # NoLease /\ held' = [held EXCEPT ![t] = held'[t]]
        BY <3>1, <3>2, <3>5
      <4> QED  BY <3>1, <4>1, <4>2, <4>3 DEF Abstract!Next, Abstract!Grant
    <3> QED  BY <2>2, <3>3, <3>4, <3>5, WriteLease
  <2> QED  BY <2>1, <2>2
<1> QED  BY <1>1, <1>2, InvHolds, PTL DEF ImplementsExclusiveLease, Abstract!Spec, Spec

-----------------------------------------------------------------------------
\* A token has a lease file, or reaches a caller, only after its grant is in
\* the task record: a crash can lose the file but never leave it alone.
FilesInv ==
  /\ LeaseFilesFollowRecords
  /\ \A p \in Agents : pc[p] = "file" => token[p] \in {g.token : g \in grants}

THEOREM FilesFollowRecords == Spec => []LeaseFilesFollowRecords
<1>1. Init => FilesInv
  BY DEF Init, FilesInv, LeaseFilesFollowRecords
<1>2. LeaseInv /\ FilesInv /\ [Next]_vars => FilesInv'
  <2> SUFFICES ASSUME LeaseInv, FilesInv, [Next]_vars PROVE FilesInv'
    OBVIOUS
  <2> USE DEF FilesInv, LeaseFilesFollowRecords
  <2>1. TypeOK
    BY DEF LeaseInv
  <2>2. CASE Tick \/ UNCHANGED vars
    BY <2>2 DEF Tick, vars, files, locals, history
  <2>3. ASSUME NEW p \in Agents, Call(p) PROVE FilesInv'
    <3>1. PICK o \in Ops \ {"none"}, t \in Tasks, k \in Nat, d \in Record : Begin(p, o, t, k, d)
      BY <2>1, <2>3, CallEffect
    <3> QED  BY <2>1, <3>1 DEF Begin, TypeOK, files, history
  <2>4. ASSUME NEW p \in Agents, Lock(p) PROVE FilesInv'
    BY <2>1, <2>4 DEF Lock, TypeOK, files, history
  <2>5. ASSUME NEW p \in Agents, Read(p) PROVE FilesInv'
    <3>1. /\ UNCHANGED <<leaseFiles, returned, grants>>
          /\ \E x \in {"scan", "write", "unlock"} : pc' = [pc EXCEPT ![p] = x]
          /\ \A q \in Agents \ {p} : token'[q] = token[q]
      BY <2>1, <2>5, ReadFrame DEF history
    <3> QED  BY <2>1, <3>1 DEF TypeOK
  <2>6. ASSUME NEW p \in Agents, Write(p) PROVE FilesInv'
    <3> DEFINE g == [task |-> target[p], token |-> token[p], expires |-> draft[p].lease.expires]
    <3>1. /\ UNCHANGED <<leaseFiles, returned, token>>
          /\ pc' = [pc EXCEPT ![p] = IF op[p] = "acquire" THEN "file" ELSE "unlock"]
      BY <2>6 DEF Write, Goto, locals
    <3>2. grants' = IF op[p] = "acquire" THEN grants \cup {g} ELSE grants
      BY <2>6 DEF Write
    <3>3. g.token = token[p]
      OBVIOUS
    <3> HIDE DEF g
    <3> QED  BY <2>1, <3>1, <3>2, <3>3 DEF TypeOK
  <2>7. ASSUME NEW p \in Agents, WriteLeaseFile(p) PROVE FilesInv'
    BY <2>1, <2>7 DEF WriteLeaseFile, Goto, TypeOK, locals
  <2>8. ASSUME NEW p \in Agents, Unlock(p) \/ Crash(p) PROVE FilesInv'
    <3>1. Leave(p) /\ UNCHANGED leaseFiles
      BY <2>8 DEF Unlock, Crash, Leave, files
    <3>2. \A q \in Agents : returned'[q] \subseteq returned[q]
      BY <2>1, <2>8 DEF Unlock, Crash, TypeOK
    <3>3. UNCHANGED grants /\ \A q \in Agents : pc'[q] = "file" => pc[q] = "file" /\ token'[q] = token[q]
      BY <2>1, <3>1 DEF Leave, Goto, TypeOK
    <3> QED  BY <3>1, <3>2, <3>3
  <2> QED  BY <2>2, <2>3, <2>4, <2>5, <2>6, <2>7, <2>8 DEF Next, Proceed
<1> QED  BY <1>1, <1>2, InvHolds, PTL DEF FilesInv, Spec

-----------------------------------------------------------------------------
(***************************************************************************)
(* Twins.  One process at a time scans for twins, and what it has read     *)
(* stays free of them, unless an update under another lock reopens a task; *)
(* no update changes what a task is about.                                 *)
(***************************************************************************)
Twin(t, p) == Open(t) /\ tasks[t].sig = draft[p].sig

ScansHold ==
  \A p \in Agents : op[p] = "create" /\ pc[p] \in {"scan", "write"} =>
    /\ \A t \in Tasks \ unread[p] : Twin(t, p) => t \in reopened
    /\ pc[p] = "write" => unread[p] = {}

SigsKept ==
  \A p \in Agents : pc[p] = "write" /\ op[p] # "create" => draft[p].sig = tasks[target[p]].sig

TwinsInv == ScansHold /\ SigsKept /\ TwinsNeedReopening

\* Steps that move nobody to or within a scan or a write.
LEMMA TwinsApart ==
  ASSUME TwinsInv, NEW p \in Agents, UNCHANGED <<tasks, reopened>>,
         pc'[p] \notin {"scan", "write"},
         \A q \in Agents \ {p} : /\ pc'[q] = pc[q] /\ op'[q] = op[q] /\ target'[q] = target[q]
                                 /\ draft'[q] = draft[q] /\ unread'[q] = unread[q]
  PROVE  TwinsInv'
BY DEF TwinsInv, ScansHold, SigsKept, TwinsNeedReopening, Twin, Open, Exists

\* A scan reads one task more; the other reads keep the signature they read.
LEMMA ReadTwins ==
  ASSUME LeaseInv, TwinsInv, NEW p \in Agents, Read(p)
  PROVE  TwinsInv'
<1> USE DEF LeaseInv
<1>1. /\ UNCHANGED <<tasks, op, target, reopened>>
      /\ \A q \in Agents \ {p} : pc'[q] = pc[q] /\ draft'[q] = draft[q]
  BY ReadFrame DEF TypeOK, history
<1>2. \A q \in Agents \ {p} : unread'[q] = unread[q]
  BY DEF Read, ScanOne, ScanDone, ReadUpdate, ReadAcquire, ReadRelease, Refuse, Decide, locals, TypeOK
<1>3. ASSUME op[p] = "create", pc'[p] \in {"scan", "write"}
      PROVE  /\ \A t \in Tasks \ unread'[p] : Twin(t, p)' => t \in reopened
             /\ pc'[p] = "write" => unread'[p] = {}
  <2>1. CASE ScanOne(p)
    <3>1. PICK t \in unread[p] :
            IF Open(t) /\ tasks[t].sig = draft[p].sig
            THEN Goto(p, "unlock") /\ unread' = [unread EXCEPT ![p] = {}]
            ELSE Goto(p, "scan") /\ unread' = [unread EXCEPT ![p] = @ \ {t}]
      BY <2>1 DEF ScanOne
    <3>2. ~Twin(t, p) /\ unread'[p] = unread[p] \ {t} /\ pc'[p] = "scan" /\ UNCHANGED draft
      BY <1>3, <2>1, <3>1 DEF Goto, TypeOK, ScanOne, Twin
    <3> QED  BY <1>1, <1>3, <2>1, <3>2 DEF ScanOne, TwinsInv, ScansHold, Twin, Open, Exists
  <2>2. CASE ScanDone(p)
    BY <1>1, <1>3, <2>2 DEF ScanDone, locals, TwinsInv, ScansHold, Twin, Open, Exists
  <2>3. CASE ReadUpdate(p) \/ ReadAcquire(p) \/ ReadRelease(p)
    BY <1>3, <2>3 DEF ReadUpdate, ReadAcquire, ReadRelease
  <2> QED  BY <2>1, <2>2, <2>3 DEF Read
<1>4. ASSUME op[p] # "create", pc'[p] = "write"
      PROVE  draft'[p].sig = tasks[target[p]].sig
  <2>1. ~Refuse(p)
    BY <1>4 DEF Refuse, Goto, TypeOK
  <2>2. ~ScanOne(p) /\ ~ScanDone(p)
    BY <1>4 DEF ScanOne, ScanDone, StepsFitCalls
  <2>3. PICK s, lease, k : Decide(p, Edited(target[p], s, lease), k)
    BY <2>1, <2>2 DEF Read, ReadUpdate, ReadAcquire, ReadRelease
  <2> QED  BY <2>3 DEF Decide, Edited, TypeOK
<1>5. ScansHold'
  BY <1>1, <1>2, <1>3 DEF TwinsInv, ScansHold, Twin, Open, Exists
<1>6. SigsKept'
  BY <1>1, <1>4 DEF TwinsInv, SigsKept
<1>7. TwinsNeedReopening'
  BY <1>1 DEF TwinsInv, TwinsNeedReopening, Open, Exists
<1> QED  BY <1>5, <1>6, <1>7 DEF TwinsInv

\* A created task has no twin but reopened ones; an update opens a closed task
\* only by reopening it.
LEMMA WriteTwins ==
  ASSUME LeaseInv, TwinsInv, NEW p \in Agents, Write(p)
  PROVE  TwinsInv'
<1> USE DEF LeaseInv
<1> DEFINE t == target[p]
<1>1. /\ t \in Tasks /\ tasks'[t] = draft[p] /\ draft[p].status # "absent"
      /\ \A u \in Tasks \ {t} : tasks'[u] = tasks[u]
      /\ UNCHANGED <<op, target, draft, unread>>
      /\ pc'[p] \notin {"scan", "write"} /\ \A q \in Agents \ {p} : pc'[q] = pc[q]
  BY WriteFrame DEF locals
<1>2. /\ pc[p] = "write" /\ reopened \subseteq reopened'
      /\ tasks[t].status \in Closed /\ draft[p].status \notin Closed => t \in reopened'
  BY DEF Write
<1>3. \A u \in Tasks \ {t} : Open(u)' = Open(u)
  BY <1>1 DEF Open, Exists
<1>4. SigsKept'
  <2>1. ASSUME NEW q \in Agents, pc'[q] = "write", op[q] # "create"
        PROVE  draft[q].sig = tasks'[target[q]].sig
    <3>1. q # p /\ pc[q] = "write"
      BY <1>1, <2>1
    <3>2. target[q] # t /\ target[q] \in Tasks
      BY <1>2, <3>1, OneWriter DEF StepsFitCalls
    <3> QED  BY <1>1, <2>1, <3>1, <3>2 DEF TwinsInv, SigsKept
  <2> QED  BY <1>1, <2>1 DEF SigsKept
<1>5. CASE op[p] = "create"
  <2>1. ~\E q \in Agents : op[q] = "create" /\ pc'[q] \in {"scan", "write"}
    BY <1>1, <1>2, <1>5 DEF LocksHeld, LockOf
  <2>2. \A u \in Tasks : Open(u) /\ tasks[u].sig = draft[p].sig => u \in reopened
    BY <1>2, <1>5 DEF TwinsInv, ScansHold, Twin
  <2>3. TwinsNeedReopening'
    BY <1>1, <1>2, <1>3, <2>2 DEF TwinsInv, TwinsNeedReopening
  <2> QED  BY <1>1, <1>4, <2>1, <2>3 DEF TwinsInv, ScansHold
<1>6. CASE op[p] # "create"
  <2>1. draft[p].sig = tasks[t].sig /\ Exists(t)
    BY <1>2, <1>6 DEF TwinsInv, SigsKept, DraftsStillFit
  <2>2. Open(t)' => Open(t) \/ t \in reopened'
    BY <1>1, <1>2, <2>1 DEF Open, Exists
  <2>3. \A u \in Tasks : /\ tasks'[u].sig = tasks[u].sig
                         /\ Open(u)' => Open(u) \/ u \in reopened'
    BY <1>1, <1>3, <2>1, <2>2
  <2>4. TwinsNeedReopening'
    <3>1. ASSUME NEW u \in Tasks, NEW v \in Tasks, u # v, Open(u)', Open(v)',
                 tasks'[u].sig = tasks'[v].sig
          PROVE  u \in reopened' \/ v \in reopened'
      <4>1. tasks[u].sig = tasks[v].sig
        BY <2>3, <3>1
      <4>2. /\ Open(u) \/ u \in reopened'
            /\ Open(v) \/ v \in reopened'
        BY <2>3, <3>1 DEF Open, Exists
      <4>3. Open(u) /\ Open(v) => u \in reopened \/ v \in reopened
        BY <3>1, <4>1 DEF TwinsInv, TwinsNeedReopening
      <4> QED  BY <1>2, <4>2, <4>3
    <3> QED  BY <3>1 DEF TwinsNeedReopening, Open, Exists
  <2>5. ScansHold'
    <3>1. ASSUME NEW q \in Agents, op[q] = "create", pc'[q] \in {"scan", "write"}
          PROVE  /\ \A u \in Tasks \ unread[q] : Twin(u, q)' => u \in reopened'
                 /\ pc'[q] = "write" => unread[q] = {}
      <4>1. pc[q] \in {"scan", "write"} /\ pc'[q] = pc[q]
        BY <1>1, <3>1
      <4>2. \A u \in Tasks : Twin(u, q)' => Twin(u, q) \/ u \in reopened'
        <5>1. UNCHANGED draft
          BY <1>1
        <5>2. ASSUME NEW u \in Tasks, Twin(u, q)' PROVE Twin(u, q) \/ u \in reopened'
          BY <2>3, <5>1, <5>2 DEF Twin, Open, Exists
        <5> QED  BY <5>2 DEF Twin, Open, Exists
      <4> QED  BY <1>2, <3>1, <4>1, <4>2 DEF TwinsInv, ScansHold
    <3> QED  BY <1>1, <3>1 DEF ScansHold
  <2> QED  BY <1>4, <2>4, <2>5 DEF TwinsInv
<1> QED  BY <1>5, <1>6

\* write_task's scan under its own lock: open twins come only from tasks that
\* were closed and reopened, whatever else interleaves or dies.
THEOREM TwinsComeFromReopening == Spec => []TwinsNeedReopening
<1>1. Init => TwinsInv
  BY BlankIsRecord DEF Init, TwinsInv, ScansHold, SigsKept, TwinsNeedReopening, Open, Exists
<1>2. LeaseInv /\ TwinsInv /\ [Next]_vars => TwinsInv'
  <2> SUFFICES ASSUME LeaseInv, TwinsInv, [Next]_vars PROVE TwinsInv'
    OBVIOUS
  <2>1. TypeOK
    BY DEF LeaseInv
  <2>2. CASE Tick \/ UNCHANGED vars
    BY <2>2 DEF Tick, vars, files, locals, history, TwinsInv, ScansHold, SigsKept,
                TwinsNeedReopening, Twin, Open, Exists
  <2>3. ASSUME NEW p \in Agents, Call(p) PROVE TwinsInv'
    <3>1. PICK o \in Ops \ {"none"}, t \in Tasks, k \in Nat, d \in Record : Begin(p, o, t, k, d)
      BY <2>1, <2>3, CallEffect
    <3> QED  BY <2>1, <3>1, TwinsApart DEF Begin, TypeOK, files, history
  <2>4. ASSUME NEW p \in Agents, Lock(p) PROVE TwinsInv'
    <3>1. /\ UNCHANGED <<tasks, reopened, op, target, draft>>
          /\ pc'[p] # "write" /\ \A q \in Agents \ {p} : pc'[q] = pc[q] /\ unread'[q] = unread[q]
          /\ pc'[p] = "scan" => unread'[p] = {t \in Tasks : Exists(t)}
      BY <2>1, <2>4 DEF Lock, TypeOK, files, history
    <3> QED  BY <3>1 DEF TwinsInv, ScansHold, SigsKept, TwinsNeedReopening, Twin, Open, Exists
  <2>5. ASSUME NEW p \in Agents, WriteLeaseFile(p) PROVE TwinsInv'
    BY <2>1, <2>5, TwinsApart DEF WriteLeaseFile, Goto, TypeOK, locals
  <2>6. ASSUME NEW p \in Agents, Unlock(p) \/ Crash(p) PROVE TwinsInv'
    BY <2>1, <2>6, TwinsApart DEF Unlock, Crash, Leave, Goto, TypeOK, files
  <2> QED  BY <2>2, <2>3, <2>4, <2>5, <2>6, ReadTwins, WriteTwins DEF Next, Proceed
<1> QED  BY <1>1, <1>2, InvHolds, PTL DEF TwinsInv, Spec
=============================================================================
