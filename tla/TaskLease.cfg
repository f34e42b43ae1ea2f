SPECIFICATION FairSpec
CONSTANTS
  t1 = t1  t2 = t2  a1 = a1  a2 = a2  s1 = s1
  Tasks = {t1, t2}
  Sigs = {s1}
  Agents = {a1, a2}
  TTLs = {1}
  CreateLock = CreateLock
  None = None
  StatusesTried = {"pending", "completed"}
  MaxTime = 2
  MaxCalls = 4
INVARIANTS LeaseInv OneLeaseInForce LeaseFilesFollowRecords TwinsNeedReopening
PROPERTIES OnlyOwnerEndsLease CallsEnd ImplementsExclusiveLease
CHECK_DEADLOCK FALSE
