CONSTANTS
  TxnId = {t1, t2, t3}
  Key = {k1, k2}
  NoTxn = NoTxn
  MaxRecorded = 2
SPECIFICATION FairSpec
INVARIANTS
  LockExclusion
  HoldersRecorded
  EntriesAreHeld
  NoLostWakeup
PROPERTIES
  TwoPhase
  LockReturns
