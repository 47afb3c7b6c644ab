CONSTANTS
  Conn = {c1, c2}
  TxnId = {1, 2}
  Key = {k1, k2}
  Value = {v1}
  Oversize = {}
  Empty = Empty
  Absent = Absent
  NotWritten = NotWritten
  NoTxn = NoTxn
  CrashKind = {"power"}
  MaxLog = 5
  MaxRecorded = 2
SPECIFICATION Spec
INVARIANT UnloggedIsAbsent
