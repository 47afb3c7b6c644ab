CONSTANTS
  Conn = {c1}
  TxnId = {1, 2}
  Key = {k1}
  Value = {v1, big}
  Oversize = {big}
  Empty = Empty
  Absent = Absent
  NotWritten = NotWritten
  NoTxn = NoTxn
  CrashKind = {"process"}
  MaxLog = 5
  MaxRecorded = 2
SPECIFICATION Spec
INVARIANT OpenSucceeds
