CONSTANTS
  Conn = {c1, c2}
  TxnId = {1, 2}
  Key = {k1}
  Value = {v1}
  Oversize = {}
  Empty = Empty
  Absent = Absent
  NotWritten = NotWritten
  NoTxn = NoTxn
  CrashKind = {"process", "power", "torn", "io", "shutdown"}
  MaxLog = 6
  MaxRecorded = 2
SPECIFICATION Spec
SYMMETRY Symmetry
INVARIANTS TypeOK ForceAtCommit TreeIsCommitted AckedIsDurable RInv
PROPERTIES RepeatableReads
