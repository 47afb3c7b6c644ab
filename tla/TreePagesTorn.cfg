SPECIFICATION PagesSpec
CONSTANTS
  Key <- MCKey
  Value = {"v"}
  KeySize <- MCKeySize
  ValueSize <- MCValueSize
  NODE_USABLE_SIZE = 34
  Absent = Absent
  MaxPages = 9
  Faults = {"assert"}
INVARIANT FileIsReadable
CHECK_DEADLOCK FALSE
