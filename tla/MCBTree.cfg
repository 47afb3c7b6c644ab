SPECIFICATION MCSpec
CONSTANTS
  small = small
  large = large
  huge = huge
  LargeSize = 10
  MaxKey = 7
  LongKeys = {2, 4, 6}
  Starts <- MCStarts
  Key <- MCKey
  Value = {small, large, huge}
  KeySize <- MCKeySize
  ValueSize <- MCValueSize
  NODE_USABLE_SIZE = 34
  Absent = Absent
  MaxPages = 9
  Faults = {"assert"}
INVARIANTS TypeOK CellsAreFound NodesAreSound PagesOwned LeavesLinked Balanced
PROPERTY ImplementsStore
VIEW NoReply
CHECK_DEADLOCK FALSE
