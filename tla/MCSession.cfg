CONSTANTS
  c1 = c1
  c2 = c2
  Caller = {c1, c2}
  Calls <- CallsByUsage
  MaxRetries = 1
  MaxOps <- OpsByUsage
  Usages = {"awaited", "pipelined", "shared"}
  Payload = Payload
  Nothing = Nothing
SPECIFICATION FairSpec
CHECK_DEADLOCK FALSE
INVARIANTS TypeOK AwaitedInOrder OpenTxnIsOwned CommittedOnce
PROPERTIES Settles ClosedIsCleanedUp
