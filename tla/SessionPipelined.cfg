CONSTANTS
  c1 = c1
  c2 = c2
  Caller = {c1, c2}
  Calls <- CallsByUsage
  MaxRetries = 1
  MaxOps <- OpsByUsage
  Usages = {"pipelined"}
  Payload = Payload
  Nothing = Nothing
SPECIFICATION Spec
CHECK_DEADLOCK FALSE
INVARIANT ResponsesInOrder
