CONSTANTS
  NumRequests = 1
  ExtCap <- MCExtCap
  IntCap <- MCIntCap
  MaxPings = 0
  MaxFailures = 1
  MaxDialFailures = 0
  MaxSrvEvents = 0
  MaxRpcErrors = 0
  MaxSaltChanges = 0
  MaxCallerReconnects = 1
  FailDuringReconnect = FALSE
SPECIFICATION Spec
INVARIANT NoDuplicateWorkers
\* The client really may stop here: with the routinesStop channel full and
\* no workers left, both reconnectors block on their next stop token.
CHECK_DEADLOCK FALSE
