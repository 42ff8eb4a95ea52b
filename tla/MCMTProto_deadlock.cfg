CONSTANTS
  NumRequests = 2
  ExtCap <- MCExtCap
  IntCap <- MCSmallIntCap
  MaxPings = 1
  MaxFailures = 0
  MaxDialFailures = 0
  MaxSrvEvents = 1
  MaxRpcErrors = 1
  MaxSaltChanges = 1
  MaxCallerReconnects = 0
  FailDuringReconnect = FALSE
SPECIFICATION Spec
PROPERTY RequestsAnswered
CHECK_DEADLOCK FALSE
