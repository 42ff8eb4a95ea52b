CONSTANTS
  NumRequests = 1
  ExtCap <- MCExtCap
  IntCap <- MCIntCap
  MaxPings = 0
  MaxFailures = 2
  MaxDialFailures = 0
  MaxSrvEvents = 0
  MaxRpcErrors = 0
  MaxSaltChanges = 0
  MaxCallerReconnects = 0
  FailDuringReconnect = TRUE
SPECIFICATION Spec
PROPERTY ReconnectCompletes
CHECK_DEADLOCK FALSE
