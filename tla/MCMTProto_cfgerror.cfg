CONSTANTS
  NumRequests = 0
  ExtCap <- MCExtCap
  IntCap <- MCIntCap
  MaxPings = 0
  MaxFailures = 1
  MaxDialFailures = 0
  MaxSrvEvents = 1
  MaxRpcErrors = 1
  MaxSaltChanges = 0
  MaxCallerReconnects = 0
  FailDuringReconnect = FALSE
SPECIFICATION Spec
PROPERTY ReconnectCompletes
