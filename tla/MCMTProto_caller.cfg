CONSTANTS
  NumRequests = 1
  ExtCap <- MCExtCap
  IntCap <- MCIntCap
  MaxPings = 0
  MaxFailures = 0
  MaxDialFailures = 0
  MaxSrvEvents = 0
  MaxRpcErrors = 0
  MaxSaltChanges = 0
  MaxCallerReconnects = 1
  FailDuringReconnect = FALSE
SPECIFICATION Spec
INVARIANT NoLostRequest
PROPERTY RequestsAnswered
PROPERTY RefinesRequestChannel
