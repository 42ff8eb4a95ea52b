CONSTANTS
  NumRequests = 1
  ExtCap <- MCExtCap
  IntCap <- MCIntCap
  MaxPings = 0
  MaxFailures = 1
  MaxDialFailures = 1
  MaxSrvEvents = 0
  MaxRpcErrors = 0
  MaxSaltChanges = 0
  MaxCallerReconnects = 0
  FailDuringReconnect = FALSE
SPECIFICATION Spec
INVARIANT TypeOK
INVARIANT NoLostRequest
PROPERTY ReconnectCompletes
PROPERTY RequestsAnswered
PROPERTY RefinesRequestChannel
