CONSTANTS
  NumRequests = 1
  ExtCap <- MCExtCap
  IntCap <- MCIntCap
  MaxPings = 1
  MaxFailures = 0
  MaxDialFailures = 0
  MaxSrvEvents = 1
  MaxRpcErrors = 1
  MaxSaltChanges = 0
  MaxCallerReconnects = 0
  FailDuringReconnect = FALSE
SPECIFICATION Spec
PROPERTY RequestsAnswered
PROPERTY RefinesRequestChannel
