CONSTANTS
  NumRequests = 1
  ExtCap <- MCExtCap
  IntCap <- MCIntCap
  MaxPings = 0
  MaxFailures = 0
  MaxDialFailures = 0
  MaxSrvEvents = 0
  MaxRpcErrors = 1
  MaxSaltChanges = 0
  MaxCallerReconnects = 1
  FailDuringReconnect = FALSE
SPECIFICATION Spec
PROPERTY ReconnectCompletes
\* The client really may stop here: the application's Reconnect() returned
\* the config error, the transfer and ping workers were never started, and
\* no reconnector runs, so no step is left for any goroutine.
CHECK_DEADLOCK FALSE
