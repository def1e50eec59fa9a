SPECIFICATION BridgeSpec
CONSTANTS
 Messages = 2
 HubJobs = {}
 Asks = {}
 Limit = 1
 HubLimit = 3
 Rate = 1
 MaxMishaps = 0
PROPERTY ResultsArrive
CHECK_DEADLOCK FALSE
