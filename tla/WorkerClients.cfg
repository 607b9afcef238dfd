SPECIFICATION Spec
CONSTANTS
    MaxRequests = 3
    MaxWorkers = 2
CHECK_DEADLOCK FALSE
 
PROPERTIES AbortedNotShown SettledUnlessLost
