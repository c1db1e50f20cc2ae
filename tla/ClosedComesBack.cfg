SPECIFICATION Spec
CONSTANTS
    MaxSession = 2
    MaxRequest = 2
    NoRequest = NoRequest
    Cap = 1
PROPERTIES ClosedStaysHidden
CHECK_DEADLOCK FALSE
