CONSTANTS
    Called = {14, 32, 128}
    Lines = {0, 7, 8, 9, 15}
    Served = {0, 7, 8, 9}
    Exceptions = {14}
    MaxRaises = 3
SPECIFICATION Spec
INVARIANTS
    HandlersServeTheirLine
    RequestsAccountedFor
    NothingStaysInService
PROPERTY RequestsAreServed
CHECK_DEADLOCK FALSE
