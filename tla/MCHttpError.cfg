SPECIFICATION HSpec
CONSTANTS
    r1 = r1
    r2 = r2
    Request <- const_Request
    MaxBuffer = 2
    MaxSegments = 3
INVARIANTS
    ErrorReported
