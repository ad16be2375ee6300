SPECIFICATION Spec
CONSTANTS
    Base = 2
    ByteBits = 3
    VarBits = 5
    HostLittle = TRUE
    Inputs <- MCInputs
    Items <- MCItems
    Message <- MCMessage
    BuffSize = 2
    MaxMade = 3
    NoVal = NoVal
    MaxOps = 4
INVARIANTS TypeOK RoundTrip EncodingsInvert ZlibDelivers
PROPERTIES BehavesAsStore CursorLostAtEnd
CHECK_DEADLOCK FALSE
