SPECIFICATION Spec
CONSTANTS
    Byte = {0, 1}
    Size = 3
    Data <- MCData
    Req <- MCReq
INVARIANT BlocksOwned
PROPERTY IsFifo
