\* The initial TSN is 2^W - 2: the third TSN wraps to 0.
CONSTANTS
    W = 4
    InitialTsns = {14}
    Msgs = 3
    MsgLens = {1}
    CommonHeaderSize = 1
    DataChunkHeaderSize = 1
    MaxPayloadSize = 2
    CwndFloor = 5
    MaxReceiveBufferSize = 4
    MaxLoss = 1
    MaxDup = 0
    MaxInTransit = 2
    MaxEarlyT3 = 1
    ForwardTsnNegotiated = {FALSE}
    RexmitValue = 0
    StreamOpenedFirst = {TRUE}
SPECIFICATION Spec
CONSTRAINT NetBound
INVARIANT NoProtocolError
