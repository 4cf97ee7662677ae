\* Four two-byte messages, one DATA chunk per packet and all four in
\* flight at once: one loss gives three miss indications and fast
\* recovery.  T3-rtx fires only with the network empty.
CONSTANTS
    W = 4
    InitialTsns = {1}
    Msgs = 4
    MsgLens = {2}
    CommonHeaderSize = 1
    DataChunkHeaderSize = 1
    MaxPayloadSize = 2
    CwndFloor = 5
    MaxReceiveBufferSize = 8
    MaxLoss = 1
    MaxDup = 0
    MaxInTransit = 4
    MaxEarlyT3 = 0
    ForwardTsnNegotiated = {FALSE}
    RexmitValue = 0
    StreamOpenedFirst = {TRUE}
SPECIFICATION Spec
CONSTRAINT NetBound
INVARIANT AckedImpliesReceived
INVARIANT NoProtocolError
INVARIANT FastRecoveryExitOutstanding
PROPERTY NeverResendAcked
