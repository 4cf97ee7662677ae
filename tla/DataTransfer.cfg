\* Three one-byte messages: several DATA chunks bundled per packet, one
\* loss, one T3-rtx expiry racing packets in transit, reordering.  Forward
\* TSN negotiated or not; with it, a chunk is abandoned when first sent
\* (Rexmit, reliability value 1), so FORWARD-TSN races the DATA it skips.
CONSTANTS
    W = 4
    InitialTsns = {1}
    Msgs = 3
    MsgLens = {1}
    CommonHeaderSize = 1
    DataChunkHeaderSize = 1
    MaxPayloadSize = 2
    CwndFloor = 5
    MaxReceiveBufferSize = 4
    MaxLoss = 1
    MaxDup = 0
    MaxInTransit = 2
    MaxEarlyT3 = 1
    ForwardTsnNegotiated = {FALSE, TRUE}
    RexmitValue = 1
    StreamOpenedFirst = {FALSE, TRUE}
SPECIFICATION Spec
CONSTRAINT NetBound
INVARIANT AckedImpliesReceived
INVARIANT InflightAccounting
INVARIANT NoProtocolError
PROPERTY NeverResendAcked
PROPERTY ChannelSafe
