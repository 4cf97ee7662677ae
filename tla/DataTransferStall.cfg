\* The bounds of DataTransferLive.cfg with Forward TSN negotiated and B's
\* stream not yet opened: the first DATA that reaches B creates it
\* (get_or_create_stream).  A abandons message 0 on its second send; its
\* FORWARD-TSN can reach B before any DATA, when B has no stream to update.
\* The association then idles with message 1 unread and no timer armed.
CONSTANTS
    W = 4
    InitialTsns = {1}
    Msgs = 2
    MsgLens = {2}
    CommonHeaderSize = 1
    DataChunkHeaderSize = 1
    MaxPayloadSize = 2
    CwndFloor = 5
    MaxReceiveBufferSize = 2
    MaxLoss = 1
    MaxDup = 1
    MaxInTransit = 3
    MaxEarlyT3 = 1
    ForwardTsnNegotiated = {TRUE}
    RexmitValue = 2
    StreamOpenedFirst = {FALSE}
SPECIFICATION FairSpec
PROPERTY ChannelLive
