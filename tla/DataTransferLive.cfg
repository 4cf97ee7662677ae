\* Two two-byte messages and a two-byte receive buffer (zero window and
\* probes), one loss, one duplicate, one early T3-rtx expiry, under the
\* fairness of FairSpec.  Forward TSN negotiated or not; with it, a chunk
\* is abandoned when sent a second time (Rexmit, reliability value 2).
\* B's application opened the stream before the first DATA (open_stream);
\* DataTransferStall.cfg is the case where the first DATA creates it.
\* MaxInTransit is not used (no state constraint).
CONSTANTS
    W = 4
    InitialTsns = {1}
    Msgs = 2
    MsgLens = {2}
    CommonHeaderSize = 1
    DataChunkHeaderSize = 1
    MaxPayloadSize = 2
    CwndFloor = 5
    MaxReceiveBufferSize = 2
    MaxLoss = 1
    MaxDup = 1
    MaxInTransit = 3
    MaxEarlyT3 = 1
    ForwardTsnNegotiated = {FALSE, TRUE}
    RexmitValue = 2
    StreamOpenedFirst = {TRUE}
SPECIFICATION FairSpec
PROPERTY ChannelLive
PROPERTY SenderQuiesces
INVARIANT TypeOK
