\* Handshake, one message from the client, shutdown from either side and
\* close(), with one fault per behaviour: a lost packet, a duplicated
\* packet or a timer expiry racing packets in transit.
CONSTANTS
    DataSenders = {"client"}
    MaxData = 1
    MaxRetrans = 2
    MaxLoss = 1
    MaxDup = 1
    MaxEarly = 1
    MaxFaults = 1
SPECIFICATION FairSpec
\* Both associations closed, or established and idle, is a real end.
CHECK_DEADLOCK FALSE
INVARIANT TypeOK
PROPERTY HandshakeEnds ShutdownAckLeadsToClose
