\* The client sends a message and shuts down at once; the network loses
\* one packet.
CONSTANTS
    DataSenders = {"client"}
    MaxData = 1
    MaxRetrans = 2
    MaxLoss = 1
    MaxDup = 0
    MaxEarly = 0
    MaxFaults = 1
SPECIFICATION Spec
CHECK_DEADLOCK FALSE
INVARIANT GracefulCloseDeliversData
