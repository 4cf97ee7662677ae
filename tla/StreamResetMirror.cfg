\* No loss, duplication or early expiry: the network only reorders.  a
\* writes one message and resets its stream.
CONSTANTS
    Streams = {1}
    Requesters = {"a"}
    MaxWrites = 1
    MaxLoss = 0
    MaxDup = 0
    MaxEarly = 0
    MaxFaults = 0
    MaxReconfigRetrans = 2
SPECIFICATION FairSpec
\* Both endpoints idle with nothing in transit is a real end.
CHECK_DEADLOCK FALSE
PROPERTY ResetCompletes
