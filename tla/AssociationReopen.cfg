\* One duplicated packet, no loss.
CONSTANTS
    DataSenders = {}
    MaxData = 0
    MaxRetrans = 2
    MaxLoss = 0
    MaxDup = 1
    MaxEarly = 0
    MaxFaults = 1
SPECIFICATION Spec
CHECK_DEADLOCK FALSE
PROPERTY ClosedIsTerminal
