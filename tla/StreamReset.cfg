\* One stream open at both endpoints; each application writes one message
\* and either or both reset the stream.  Two faults per behaviour among
\* one lost packet, one duplicated packet and one Reconfig expiry racing
\* packets in transit; the Reconfig timer gives up after two
\* retransmissions.
CONSTANTS
    Streams = {1}
    Requesters = {"a", "b"}
    MaxWrites = 1
    MaxLoss = 1
    MaxDup = 1
    MaxEarly = 1
    MaxFaults = 2
    MaxReconfigRetrans = 2
SPECIFICATION FairSpec
\* Both endpoints idle with nothing in transit is a real end.
CHECK_DEADLOCK FALSE
INVARIANT TypeOK ResetAfterData
PROPERTY PeerResetApplied
