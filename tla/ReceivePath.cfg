\* TSNs of W = 4 bits below 2^W, bundles of one or two DATA chunks; the link
\* may change a byte of the common header (2), the checksum (8), the first
\* chunk's length (14), its TSN (19) or the second chunk's TSN (39), or cut
\* the last byte.
CONSTANTS
    W = 4
    InitialTsns = {9}
    Window = 4
    AllowWrap = FALSE
    PeerTag = 7
    MaxBundle = 2
    DamageOffsets = {2, 8, 14, 19, 39}
    Forgeries <- MCForgeries
SPECIFICATION Spec
INVARIANT GapAckBlocksCorrect ReceivedIsSent DecodersAgree
