\* One peer, one DATA chunk per packet, and a third party sending an INIT
\* chunk header with nothing after it, under a correct checksum.
CONSTANTS
    W = 4
    InitialTsns = {9}
    Window = 1
    AllowWrap = FALSE
    PeerTag = 7
    MaxBundle = 1
    DamageOffsets = {}
    Forgeries <- MCForgeriesTruncatedInit
SPECIFICATION Spec
INVARIANT NeverPanics
