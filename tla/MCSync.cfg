SPECIFICATION Spec
CONSTANTS
    a1 = a1
    a2 = a2
    a3 = a3
    peer_p = peer_p
    peer_q = peer_q
    Null = Null
    NoRequest = NoRequest
    Block <- MCBlock
    previous <- MCprevious
    num <- MCnum
    Peer = {peer_p, peer_q}
    OurChain <- Genesis
    TheirChain <- LateStart
    Future <- LateGrow
    Fragile = {peer_p}
    Invalid = {a3}
    Forgetful = {peer_p}
    MinBlockIds = 1
    MaxBlocksPerPeer = 1
    MaxBlocksAtOnce = 2
    MaxBlocksToPrefetch = 1
    IdsLimit = 2
    UndoDepth = 2
CHECK_DEADLOCK FALSE
INVARIANTS
    OneRequestPerBlock
    ListsContinueTheChain
    SyncBlocksLink
PROPERTY SyncEndsOrBacklogStalls
