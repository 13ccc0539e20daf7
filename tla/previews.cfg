SPECIFICATION FairSpec
CONSTANTS
    Viewers = {v1, v2, v3}
    Posters = {p1, p2}
    Files = {f1, f2, f3}
    NoFile = NoFile
    Posts <- MCPosts
    Uploads <- MCUploads
    Page <- MCPage
    Listed <- MCListed
    v1 = v1
    v2 = v2
    v3 = v3
    f1 = f1
    f2 = f2
    f3 = f3
    PENDING_MAX = 2
    MaxFaults = 1
INVARIANTS
    SlotsExact
    WaitersWoken
    EmptyMeansFailed
    PostedOnce
PROPERTIES
    MetaKept
    Answered
