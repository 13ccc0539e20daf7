SPECIFICATION PowerSpec
CONSTANTS
    Requests = {r1, r2}
    Hashes <- MCHashes
    URIs <- MCURIs
    Types <- MCTypes
    MetaTypes <- MCMetaTypes
    URIsOf <- MCURIsOf
    TargetOf <- MCTargetOf
    Parses <- MCParses
    Batches <- MCBatches
    NoURI = NoURI
    NoRequest = NoRequest
    f1 = f1
    f2 = f2
    m1 = m1
    m2 = m2
    m3 = m3
    u1 = u1
    u2 = u2
    us = us
    um1 = um1
    um2 = um2
    um3 = um3
    text = text
    html = html
    meta = meta
SYMMETRY Symmetry
INVARIANTS
    DataOnDisk
