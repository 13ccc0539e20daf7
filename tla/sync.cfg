SPECIFICATION Spec
CONSTANTS
    Workers = {w1, w2}
    Hashes <- MCHashes
    URIs <- MCURIs
    Types <- MCTypes
    MetaTypes <- MCMetaTypes
    URIsOf <- MCURIsOf
    TargetOf <- MCTargetOf
    Parses <- MCParses
    FileLines <- MCFileLines
    MetaLines <- MCMetaLines
    Served <- MCServed
    TypeOf <- MCTypeOf
    PrimaryOf <- MCPrimaryOf
    LocalDocs <- MCLocal
    NoURI = NoURI
    NoSub = NoSub
    f1 = f1
    f2 = f2
    m1 = m1
    m2 = m2
    m3 = m3
    u1 = u1
    u2 = u2
    us = us
    um1 = um1
    um2 = um2
    um3 = um3
    text = text
    meta = meta
SYMMETRY Symmetry
INVARIANTS
    QueuesHandOver
    HintsComplete
    NothingSkipped
    Announced
    MetaOrder
