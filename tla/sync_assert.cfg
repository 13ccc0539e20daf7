SPECIFICATION Spec
CONSTANTS
    Workers = {w1, w2}
    Hashes <- MCHashes
    URIs <- MCURIs
    Types <- MCTypes
    MetaTypes <- MCMetaTypes
    URIsOf <- MCURIsOf
    TargetOf <- MCShortTargetOf
    Parses <- MCParses
    FileLines <- MCFileLines
    MetaLines <- MCShortMetaLines
    Served <- MCServed
    TypeOf <- MCTypeOf
    PrimaryOf <- MCPrimaryOf
    LocalDocs <- MCNoLocal
    NoURI = NoURI
    NoSub = NoSub
    f1 = f1
    f2 = f2
    m1 = m1
    m2 = m2
    m3 = m3
    u1 = u1
    u2 = u2
    us = us
    um1 = um1
    um2 = um2
    um3 = um3
    text = text
    meta = meta
INVARIANTS
    HintTargetsPrimary
