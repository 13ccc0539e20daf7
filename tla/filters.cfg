SPECIFICATION FairSpec
CONSTANTS
    f1 = f1  f2 = f2  m1 = m1  m2 = m2  m3 = m3
    u1 = u1  u2 = u2  us = us  v1 = v1  v2 = v2  v3 = v3
    text = text  html = html  meta = meta
    x = x  y = y
    Hashes = {f1, f2, m1, m2, m3}
    URIs = {u1, u2, us, v1, v2, v3}
    NoURI = NoURI
    Types = {text, html, meta}
    MetaTypes = {meta}
    URIsOf <- MCURIsOf
    TargetOf <- MCTargetOf
    Parses = {m1, m2, m3}
    Terms = {x, y}
    TermsOf <- MCTermsOf
    Docs <- MCDocs
    Queries <- MCQueries
    Nodes <- MCNodes
    Depth <- MCDepth
    MaxFiles = 4
    BATCH_SIZE = 2
INVARIANTS
    ResultsExact
    StartExact
    NegationBounds
    OwnAge
PROPERTIES
    Ends
CHECK_DEADLOCK FALSE
