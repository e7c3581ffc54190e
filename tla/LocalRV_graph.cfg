SPECIFICATION Spec
CONSTANTS
    s1 = s1
    s2 = s2
    s3 = s3
    i1 = i1
    h1 = h1
    h2 = h2
    a = a
    b = b
    NULL = NULL
    Host <- MCHosts
    LocalHost = h1
    Frag <- MCFrags
    ScopeObj <- MCScopes3
    ItemObj <- MCItems1
    Strategy = {"domain_local"}
    MaxDepth = 3
    MaxInterest = 4
    IteratorsSurviveErase = FALSE
SYMMETRY MCHostSymmetry
VIEW MCGraphView
INVARIANTS
    GraphAgrees
PROPERTIES
    OthersKeepTheirs
