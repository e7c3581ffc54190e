SPECIFICATION MCSpec
CONSTANTS
    sender = sender
    relay = relay
    app = app
    Node = {sender, relay}
    App = {app}
    FirstHops <- MCFirstHops
    Out <- MCOut
    Modes <- MCModes
    WindowSize = 2
    TimestampDiff = 0
    Summer = {1}
    Hour = 1
    Rid = {"r1", "r2"}
    NoRid = "NoRid"
    Bounds <- MCBounds
    DEGREE = 7
    T = 4
    W = 4
    C = 0
    Rule <- MCRule
    Hash <- MCHash
    G <- MCG
    TrustedKey = 23
    Nonces = {1, 5, 33, 66, 70}
    Messages = {2, 19}
    Identities <- MCIdentities
CHECK_DEADLOCK FALSE
INVARIANTS
    WindowIsExact
    PacketsVerify
    CertificatesVerify
    CurveLaws
