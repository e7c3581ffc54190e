SPECIFICATION Spec
CONSTANTS
    a1 = a1
    a2 = a2
    a3 = a3
    App <- MCApps
    ID <- MCID
    Item <- MCItems
    Kind <- MCKind
    Strategy = {"domain_local", "implicit_rendezvous"}
    FID = {"iLID", "remote"}
    ZERO = "zero"
    iLID = "iLID"
    MaxInterest = 4
SYMMETRY MCSymmetry
INVARIANTS
    LocalHostsAgree
    RequestsAgree
    OnePublisher
    NotifiedDataIsDelivered
PROPERTIES
    DisconnectHandsOver
