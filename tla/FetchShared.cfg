SPECIFICATION Spec
CONSTANTS
    Tree = {a, b}
    Nobody = nobody
    NFiles = 2
    NSites = 1
    Schemes = {"http"}
    Faults = {"site", "wrong", "crash"}
    MaxFaults = 2
SYMMETRY Symmetry
INVARIANTS
    TypeOK
PROPERTIES
    AcceptedVerified
