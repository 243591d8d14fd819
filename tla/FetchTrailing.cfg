SPECIFICATION Spec
CONSTANTS
    Tree = {a}
    Nobody = nobody
    NFiles = 2
    NSites = 2
    Schemes = {"http"}
    Faults = {"site"}
    MaxFaults = 2
PROPERTIES
    AcceptedComplete
