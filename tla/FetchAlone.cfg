SPECIFICATION FairSpec
CONSTANTS
    Tree = {a}
    Nobody = nobody
    NFiles = 2
    NSites = 2
    Schemes = {"http", "git"}
    Faults = {"site", "wrong", "clone", "submodule", "pack", "crash"}
    MaxFaults = 4
INVARIANTS
    CookieVouches
    ExtractedGood
PROPERTIES
    EventuallyExtracted
