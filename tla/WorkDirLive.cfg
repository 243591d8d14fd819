SPECIFICATION FairSpec
CONSTANTS
    Format = "txz"
    Faults = {"crash", "download", "silent", "rmerror"}
    MaxFaults = 1
    MaxReconf = 1
PROPERTIES
    EventuallyBuilt
