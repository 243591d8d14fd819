SPECIFICATION Spec
CONSTANTS
    Format = "ipkg"
    Faults = {"crash", "error", "download"}
    MaxFaults = 2
    MaxReconf = 1
INVARIANTS
    TypeOK
    CookiesSound
    WorldSound
    PackageSound
PROPERTIES
    PatchedOnce
    FlagKept
