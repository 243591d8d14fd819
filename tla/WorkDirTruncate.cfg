SPECIFICATION Spec
CONSTANTS
    Format = "ipkg"
    Faults = {"crash"}
    MaxFaults = 1
    MaxReconf = 0
INVARIANTS
    PackageComplete
