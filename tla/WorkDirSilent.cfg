SPECIFICATION Spec
CONSTANTS
    Format = "ipkg"
    Faults = {"silent"}
    MaxFaults = 1
    MaxReconf = 0
INVARIANTS
    PatchSound
