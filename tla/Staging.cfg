SPECIFICATION Spec
CONSTANTS
    header = header
    lib = lib
    tool = tool
    service = service
    config = config
    Path <- MCPath
    Config = {config}
    Program = {tool}
    NSubs = 2
    NVersions = 2
    Declared <- MCDeclared
    Installs <- MCInstalls
    Idir <- MCIdir
    ConfigOf <- MCConfigOf
    Capital = FALSE
    MaxChanges = 2
    MaxCrashes = 2
INVARIANTS
    TypeOK
    Restored
    NothingStale
