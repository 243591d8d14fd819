CONSTANTS
    Pkg <- MCPkg
    Name <- MCName
    Makefile <- MCMakefile
    Libc <- MCLibc
    OptionalTool <- MCOptionalTool
    Key <- MCKey
    Value <- MCValue
    Capacity = 4
    Settings <- MCSettings
    Prefix <- MCPrefix
    Default <- MCDefault
    Absent = Absent
    NoFile = NoFile
    MaxEdits = 2
    MaxSaves = 2
    MaxCrashes = 1
SPECIFICATION Spec
INVARIANTS TypeOK BuildsCurrent DependsFaithful
PROPERTIES FlaggedOnce PkgMapImplements
