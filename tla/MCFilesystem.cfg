\* A folder for two files, three names of which one continues another, two failing
\* calls.  Everything is over when both folders are closed.
CONSTANTS
    Paths <- MCPaths
    Names <- MCNames
    Contents = {"x"}
    MaxFaults = 2
SPECIFICATION Spec
INVARIANTS
    TypeOK
    ClosedIsClean
PROPERTIES
    IsStore
CHECK_DEADLOCK FALSE
