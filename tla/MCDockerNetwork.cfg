\* Can a network that no container is on be removed?
CONSTANTS
    Projects <- MCProjects
    Subnets <- MCSubnets
    IndexMod = 8
    Names = {}
    AddedContainers = {}
    AddedVolumes = {}
    MaxIDs = 4
SPECIFICATION Spec
INVARIANTS
    InUseByContainers
CHECK_DEADLOCK FALSE
