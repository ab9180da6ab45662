\* Three projects that share networks, names and two subnets.
CONSTANTS
    Projects <- MCProjects
    Subnets <- MCSubnets
    IndexMod = 4
    Names = {}
    AddedContainers = {"db"}
    AddedVolumes = {"vol"}
    MaxIDs = 4
SPECIFICATION Spec
INVARIANTS
    TypeOK
    SubnetsConserved
    ContainersConnected
    UpProvides
CHECK_DEADLOCK FALSE
