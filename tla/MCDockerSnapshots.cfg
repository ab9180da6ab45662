\* Snapshots of two projects on a shared network.
CONSTANTS
    Projects <- MCSharing
    Subnets <- MCSubnets
    IndexMod = 8
    Names = {n1}
    AddedContainers = {}
    AddedVolumes = {}
    MaxIDs = 4
SPECIFICATION Spec
INVARIANTS
    SubnetsConserved
    AddressesDistinct
PROPERTIES
    IsStore
CHECK_DEADLOCK FALSE
