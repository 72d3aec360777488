SPECIFICATION FairSharedSpec
CONSTANTS
    None = None
    Owners = {"alice", "bob"}
    Clients = {"a1", "b1"}
    OwnerOf <- MCOwnerOf
    Names = {"n1"}
    Digests = {"base", "mid"}
    Layers = {"l1", "l2"}
    Vms = {}
    Parent <- MCParent
    Ancestry <- MCAncestry
    Top <- MCTop
    LayersOf <- MCLayersOf
    Origin <- MCOrigin
    V21 = {}
    Requests <- Sharing
    MaxFailures = 0
    MaxLost = 1
PROPERTIES OwnRowsOnly TaggedRowsExist RequestsAnswered
