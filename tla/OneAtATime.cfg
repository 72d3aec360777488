SPECIFICATION Spec
CONSTANTS
    None = None
    Owners = {"alice", "bob"}
    Clients = {"a1"}
    OwnerOf <- MCOwnerOf
    Names = {"n1"}
    Digests = {"base", "mid", "alt"}
    Layers = {"l1", "l2", "l3"}
    Vms = {"v1"}
    Parent <- MCParent
    Ancestry <- MCAncestry
    Top <- MCTop
    LayersOf <- MCLayersOf
    Origin <- MCOrigin
    V21 = {"alt"}
    Requests <- Everything
    MaxFailures = 0
    MaxLost = 0
INVARIANTS TypeOK ImagesHaveLayers NoLayerLeaks
