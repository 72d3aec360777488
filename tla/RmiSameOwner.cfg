SPECIFICATION RemovalSpec
CONSTANTS
    None = None
    Owners = {"alice"}
    Clients = {a1, a2}
    OwnerOf <- Alice
    Names = {"n1", "n2"}
    Digests = {"base", "mid", "app", "alt"}
    Layers = {"l1", "l2", "l3"}
    Vms = {}
    Parent <- MCParent
    Ancestry <- MCAncestry
    Top <- MCTop
    LayersOf <- MCLayersOf
    Origin <- MCOrigin
    V21 = {}
    Requests <- Removals
    MaxFailures = 1
    MaxLost = 0
INVARIANTS RemovalInv ParentsPresent TagsHaveImages
PROPERTIES HeadAncestorsKept LayersShared
SYMMETRY Connections
