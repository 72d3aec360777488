SPECIFICATION Spec
CONSTANTS
    None = None
    ANY = ANY
    Accounts = {"alice"}
    Admins = {}
    Clients = {"a1", "a2"}
    AccountOf <- AllAlice
    Vms = {v1, v2, v3}
    Brands = {"lx", "kvm"}
    Images = {"linux", "windows"}
    BrandOf <- MCBrandOf
    Pkgs <- MCPkgs
    Configs <- MCConfigs
    DcLimits <- MCDcLimits
    MaxFailures = 1
INVARIANTS TypeOK CfgKeepsMeaning
PROPERTIES WithinLimits RefusalsJustified
SYMMETRY Labels
