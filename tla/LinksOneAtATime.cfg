SPECIFICATION EmptySpec
CONSTANTS
    None = None
    Clients = {c1}
    Vms = {u1, u2, u3}
    Names = {n1, n2, n3}
    Aliases = {x, y}
    Requests <- Everything
    MaxFailures = 0
    MaxLinks = 1
INVARIANTS TypeOK RowsResolve
PROPERTIES StartsMeetLinks
SYMMETRY Labels
