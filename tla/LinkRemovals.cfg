SPECIFICATION Spec
CONSTANTS
    None = None
    Clients = {c1, c2}
    Vms = {u1, u2, u3}
    Names = {n1, n2, n3}
    Aliases = {x}
    Requests <- Removals
    MaxFailures = 1
    MaxLinks = 0
INVARIANTS RowsOfTheLiving
SYMMETRY Labels
