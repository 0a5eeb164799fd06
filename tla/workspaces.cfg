SPECIFICATION Spec
CONSTANTS
    Clients = {c1, c2}
    Bases = {b1, b2}
    Leases = {l1, l2}
    NoLease = NoLease
SYMMETRY WorkspaceSymmetry
INVARIANTS TypeOK  LeaseProtects
