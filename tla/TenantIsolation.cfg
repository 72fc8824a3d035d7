\* Two processes migrating, tightening, serving and crashing; one pooled
\* connection that every kind of transaction reuses; two tenants.
CONSTANTS
    Tenants = {t1, t2}
    Processes = {p1, p2}
    Conns = {c1}
    BClassTables <- MCStrict
    CClassTable = "config_keys"
    SessionsTable = "sessions"
    TenantFKs <- MCEdges
    RowSets <- MCRowSets
    Null = Null
    NoRow = NoRow
    None = None
SYMMETRY IsolationSymmetry
SPECIFICATION PartSpec
INVARIANTS TypeOK SeesWhatItShould NoCrossTenantPair NothingHidden
PROPERTIES TenantLeavesOwnRows
