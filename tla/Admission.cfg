\* Two callers over two tenants; requests with the secrets of one key.
CONSTANTS
    Tenants = {t1, t2}
    Spellings = {"acme", "Acme", "beta"}
    Callers = {c1, c2}
    Dates = {1}
    Fold <- MCFold
    None = None
    VKeys = {k1}
    Rotations = 1
    Grace = 1
    Expiries = {1}
    MaxTime = 2
    Focus = t1
    Admin = c1
SPECIFICATION PartSpec
INVARIANTS RegistryTypeOK TrialHasEnd AdmittedWasEntitled GoodKeyIsAdmitted
PROPERTIES NoWayBack
