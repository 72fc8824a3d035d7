\* One platform administrator and one portal user at a time.
CONSTANTS
    Members = {m1, m2}
    Platform = {p1}
    Portal = {t1}
    Logins = {l1}
    MaxResets = 1
    None = None
SYMMETRY IdentitySymmetry
SPECIFICATION Spec
INVARIANTS AuditIsHistory StaleSessionsRaced
PROPERTIES OwnerRemains OwnersByPlatform
