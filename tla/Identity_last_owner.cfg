\* Two platform administrators at once.
CONSTANTS
    Members = {m1, m2}
    Platform = {p1, p2}
    Portal = {}
    Logins = {}
    MaxResets = 0
    None = None
SPECIFICATION Spec
PROPERTIES OwnerRemains
