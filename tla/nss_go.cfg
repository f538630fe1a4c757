CONSTANTS
    Threads = {t1, t2}
    Users = {u1, u2}
    Databases = {"group", "shadow"}
    MaxConns = 4
    MaxIdle = 2
    Rights = {0, 1}
    None = None
SYMMETRY Alike
SPECIFICATION Spec
INVARIANTS TypeOK CursorIsInUse UsesAreCounted AloneHasShadow
PROPERTIES EnumerationIsWhole
