CONSTANTS
    r1 = r1
    r0 = r0
    s1 = s1
    Openers = {r1, r0, s1}
    Kind <- TwoRoots
    Inodes = {i1, i2, i3}
    None = None
    NeverPurge = {r0}
    CreatedMode = "0644"
    Crashes = TRUE
SPECIFICATION Spec
SYMMETRY Alike
CHECK_DEADLOCK FALSE
INVARIANTS TypeOK OpenedIsCurrent RecordedIsProtected RecordedIsServed WritableHasTables
PROPERTIES RecordedStays
