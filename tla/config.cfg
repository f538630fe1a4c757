CONSTANTS
    e1 = e1  e2 = e2  i1 = i1  i2 = i2  i3 = i3  i4 = i4  d1 = d1
    Domains = {d1}
    Editors = {e1, e2}
    Texts <- SomeTexts
    Garbage = Garbage
    Inodes = {i1, i2, i3, i4}
    None = None
SPECIFICATION Spec
SYMMETRY Alike
INVARIANTS InstalledLoads
PROPERTIES InstalledIsReplaced
