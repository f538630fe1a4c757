CONSTANTS
    c1 = c1  c2 = c2  h1 = h1  h2 = h2  h3 = h3
    Clis = {c1, c2}
    Paths = {h1, h2, h3}
    DefaultHome = h1
    Device <- TwoDisks
    MoveHome = {TRUE, FALSE}
    None = None
SPECIFICATION Spec
SYMMETRY Alike
INVARIANTS FilesAreAHome 
PROPERTIES BusyHomeStays MovedIsRecorded
