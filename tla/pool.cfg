CONSTANTS
    Clients = {c1, c2, c3}
    Sigs = {a, b}
    Handles = {h1, h2}
    None = None
    MaxTimers = 2
SPECIFICATION FairSpec
INVARIANTS TypeOK UsedIsOpen CountIsExact OpenIsRegistered IdleHasTimer
PROPERTIES IdleCloses ImplementsService
