CONSTANTS
    s1 = s1  p1 = p1  p2 = p2  u1 = u1  u2 = u2
    Users = {u1, u2}
    Passwords = {p1, p2}
    TooLong = {}
    UidHash <- SameHash
    Offset = 5
    MaxUint32 = 9
    DefaultExpiration = 1
    PurgeMultiplier = 1
    MaxDuration = 6
    Procs = {s1}
    ShadowModeOf <- AllRoot
    Configs <- DefaultConfig
    Unset = Unset
    None = None
    Actors = {"cli"}
    MayCrash = TRUE
    MaxDay = 2
SPECIFICATION TornSpec
INVARIANTS CredentialIsOwn RefusedOnlyIfTorn
PROPERTIES OpeningHeals
