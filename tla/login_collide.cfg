CONSTANTS
    s1 = s1  s2 = s2  p1 = p1  p2 = p2  p3 = p3  u1 = u1  u2 = u2
    Users = {u1, u2}
    Passwords = {p1, p3}
    TooLong = {p3}
    UidHash <- SameHash
    Offset = 5
    MaxUint32 = 9
    DefaultExpiration = 1
    PurgeMultiplier = 1
    MaxDuration = 6
    Procs = {s1, s2}
    ShadowModeOf <- AllRoot
    Configs <- DefaultConfig
    Unset = Unset
    None = None
    Actors = {"nss"}
    MayCrash = FALSE
    MaxDay = 2
SYMMETRY Alike
SPECIFICATION Spec
INVARIANTS TypeOK SearchIsShort OneIdPerName EveryUserComplete ShadowHasUser NssAnswersAgree CachedCredentialIsOwn
