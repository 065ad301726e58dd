\* Two connections of the one hub user, which may watch itself or another user.
CONSTANTS
    None = None
    HubUser = u2
    Conns = {c1, c2}
    Users = {u2, u3}
    UserOf <- MCUserOf
    MaxFaults = 1
    KeysLapse = TRUE
SPECIFICATION FairSpec
INVARIANTS
    TypeOK
    RegistrySound
    NoLeak
    PlayingBacked
    IndexAgrees
    NoEternalKey
PROPERTY CleanupCompletes
CHECK_DEADLOCK FALSE
