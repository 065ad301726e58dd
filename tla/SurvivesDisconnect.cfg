\* A connection of the one hub user that ends and another that follows it.
CONSTANTS
    None = None
    HubUser = u2
    Conns = {c1, c2}
    Users = {u2, u3}
    UserOf <- MCUserOf
    MaxFaults = 0
    KeysLapse = FALSE
SPECIFICATION FairSpec
PROPERTY StateSurvivesDisconnect
CHECK_DEADLOCK FALSE
