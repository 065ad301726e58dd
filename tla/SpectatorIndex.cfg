\* Two connections of the one hub user, which may watch itself or another user.
CONSTANTS
    None = None
    HubUser = u2
    Conns = {c1, c2}
    Users = {u2, u3}
    UserOf <- MCUserOf
    MaxFaults = 0
    KeysLapse = FALSE
SPECIFICATION Spec
INVARIANT BidirectionalIndex
CHECK_DEADLOCK FALSE
