\* Two connections of the one hub user; a presence lives two loop timeouts.
CONSTANTS
    None = None
    NoActivity = NoActivity
    Online = online
    HubUser = u2
    Users = {u2}
    Conns = {c1, c2}
    UserOf <- MCUserOf
    Activities = {play}
    Statuses = {online, dnd}
    Ttl = 2
    MaxFaults = 1
SPECIFICATION FairSpec
INVARIANTS
    TypeOK
    PresenceKept
    WatchingAgrees
    PresenceBacked
PROPERTIES
    GhostsLapse
    PresenceIsALease
CHECK_DEADLOCK FALSE
