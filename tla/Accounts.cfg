\* Three requests, any of which may overlap, and two reset tokens.
CONSTANTS
    None = None
    a1 = a1  a2 = a2  u1 = u1  bot = bot  new = new
    n1 = n1  n2 = n2  n3 = n3  n4 = n4  n5 = n5
    Ids = {a1, a2, u1, bot, new}
    Members = {a1, a2, u1, bot}
    Admins = {a1, a2}
    Bots = {bot}
    Names = {n1, n2, n3, n4, n5}
    NameOf <- MCNameOf
    Tokens = {t1, t2}
    Requests = {r1, r2, r3}
    Calls <- MCCalls
    MaxFriends = 1
SPECIFICATION Spec
SYMMETRY Symmetry
INVARIANTS
    TypeOK
    FriendOrFoe
    LimitsHold
    LinksSingleUse
    AdminRemains
    AccountsComplete
    AvatarStored
PROPERTY BlocksStick
CHECK_DEADLOCK FALSE
