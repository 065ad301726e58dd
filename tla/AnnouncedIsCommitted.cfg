\* Two submissions, each for any of three tokens; t3 has no game mode.
CONSTANTS
    t1 = t1
    t2 = t2
    t3 = t3
    u1 = u1
    u2 = u2
    b1 = b1
    b2 = b2
    Requests = {r1, r2}
    Tokens <- MCTokens
    Users = {u1, u2}
    Beatmaps = {b1, b2}
    TokenUser <- MCTokenUser
    TokenBeatmap <- MCTokenBeatmap
    NoGameMode = {t3}
    UpstreamPlays <- MCUpstreamPlays
    Absent = Absent
    Unused = Unused
    MaxFailures = 1
SPECIFICATION Spec
INVARIANT AnnouncedIsCommitted
CHECK_DEADLOCK FALSE
