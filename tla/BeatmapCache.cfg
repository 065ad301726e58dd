SPECIFICATION Spec
CONSTANTS
    r1 = r1  r2 = r2
    b1 = b1  b2 = b2  s1 = s1
    None = None
    Requests = {r1, r2}
    Beatmaps = {b1, b2}
    Sets = {s1}
    SetOf <- MCSetOf
    Calls <- MCCalls
    MaxVersion = 1
    MaxRevocations = 2
    MaxCrashes = 1
INVARIANTS TypeOK SetsWhole AnswersHold RenewalSuffices PpFromWhole
SYMMETRY MCSymmetry
