CONSTANTS
    r1 = r1
    r2 = r2
    w1 = w1
    w2 = w2
    None = None
    Roots = {r1, r2}
    Workers = {w1, w2}
    TTL = 2
    Limit = 1
    Partial = TRUE
    Shell = TRUE
    MaxTime = 3
    MaxSize = 1
SPECIFICATION Spec
INVARIANTS
    AnswersAreRecent
    CountsWhatWasTold
SYMMETRY Swaps
