CONSTANTS
    home = home
    top = top
    sub = sub
    new1 = new1
    new2 = new2
    new3 = new3
    a = a
    b = b
    out = out
    w1 = w1
    w2 = w2
    Home = home
    Inside = {home, top, sub, new1, new2, new3}
    Outside = Outside
    Names = {a, b}
    Links = {out}
    Target <- LinkTarget
    Mine = Mine
    Secret = Secret
    Torn = Torn
    Pipe = Pipe
    Nothing = Nothing
    None = None
    InitialTree <- Tree
    Sources <- Asked
    Targets <- Empty
    Workers = {w1, w2}
    MaxFds = 8
    MayFill = TRUE
    MaxMoves = 1
SPECIFICATION FairSpec
INVARIANTS
    OutsideUntouched
    DescriptorsReturned
    OkCopyIsWhole
PROPERTIES
    KeepsToItsOwn
    WalksEnd
CHECK_DEADLOCK FALSE
