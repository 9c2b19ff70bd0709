CONSTANTS
    Loop = Loop
    r1 = r1
    u1 = u1
    u2 = u2
    Callers = {Loop, r1}
    Urls = {u1, u2}
    None = None
    Empty = Empty
    Mangled = Mangled
    Ttl = 2
    MaxTime = 2
    MaxEvents = 2
    Every = 2
    MaxBackoff = 2
SPECIFICATION FairSpec
INVARIANTS
    AnswersAreRecent
    NeverForgets
PROPERTIES
    PaceRecovers
CHECK_DEADLOCK FALSE
