CONSTANTS
    s1 = s1
    s2 = s2
    s3 = s3
    host1 = host1
    root = root
    u1 = u1
    p1 = p1
    b1 = b1
    NoSlot = NoSlot
    NoUser = NoUser
    NoPort = 0
    Names = {s1, s2, s3}
    Reserved = {}
    Foreign = {}
    Logins = {}
    Panel = {p1}
    Bot = {}
    Base = 2
    Top = 3
    Faults = {}
SPECIFICATION FairSpec
INVARIANT YouAreTheSlotUser
PROPERTY ShellComesUp
