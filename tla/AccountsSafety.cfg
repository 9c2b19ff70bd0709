CONSTANTS
    a1 = a1
    a2 = a2
    s1 = s1
    t1 = t1
    r1 = r1
    r2 = r2
    Nobody = Nobody
    Free = Free
    Ids = {a1, a2}
    Sids = {s1}
    Tids = {t1}
    Reqs = {r1, r2}
    MaxPw = 1
    MaxSetup = 1
    Faults = {"crash", "unlink"}
SPECIFICATION Spec
INVARIANTS
    SessionsHaveUsers
    SetupTokenOnce
PROPERTIES
    LastAdminStays
    RotationRevokes
    ExpiredStaysDead
    MustChangeBlocksLogin
SYMMETRY Symmetric
