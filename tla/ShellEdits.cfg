CONSTANTS
    index = index
    app = app
    r1 = r1
    r2 = r2
    Index = index
    Assets = {app}
    Requests = {r1, r2}
    None = None
    A = A
    B = B
    Contents = {A, B}
    Missing = Missing
    MaxEdits = 2
SPECIFICATION Spec
SYMMETRY Sym
INVARIANTS
    LoadsAreCurrent
CHECK_DEADLOCK FALSE
