CONSTANTS
    a = a
    b = b
    f1 = f1
    f2 = f2
    l = l
    w1 = w1
    w2 = w2
    None = None
    Old = Old
    Torn = Torn
    Names = {a, b}
    Files = {f1, f2}
    Links = {l}
    Target <- LinkToB
    Workers = {w1, w2}
    Kinds = {"upload", "write", "move", "copy", "remove"}
    ShellNames = {a}
    Cap = 1
    MaxLen = 2
    Faults = {"nospace", "short"}
SPECIFICATION Spec
INVARIANTS
    RejectedLeavesNothing
    StoredIsSent
    CopyIsWhole
PROPERTIES
    CopyNeverOverwrites
    MoveLosesNothing
SYMMETRY FilesAndWorkers
