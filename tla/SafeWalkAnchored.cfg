CONSTANTS
    r = r
    d1 = d1
    f = f
    fifo = fifo
    abs = abs
    here = here
    over = over
    a = a
    b = b
    Home = b
    Missing = Missing
    LongestLink = 2
    Up = Up
    Absolute = Absolute
    None = None
    Outside = Outside
    Root = r
    Dirs = {r, d1}
    Files = {f, fifo}
    Pipes = {fifo}
    Links = {abs, over, here}
    Names = {a, b}
    Target <- LinkTarget
    Paths <- ShortPaths
    MaxHops = 2
SPECIFICATION FairSpec
INVARIANTS
    StaysInside
    NoDescriptorLeft
    WalkWithinFallback
PROPERTY WalkEnds
