CONSTANTS
    d = d
    x = x
    z = z
    Up = Up
    Nothing = Nothing
    Dir = Dir
    Kept = Kept
    Part = Part
    Parts = {d, x, z}
    Depth = 3
    ZipPath <- TwoParts
    Dest <- JustD
    MaxFiles = 3
    MaxBytes = 3
    Archives <- MCArchives
    Homes <- MCHomes
SPECIFICATION UnzipSpec
INVARIANTS
    BadArchiveWritesNothing
    OkMeansUnpacked
