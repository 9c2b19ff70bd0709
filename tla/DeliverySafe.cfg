CONSTANTS
    Absent = Absent
    Bad = Bad
    MaxSize = 4
    Chunk = 2
SPECIFICATION FairDelivery
INVARIANTS
    RangeIsWhatWasAsked
    BodyFitsItsLength
PROPERTY ClosedAtLast
