SPECIFICATION Spec
CONSTANTS
    MaxBytes = 9
    Chunk = 3
    Keep = 5
    Size = 4
    Grow = 3
    ArraySize = 5
    Word = 2
    Gaps = {0, 1, 2}
    Junk = Junk
    Timeout = 2
    Spots <- MCSpots
INVARIANTS TypeOK Judged HandedOver
PROPERTY Exchange
