\* Two producer tasks and the processing thread on a ring of 4 slots.
CONSTANTS
    Producers = {p1, p2}
    Updates = {u1, u2}
    Size = 4
    None = None
    Torn = Torn
SPECIFICATION FairSpec
INVARIANT NoOverwrite
