\* One producer task and the processing thread on a ring of 4 slots.
CONSTANTS
    Producers = {p1}
    Updates = {u1, u2}
    Size = 4
    None = None
    Torn = Torn
SPECIFICATION FairSpec
INVARIANT TypeOK
INVARIANT NoSlotRace
INVARIANT NoOverwrite
PROPERTY FifoRefinement
PROPERTY AcceptedIsPopped
