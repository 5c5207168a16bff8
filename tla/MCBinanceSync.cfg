SPECIFICATION Spec
CONSTANTS
    t1 = t1
    noprev = noprev
    NoPrev = noprev
    Tasks = {t1}
    Events <- MCEvents
    MaxId = 5
    MaxBuffer = 3
INVARIANTS
    TypeOK
    SynchronizedIsCurrent
 
