SPECIFICATION FairSpec
CONSTANTS
    k1 = k1
    k2 = k2
    d1 = d1
    d2 = d2
    Keys = {k1, k2}
    Dirs = {d1, d2}
    DirOf <- TwoDirs
    Inputs = {i1, i2}
    Base = Base
    Absent = Absent
    Torn = Torn
    NoCall = NoCall
    NoDir = NoDir
    SaveModes = {"grouped"}
    MaxExemplars = 1
    FlushInterval = 3
    Faults = {"artifact"}
    MaxHits <- ThreeEach
    MaxRestarts = 0
INVARIANTS ExitPublishesAll FastReportExact
PROPERTY EventuallyCounted
CHECK_DEADLOCK FALSE
