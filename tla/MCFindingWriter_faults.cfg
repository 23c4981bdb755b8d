SPECIFICATION Spec
CONSTANTS
    k1 = k1
    k2 = k2
    d1 = d1
    d2 = d2
    Keys = {k1, k2}
    Dirs = {d1}
    DirOf <- OneDir
    Inputs = {i1, i2}
    Base = Base
    Absent = Absent
    Torn = Torn
    NoCall = NoCall
    NoDir = NoDir
    SaveModes = {"grouped"}
    MaxExemplars = 1
    FlushInterval = 2
    Faults = {"artifact", "counter", "crash"}
    MaxHits <- ThreeAndOne
    MaxRestarts = 1
SYMMETRY Symmetric
INVARIANTS LossBounded FirstExemplarIntact CrashHidesOnlyTheCall
PROPERTY CountsSpec
CHECK_DEADLOCK FALSE
