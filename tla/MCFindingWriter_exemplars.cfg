SPECIFICATION Spec
CONSTANTS
    k1 = k1
    k2 = k2
    d1 = d1
    d2 = d2
    Keys = {k1}
    Dirs = {d1}
    DirOf <- OneKey
    Inputs = {i1, i2, i3}
    Base = Base
    Absent = Absent
    Torn = Torn
    NoCall = NoCall
    NoDir = NoDir
    SaveModes = {"grouped", "all"}
    MaxExemplars = 2
    FlushInterval = 3
    Faults = {"short", "crash"}
    MaxHits <- Three
    MaxRestarts = 1
SYMMETRY Symmetric
INVARIANTS RowHasExemplar ExemplarsBounded NamedExemplarIntact
CHECK_DEADLOCK FALSE
