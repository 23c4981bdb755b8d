SPECIFICATION FairSpec
CONSTANTS
    Replays = {r1, r2}
    NativeTraces <- SomeTraces
    Absent = Absent
INVARIANTS VerdictIsOwn CleanIsEarned FindingPublished
PROPERTY ReplayEnds
CHECK_DEADLOCK FALSE
