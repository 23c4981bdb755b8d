SPECIFICATION FairSpec
CONSTANTS
    v14 = v14
    v8 = v8
    Campaigns <- TwoVersions
    NoSig = {v8}
    Absent = Absent
    Faults <- FaultsPerVersion
INVARIANTS SuccessIsReal SummaryIsFinal
PROPERTIES FinishedIsFinal ScriptEnds
CHECK_DEADLOCK FALSE
