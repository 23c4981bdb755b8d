SPECIFICATION FairSpec
CONSTANTS
    lf = lf
    ct = ct
    Campaigns <- TwoCampaigns
    Baseline <- TwoBaselines
    x = x
    Crashes <- CrashFiles
    SaveModes = {"compact", "all"}
    Absent = Absent
    Faults <- FaultsPerBaseline
INVARIANTS SuccessIsReal CompactedUnlessCut EvidenceKept
PROPERTY ScriptEnds
CHECK_DEADLOCK FALSE
