CONSTANTS
    PairFiles <- PairFilesDef
    Runtime = "liboqs"
    Registry <- MCRegistry
    CampaignJobs <- CampaignJobsDef
    Inputs <- InputsDef
    MaxCommands = 3
    None = None
    Torn = Torn
SPECIFICATION Spec
INVARIANTS
    JobPerPair
    BuildFollowsJob
    OwnFindingReplays
    ReplayRepeatsFinding
    MutationConfined
    SureOperationsAlter
CHECK_DEADLOCK FALSE
