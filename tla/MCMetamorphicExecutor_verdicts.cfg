CONSTANTS
    Oracles <- AllOracles
    Targets <- AllTargets
    FaultStatuses = {"REJECT", "INVALID_INPUT", "API_UNSUPPORTED", "CRASH", "TIMEOUT"}
SPECIFICATION Spec
INVARIANTS
    OneFieldExperiment
    SensitiveTargetIsCleared
    IgnoredFieldIsReported
