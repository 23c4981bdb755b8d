CONSTANTS
    Oracles <- SigOracles
    Contracts <- SigContracts
    CallStatuses = {"OK", "REJECT"}
SPECIFICATION Spec
CHECK_DEADLOCK FALSE
INVARIANTS
    ApiUnsupportedIsNotFailure
