CONSTANTS
    Oracles <- AllOracles
    Contracts <- AllContracts
    CallStatuses = {"OK", "REJECT", "CRASH", "TIMEOUT", "API_UNSUPPORTED"}
SPECIFICATION Spec
CHECK_DEADLOCK FALSE
INVARIANTS
    ExchangeWithinContract
    HonestPairIsCleared
    DeviationIsReported
    PassNeedsEvidence
    ClassifierAgrees
