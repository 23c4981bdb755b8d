SPECIFICATION Spec
CONSTANTS
    Tapes <- SmallTapes
    Libraries <- BothLibraries
    MaxScopes = 2
    MaxServed = 3
    MaxLogged = 2
INVARIANTS
    ScopesBalanced
    DrawsUnderTape
    DrawsIdentifyTape
PROPERTY
    StreamSpec
