\* A client that avoids the unsafe rewrites, two values; every call ends.
SPECIFICATION FairSpec
CONSTANTS
    MaxHeight = 3
    None = None
    InMemory = InMemory
    Remove = Remove
    Keys <- ThreeKeys
    Values <- TwoValues
    EmptyIdentifier = FALSE
    SafeRewrites = TRUE
    ReadErrors = {"set"}
INVARIANTS
    ReadsLatestWrite
    TrieAgreesWithFlat
PROPERTIES
    ImplementsLeafMap
    CallsForgetNothing
    CallsTerminate
