\* Any client, one value: every shape of the tree.
SPECIFICATION Spec
CONSTANTS
    MaxHeight = 4
    None = None
    InMemory = InMemory
    Remove = Remove
    Keys <- FourKeys
    Values <- OneValue
    EmptyIdentifier = TRUE
    SafeRewrites = FALSE
    ReadErrors = {"set"}
INVARIANTS
    TypeOK
    IteratorOnKey
    NoFailure
    HandlesResolve
    OverlayIsCanonical
    CommittedTrieIsCanonical
