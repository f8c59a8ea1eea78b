\* Any client: does a read return the latest write?
SPECIFICATION Spec
CONSTANTS
    MaxHeight = 2
    None = None
    InMemory = InMemory
    Remove = Remove
    Keys <- AllKeys
    Values <- OneValue
    EmptyIdentifier = TRUE
    SafeRewrites = FALSE
    ReadErrors = {}
INVARIANT ReadsLatestWrite
