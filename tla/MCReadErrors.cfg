\* The database fails to read nodes in any write.
SPECIFICATION FairSpec
CONSTANTS
    MaxHeight = 3
    None = None
    InMemory = InMemory
    Remove = Remove
    Keys <- ThreeKeys
    Values <- OneValue
    EmptyIdentifier = FALSE
    SafeRewrites = TRUE
    ReadErrors = {"set", "remove"}
INVARIANTS
    CommittedTrieIsCanonical
    ReadsLatestWrite
    ReadsAreInTrie
PROPERTY CallsTerminate
