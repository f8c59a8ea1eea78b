\* Any client, two values: is the trie that of the flat database?
SPECIFICATION Spec
CONSTANTS
    MaxHeight = 2
    None = None
    InMemory = InMemory
    Remove = Remove
    Keys <- AllKeys
    Values <- TwoValues
    EmptyIdentifier = TRUE
    SafeRewrites = FALSE
    ReadErrors = {}
INVARIANT TrieAgreesWithFlat
