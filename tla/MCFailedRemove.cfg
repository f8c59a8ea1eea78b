\* A removal fails to read a node: is the trie that of the flat database?
SPECIFICATION Spec
CONSTANTS
    MaxHeight = 2
    None = None
    InMemory = InMemory
    Remove = Remove
    Keys <- AllKeys
    Values <- OneValue
    EmptyIdentifier = TRUE
    SafeRewrites = TRUE
    ReadErrors = {"remove"}
INVARIANT TrieAgreesWithFlat
