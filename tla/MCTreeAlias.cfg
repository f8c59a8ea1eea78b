\* The identifier of the examples beside another one.
SPECIFICATION Spec
CONSTANTS
    MaxHeight = 3
    None = None
    InMemory = InMemory
    Remove = Remove
    BitsPerByte = 2
    Keys <- KeysOfTrees
    Values <- OneValue
    Identifiers <- EmptyAndOther
INVARIANTS
    AllTriesSeparate
