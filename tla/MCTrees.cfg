\* The empty identifier of the examples beside another one: a tree that loses
\* rows to the other, and one that is isolated.
SPECIFICATION Spec
CONSTANTS
    MaxHeight = 2
    None = None
    InMemory = InMemory
    Remove = Remove
    BitsPerByte = 2
    Keys <- ShortKeys
    Values <- OneValue
    Identifiers <- EmptyAndOther
INVARIANTS
    TypeOK
    NoStrayRows
    KeysListed
    TriesSeparate
    RowsAreOwn
    
