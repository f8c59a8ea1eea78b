\* Proofs of committed trees, between any other calls.
SPECIFICATION FairProofSpec
CONSTANTS
    MaxHeight = 4
    None = None
    InMemory = InMemory
    Remove = Remove
    Keys <- DeepKeys
    Values <- OneValue
    EmptyIdentifier = FALSE
    SafeRewrites = TRUE
    ReadErrors = {"set", "proof"}
    ProofKeys <- DeepAskedKeys
    MaxProofKeys = 2
INVARIANTS
    ProofsVerify
    SeeksTheLeaf
    IteratorOnPath
    NoFailure
    CommittedTrieIsCanonical
PROPERTIES
    ProofsReturn
    ProofsChangeNoLeaf
