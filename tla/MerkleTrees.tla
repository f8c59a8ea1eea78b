----------------------------- MODULE MerkleTrees -----------------------------
(***************************************************************************)
(* Several trees in one database (src/trie/trees.rs): the rows of all of   *)
(* them lie in the same two columns, told apart only by the identifier     *)
(* their keys begin with (src/trie/trie_db.rs), and one commit writes them *)
(* in one batch.                                                           *)
(*                                                                         *)
(* A tree is given by its leaves: MerkleTree shows that its nodes are      *)
(* those of CanonicalTrie as long as every row it reads is its own.  So    *)
(* here a write goes through while the rows it reads are the tree's own,   *)
(* and fails where one of them is missing; what it does with a row that    *)
(* another tree has put in the place of its own, or without its root, is   *)
(* left out.  What is modelled byte by byte is the key of each row; the    *)
(* keys the client hands in are taken to start at a byte.                  *)
(***************************************************************************)
EXTENDS CanonicalTrie, FiniteSets

CONSTANTS
    Identifiers,   \* the identifiers of the trees: sequences of bytes
    Keys,          \* the keys the client uses in each of them
    Values,        \* the non-zero values it stores
    Remove,        \* InsertOrRemove::Remove
    BitsPerByte    \* 8 in the code

ASSUME KeysAssumption == Keys \in [Identifiers -> SUBSET Key]
ASSUME ValuesAssumption == Values \subseteq Felt \ {ZERO}
ASSUME ByteAssumption == BitsPerByte \in Nat \ {0}
ASSUME IdentifiersAssumption == Identifiers \subseteq Seq(Nat) /\ IsFiniteSet(Identifiers)

\* The rows of the Trie column: encoded nodes, the path of an edge in bytes.
NodeRow == [type : {"Binary"}, hash : Felt, height : Nat, next : [Directions -> Felt]]
             \cup [type : {"Edge"}, hash : Felt, height : Nat, path : Seq(Nat), child : Felt]

ASSUME RemoveAssumption == Remove \notin Felt /\ Remove # None /\ Remove \notin NodeRow

VARIABLES
    trie_column, flat_column,  \* the rows of the two columns, by their keys
    leaves,                    \* the leaves of each tree
    overlay,                   \* the paths of its nodes that are in memory
    cache_leaf_modified,       \* of each tree: its leaves changed since the commit
    death_row,                 \* of each tree: the Trie rows its commit removes
    committed                  \* ghost: the leaves of each tree at its last commit

columns == <<trie_column, flat_column>>
trees == <<leaves, overlay, cache_leaf_modified, death_row>>
vars == <<columns, trees, committed>>

(***************************************************************************)
(* The keys of the rows                                                    *)
(***************************************************************************)
BytesFor(n) == (n + BitsPerByte - 1) \div BitsPerByte

\* The j-th byte of a bit string, its first bit the highest, zeros behind the
\* last bit.
ByteAt(bits, j) ==
    LET value[n \in 0..BitsPerByte] ==
          IF n = 0 THEN 0
          ELSE LET at == (j - 1) * BitsPerByte + n
               IN  2 * value[n - 1] + (IF at <= Len(bits) THEN bits[at] ELSE 0)
    IN  value[BitsPerByte]

Packed(bits) == [j \in 1..BytesFor(Len(bits)) |-> ByteAt(bits, j)]

\* Mutant of EncodePath: a last byte that is not full is not written.
EncodeFullBytes(path) ==
    <<Len(path)>> \o [j \in 1..(Len(path) \div BitsPerByte) |-> ByteAt(path, j)]

\* Path::encode
EncodePath(path) == <<Len(path)>> \o Packed(path)

\* Bit n of a byte, the highest one first.
BitOf(byte, n) ==
    LET shifted[k \in 0..BitsPerByte] == IF k = 0 THEN byte ELSE shifted[k - 1] \div 2
    IN  shifted[BitsPerByte - n] % 2

\* Path::decode, None for an Err: the input is too short.
DecodePath(bytes) ==
    IF bytes = << >> THEN None
    ELSE IF Len(bytes) - 1 < BytesFor(bytes[1]) THEN None
    ELSE [n \in 1..bytes[1] |->
             BitOf(bytes[2 + ((n - 1) \div BitsPerByte)], 1 + ((n - 1) % BitsPerByte))]

\* The same bytes, but none at all for the path of the root.
bitslice_to_bytes(bits) == IF bits = << >> THEN << >> ELSE EncodePath(bits)

\* Mutant of TrieKey: the identifier is left out.
TrieKeyBare(identifier, key) == key

\* TrieKey::new; the column of a key is the variable it is looked up in.
TrieKey(identifier, key) == identifier \o key

TrieRow(i, path) == TrieKey(i, EncodePath(path))

FlatRow(i, key) == TrieKey(i, bitslice_to_bytes(key))

(***************************************************************************)
(* The values of the rows.  Node::encode: the path of an edge is encoded   *)
(* as in a key, everything else has an encoding of fixed length.           *)
(***************************************************************************)
EncodeNode(n) ==
    IF IsBinary(n) THEN n
    ELSE [type |-> "Edge", hash |-> n.hash, height |-> n.height,
          path |-> EncodePath(EdgePath(n)), child |-> EdgeChild(n)]

DecodeNode(row) ==
    IF row.type = "Binary" THEN row
    ELSE IF DecodePath(row.path) = None THEN NoNode
    ELSE EdgeNode(row.hash, row.height, DecodePath(row.path), row.child)

\* The node of tree i at a path: get_trie_branch_in_db_from_path without the
\* death row.
NodeInDb(i, path) ==
    IF TrieRow(i, path) \in DOMAIN trie_column
    THEN DecodeNode(trie_column[TrieRow(i, path)]) ELSE NoNode

FlatInDb(i, key) ==
    IF FlatRow(i, key) \in DOMAIN flat_column THEN flat_column[FlatRow(i, key)] ELSE None

(***************************************************************************)
(* Writing to a tree                                                       *)
(***************************************************************************)
NoLeaves == [k \in Key |-> None]

NoTrees == [i \in Identifiers |-> NoLeaves]

NoRows == [row \in {} |-> None]

Init ==
    /\ trie_column = NoRows /\ flat_column = NoRows
    /\ leaves = NoTrees /\ committed = NoTrees
    /\ overlay = [i \in Identifiers |-> {}]
    /\ cache_leaf_modified = NoTrees
    /\ death_row = [i \in Identifiers |-> {}]

NodePaths(m) == {p \in Path : HasNode(m, p)}

\* The nodes a seek to the key goes through (current_nodes_heights).
NodesTo(m, key) == {p \in Path : IsPrefixOf(p, key) /\ HasNode(m, p)}

Deepest(paths) == CHOOSE p \in paths : \A q \in paths : Len(q) <= Len(p)

\* An edge above the key is split: the row of the edge goes to the death row,
\* under a key without an identifier.
SplitRow(m, key) ==
    IF m[key] = None /\ m # NoLeaves THEN {bitslice_to_bytes(Deepest(NodesTo(m, key)))} ELSE {}

IsEdgeAt(m, p) == HasNode(m, p) /\ ~Branches(m, p)

\* The edge that ends in the leaf of the key, if its parent is not the branch.
FinalEdge(m, key) ==
    {p \in NodesTo(m, key) : p = Deepest(NodesTo(m, key)) /\ IsEdgeAt(m, p)}

\* The binary node above the leaf, and the nodes above that.
BranchNodes(m, key) == NodesTo(m, key) \ FinalEdge(m, key)

Branch(m, key) == Deepest(BranchNodes(m, key))

Sibling(m, key) ==
    LET b == Branch(m, key) IN Append(b, Invert(key[Len(b) + 1]))

\* Mutant of DeadPaths: the sibling is merged, but its row is forgotten.
DeadPathsNoSibling(m, key) ==
    LET branch == Branch(m, key)
        parents == BranchNodes(m, key) \ {branch}
    IN  IF BranchNodes(m, key) = {} THEN {<< >>}
        ELSE FinalEdge(m, key)
                 \cup (IF parents # {} /\ IsEdgeAt(m, Deepest(parents)) THEN {branch} ELSE {})

\* What delete_leaf puts on the death row: the edge to the leaf; the sibling,
\* if it is an edge, as the branch is merged with it; and the branch, if its
\* parent is an edge and merged with it.  Without a branch, the root.
DeadPaths(m, key) ==
    LET branch == Branch(m, key)
        parents == BranchNodes(m, key) \ {branch}
    IN  IF BranchNodes(m, key) = {} THEN {<< >>}
        ELSE FinalEdge(m, key)
                 \cup {p \in {Sibling(m, key)} : IsEdgeAt(m, p)}
                 \cup (IF parents # {} /\ IsEdgeAt(m, Deepest(parents)) THEN {branch} ELSE {})

DeadRows(i, m, key) == {TrieRow(i, p) : p \in DeadPaths(m, key)}

(***************************************************************************)
(* The rows a write reads                                                  *)
(***************************************************************************)
\* get_trie_branch_in_db_from_path
NodeSeen(i, p) == IF TrieRow(i, p) \in death_row[i] THEN NoNode ELSE NodeInDb(i, p)

\* The node is in memory, or is read back as the tree has it.
Found(i, p) == p \in overlay[i] \/ NodeSeen(i, p) = StoredTrie(leaves[i])[p]

Seeks(i, key) == \A p \in NodesTo(leaves[i], key) : Found(i, p)

\* merge_edges looks at the sibling, if there is a branch.
SeesSibling(i, key) ==
    BranchNodes(leaves[i], key) # {} => Found(i, Sibling(leaves[i], key))

\* The seek ends at a row that is not there ("Could not get node from db"),
\* with the nodes above it loaded.
SeekFails(i, key) ==
    \E p \in NodesTo(leaves[i], key) \ {<< >>} :
        LET above == {q \in NodesTo(leaves[i], key) : Len(q) < Len(p)}
        IN  /\ p \notin overlay[i] /\ NodeSeen(i, p) = NoNode
            /\ \A q \in above : Found(i, q)
            /\ overlay' = [overlay EXCEPT ![i] = @ \cup above]

\* The paths of the nodes in memory after a write to a key: a seek loads those
\* above the key, and what the write creates is in memory only.
InMemoryAfter(i, key, after) ==
    {p \in NodePaths(after) : \/ p \in overlay[i] \/ IsPrefixOf(p, key)
                              \/ ~HasNode(leaves[i], p)}

\* The leaf is overwritten in the cache alone, the trie is not touched.
SetCached(i, key, value) ==
    /\ cache_leaf_modified[i][key] \notin {None, Remove}
    /\ cache_leaf_modified' = [cache_leaf_modified EXCEPT ![i][key] = value]
    /\ UNCHANGED <<columns, leaves, overlay, death_row, committed>>

\* set compares the value with that of the database: with the same value it
\* returns early and changes nothing.
StartSet(i, key, value) ==
    /\ cache_leaf_modified[i][key] \in {None, Remove}
    /\ FlatInDb(i, key) # value

Set(i, key, value) ==
    /\ StartSet(i, key, value)
    /\ Seeks(i, key)
    /\ leaves' = [leaves EXCEPT ![i][key] = value]
    /\ overlay' = [overlay EXCEPT ![i] = InMemoryAfter(i, key, leaves'[i])]
    /\ cache_leaf_modified' = [cache_leaf_modified EXCEPT ![i][key] = value]
    /\ death_row' = [death_row EXCEPT ![i] = @ \cup SplitRow(leaves[i], key)]
    /\ UNCHANGED <<columns, committed>>

SetFails(i, key, value) ==
    /\ StartSet(i, key, value)
    /\ SeekFails(i, key)
    /\ UNCHANGED <<columns, leaves, cache_leaf_modified, death_row, committed>>

TreeHasValue(i, key) ==
    IF cache_leaf_modified[i][key] # None THEN cache_leaf_modified[i][key] # Remove
                                          ELSE FlatInDb(i, key) # None

DeleteLeaf(i, key) ==
    /\ TreeHasValue(i, key)
    /\ Seeks(i, key)
    /\ SeesSibling(i, key)
    /\ leaves' = [leaves EXCEPT ![i][key] = None]
    /\ overlay' = [overlay EXCEPT ![i] = InMemoryAfter(i, key, leaves'[i])]
    /\ cache_leaf_modified' = [cache_leaf_modified EXCEPT ![i][key] = Remove]
    /\ death_row' = [death_row EXCEPT ![i] = @ \cup DeadRows(i, leaves[i], key)]
    /\ UNCHANGED <<columns, committed>>

\* The leaf is marked as removed before the seek, and stays in the trie.
DeleteFails(i, key) ==
    /\ TreeHasValue(i, key)
    /\ SeekFails(i, key)
    /\ cache_leaf_modified' = [cache_leaf_modified EXCEPT ![i][key] = Remove]
    /\ UNCHANGED <<columns, leaves, death_row, committed>>

(***************************************************************************)
(* MerkleTrees::commit                                                     *)
(***************************************************************************)
\* get_updates: the death row first, so that a write of the same row replaces
\* the removal, then the nodes in memory, which commit_subtree visits.
TrieUpdates(i) ==
    LET new == StoredTrie(leaves[i])
        written == {TrieRow(i, p) : p \in overlay[i]}
        NodeAt(row) == new[CHOOSE p \in overlay[i] : TrieRow(i, p) = row]
    IN  [row \in death_row[i] \cup written |->
            IF row \in written THEN EncodeNode(NodeAt(row)) ELSE Remove]


FlatUpdates(i) ==
    LET modified == {k \in Key : cache_leaf_modified[i][k] # None}
        KeyOf(row) == CHOOSE k \in modified : FlatRow(i, k) = row
    IN  [row \in {FlatRow(i, k) : k \in modified} |->
            cache_leaf_modified[i][KeyOf(row)]]

\* The operations of a batch run in its order: the last on a row counts.
Overwrite(old, new) ==
    [row \in DOMAIN old \cup DOMAIN new |-> IF row \in DOMAIN new THEN new[row] ELSE old[row]]

\* The updates of the trees, in the order in which they go into the batch.
Batch(order, updates) ==
    LET rows[n \in 0..Len(order)] ==
          IF n = 0 THEN NoRows ELSE Overwrite(rows[n - 1], updates[order[n]])
    IN  rows[Len(order)]

\* Mutant of Written: a removal is stored like a value.
WrittenRaw(column, batch) == Overwrite(column, batch)

Written(column, batch) ==
    LET all == Overwrite(column, batch)
    IN  [row \in {r \in DOMAIN all : all[r] # Remove} |-> all[row]]

\* The trees are in a hash map and their updates are computed in parallel, so
\* they may come in any order.
Orders == {o \in [1..Cardinality(Identifiers) -> Identifiers] :
              \A i \in Identifiers : \E n \in DOMAIN o : o[n] = i}

\* get_updates empties the trees.
Unload ==
    /\ cache_leaf_modified' = NoTrees
    /\ overlay' = [i \in Identifiers |-> {}] /\ death_row' = [i \in Identifiers |-> {}]

Commit(order) ==
    /\ trie_column' = Written(trie_column, Batch(order, [i \in Identifiers |-> TrieUpdates(i)]))
    /\ flat_column' = Written(flat_column, Batch(order, [i \in Identifiers |-> FlatUpdates(i)]))
    /\ committed' = leaves
    /\ Unload
    /\ UNCHANGED leaves

\* An error of the database after get_updates, which drops the batch; or the
\* trees are forgotten without a commit (trees.clear(), a restart).
LoseChanges ==
    /\ leaves' = committed
    /\ Unload
    /\ UNCHANGED <<columns, committed>>

Next ==
    \/ \E i \in Identifiers : \E key \in Keys[i] :
          \/ \E value \in Values :
                SetCached(i, key, value) \/ Set(i, key, value) \/ SetFails(i, key, value)
          \/ DeleteLeaf(i, key) \/ DeleteFails(i, key)
    \/ \E order \in Orders : Commit(order)
    \/ LoseChanges

Spec == Init /\ [][Next]_vars

(***************************************************************************)
(* Listing a tree                                                          *)
(***************************************************************************)
\* Mutant of get_keys: the length of the key is left in front of it.
get_keys_with_length(i) ==
    {From(row, Len(i)) : row \in {r \in DOMAIN flat_column :
                                    IsPrefixOf(i, r) /\ Len(r) > Len(i)}}

\* get_keys, and the keys of get_key_value_pairs: the rows that begin with the
\* identifier, without it and without the byte of the key's length.
get_keys(i) ==
    {From(row, Len(i) + 1) : row \in {r \in DOMAIN flat_column :
                                        IsPrefixOf(i, r) /\ Len(r) > Len(i)}}

(***************************************************************************)
(* Properties                                                              *)
(***************************************************************************)
\* Rows are keyed by bytes and hold nodes and leaves, never a pending removal.
TypeOK ==
    /\ DOMAIN trie_column \subseteq Seq(Nat) /\ DOMAIN flat_column \subseteq Seq(Nat)
    /\ trie_column \in [DOMAIN trie_column -> NodeRow]
    /\ flat_column \in [DOMAIN flat_column -> Felt]
    /\ leaves \in [Identifiers -> [Key -> Felt \cup {None}]]
    /\ committed \in [Identifiers -> [Key -> Felt \cup {None}]]
    /\ overlay \in [Identifiers -> SUBSET Path]
    /\ cache_leaf_modified \in [Identifiers -> [Key -> Felt \cup {None, Remove}]]
    /\ DOMAIN death_row = Identifiers
    /\ \A i \in Identifiers : death_row[i] \subseteq Seq(Nat)

\* The trees with rows of their own: none is the row of another tree's node,
\* none is what a split puts on the death row, which has no identifier, and no
\* leaf of another tree is stored under a key that begins with the identifier.
Isolated ==
    {i \in Identifiers :
        /\ \A p, q \in Path : i \o EncodePath(p) # bitslice_to_bytes(q)
        /\ \A j \in Identifiers \ {i} :
              /\ \A p, q \in Path : i \o EncodePath(p) # j \o EncodePath(q)
              /\ \A k \in Key : LET row == j \o bitslice_to_bytes(k)
                                IN  ~(IsPrefixOf(i, row) /\ Len(row) > Len(i))}

\* Every node of the tree is read back as the tree committed it.
ReadsBack(i) ==
    LET stored == StoredTrie(committed[i])
    IN  \A p \in Path : NodeInDb(i, p) = stored[p]

\* Whatever the other trees write, remove and lose to each other, and in
\* whatever order the updates of the trees go into the batches, an isolated
\* tree reads back exactly the nodes it committed.
TriesSeparate == \A i \in Isolated : ReadsBack(i)

\* README: "Define multiple identifier to use multiple tries that have separate
\* root hash."
AllTriesSeparate == \A i \in Identifiers : ReadsBack(i)

\* No row is left behind: each belongs to a node of some tree.  What
\* delete_leaf puts on the death row is enough, for every shape of the tree.
NoStrayRows ==
    \A row \in DOMAIN trie_column :
        \E i \in Identifiers : \E p \in NodePaths(committed[i]) : row = TrieRow(i, p)

\* Trees whose rows collide lose rows to each other, yet each row that is left
\* is read back as the node its tree committed.
RowsAreOwn ==
    \A i \in Identifiers :
        LET stored == StoredTrie(committed[i])
        IN  \A p \in Path : NodeInDb(i, p) \in {NoNode, stored[p]}


\* lib.rs: "Get all the keys in a specific trie."  Exactly the keys of an
\* isolated tree are listed.  The FIXME at get_keys and get_key_value_pairs, that
\* with HashMapDb nodes are listed too "due to branches and leafs not being
\* differenciated", does not apply: they ask for DatabaseKey::Flat, and
\* HashMapDb::get_by_prefix looks in the map of that column only.
KeysListed ==
    \A i \in Isolated :
        get_keys(i) = {Packed(k) : k \in {k \in Key : committed[i][k] # None}}
=============================================================================
