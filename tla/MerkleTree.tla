----------------------------- MODULE MerkleTree -----------------------------
(***************************************************************************)
(* One Merkle tree of the trie (src/trie/tree.rs): the nodes and leaves it *)
(* has in the database, and the in-memory overlay that `set` and           *)
(* `delete_leaf` build until a commit hashes it and writes it back.        *)
(*                                                                         *)
(* A call is a chain of steps: the nodes on the way to the key are loaded  *)
(* one at a time (src/trie/iterator.rs), then the tree is changed.  Calls  *)
(* take `&mut self`, so no other call runs between two steps; the process  *)
(* may stop between any two of them.  Only hashing runs in parallel        *)
(* (rayon::join), and its steps interleave.                                *)
(*                                                                         *)
(* A slot of `nodes` is identified with the path of the node it holds: an  *)
(* InMemory handle found at path p under label l denotes the slot of the   *)
(* node at p \o l.  No operation moves a node to another path.             *)
(***************************************************************************)
EXTENDS CanonicalTrie

CONSTANTS
    Keys,             \* the keys the client uses
    Values,           \* the non-zero values it stores
    Remove,           \* InsertOrRemove::Remove
    EmptyIdentifier,  \* TRUE for the tree whose identifier is the empty string
    SafeRewrites,     \* TRUE if the client avoids the rewrites of UnsafeRewrite
    ReadErrors        \* the calls in which the database may fail to read a node

ASSUME KeysAssumption == Keys \subseteq Key
ASSUME ValuesAssumption == Values \subseteq Felt \ {ZERO}
ASSUME RemoveAssumption == Remove \notin Felt /\ Remove # None
ASSUME FlagsAssumption == EmptyIdentifier \in BOOLEAN /\ SafeRewrites \in BOOLEAN
ASSUME ReadErrorsAssumption == ReadErrors \subseteq {"set", "remove", "proof"}

VARIABLES
    trie_db,              \* this tree's part of the Trie column
    flat_db,              \* this tree's part of the Flat column
    root_node,            \* "None": not loaded, "Empty", or "Loaded" (at << >>)
    nodes,                \* in-memory nodes, by path
    death_row,            \* paths to remove from trie_db at the next commit
    cache_leaf_modified,  \* leaves changed since the last commit
    pc,                   \* where the running call is, "Idle" between calls
    args,                 \* its key and its value, ZERO for a deletion
    current_path,         \* the iterator's current_path
    current_nodes_heights,\* the heights of the nodes it went through
    hashes,               \* compute_hashes: the hashes of the subtree at a path
    updates,              \* get_updates: what the commit does to trie_db
    failed,               \* some call met an error or a panic
    latest                \* ghost: what the client last asked for each key

db == <<trie_db, flat_db>>
tree == <<root_node, nodes, death_row, cache_leaf_modified>>
iter == <<args, current_path, current_nodes_heights>>
commit == <<hashes, updates>>
vars == <<db, tree, iter, commit, pc, failed, latest>>

(***************************************************************************)
(* Types and the initial state: an empty database, nothing loaded.         *)
(***************************************************************************)
NoArgs == [key |-> [i \in 1..MaxHeight |-> 0], value |-> ZERO]

NoNodes == [p \in Path |-> NoNode]

NoHashes == [p \in Path |-> << >>]

NoChange == [type |-> "NoChange"]

NoUpdates == [p \in Path |-> NoChange]

NoLeaves == [k \in Key |-> None]

Init ==
    /\ trie_db = NoNodes /\ flat_db = NoLeaves
    /\ root_node = "None" /\ nodes = NoNodes /\ death_row = {}
    /\ cache_leaf_modified = NoLeaves
    /\ pc = "Idle" /\ args = NoArgs
    /\ current_path = << >> /\ current_nodes_heights = << >>
    /\ hashes = NoHashes /\ updates = NoUpdates
    /\ failed = FALSE /\ latest = NoLeaves

\* A node stored at path p: it knows its height and its arcs stay in the tree.
IsNodeAt(n, p) ==
    /\ n.hash \in Felt \cup {None}
    /\ n.height = Len(p)
    /\ \/ IsBinary(n) /\ DOMAIN n.next = Directions
       \/ IsEdge(n) /\ \E l \in Path \ {<< >>} : DOMAIN n.next = {l}
    /\ \A l \in DOMAIN n.next : p \o l \in Path /\ n.next[l] \in NodeHandle

\* A function from paths to nodes, or to one of the records in `others`.
IsNodeMap(f, others) ==
    DOMAIN f = Path /\ \A p \in Path : f[p] \in others \/ IsNodeAt(f[p], p)

TypeOK ==
    /\ IsNodeMap(trie_db, {NoNode})
    /\ flat_db \in [Key -> Felt \cup {None}]
    /\ root_node \in {"None", "Empty", "Loaded"}
    /\ IsNodeMap(nodes, {NoNode})
    /\ death_row \subseteq Path
    /\ cache_leaf_modified \in [Key -> Felt \cup {None, Remove}]
    /\ pc \in {"Idle", "LoadRoot", "Traverse", "Finish",
               "Hash", "CommitSubtree", "Write"}
    /\ args \in [key : Key, value : Felt]
    /\ current_path \in Path
    /\ current_nodes_heights \in Seq(0..(MaxHeight - 1))
    /\ hashes \in [Path -> Seq(Felt)]
    /\ IsNodeMap(updates, {NoNode, NoChange})
    /\ failed \in BOOLEAN
    /\ latest \in [Key -> Felt \cup {None}]

(***************************************************************************)
(* Reading                                                                 *)
(***************************************************************************)
\* Mutant of get: a pending removal falls through to the database.
getDespiteRemoval(key) ==
    IF cache_leaf_modified[key] \in {None, Remove} THEN flat_db[key]
                                                  ELSE cache_leaf_modified[key]

\* MerkleTree::get: the value a client reads.
get(key) ==
    CASE cache_leaf_modified[key] = Remove -> None
      [] cache_leaf_modified[key] = None -> flat_db[key]
      [] OTHER -> cache_leaf_modified[key]

\* load_db_node and get_trie_branch_in_db_from_path: a node on death row is
\* not there any more.
DbNode(p) == IF p \in death_row THEN NoNode ELSE trie_db[p]

\* MerkleTree::root_hash; None stands for the Err it returns.
root_hash ==
    CASE root_node = "Empty" -> ZERO
      [] root_node = "Loaded" -> nodes[<< >>].hash
      [] root_node = "None" /\ DbNode(<< >>) = NoNode -> ZERO
      [] OTHER -> DbNode(<< >>).hash

(***************************************************************************)
(* Calls and their ends                                                    *)
(***************************************************************************)
Return ==
    /\ pc' = "Idle"
    /\ args' = NoArgs /\ current_path' = << >> /\ current_nodes_heights' = << >>

\* An Err or a panic ends the call; the client has to look what became of it.
FailFrame ==
    /\ Return
    /\ failed' = TRUE
    /\ hashes' = NoHashes /\ updates' = NoUpdates
    /\ latest' = [k \in Key |-> get(k)]
    /\ UNCHANGED db

Fail == FailFrame /\ UNCHANGED tree

Seek(key, value) ==
    /\ pc' = "LoadRoot"
    /\ args' = [key |-> key, value |-> value]
    /\ UNCHANGED <<db, root_node, nodes, death_row, commit,
                   current_path, current_nodes_heights, failed>>

(***************************************************************************)
(* set(key, value) with a non-zero value, up to the traversal.             *)
(***************************************************************************)
CachedInsert(key) == cache_leaf_modified[key] \in Felt

\* The two rewrites of a key within one commit that `set` gets wrong: it only
\* replaces the cached value when the key already has a pending insert, and it
\* compares with the database even when the key has a pending removal.
UnsafeRewrite(key, value) ==
    \/ CachedInsert(key) /\ cache_leaf_modified[key] # value
    \/ cache_leaf_modified[key] = Remove /\ flat_db[key] = value

StartSet(key, value) ==
    /\ pc = "Idle"
    /\ SafeRewrites => ~UnsafeRewrite(key, value)
    /\ latest' = [latest EXCEPT ![key] = value]

\* A pending insert: only the cached value is replaced.
SetCached(key, value) ==
    /\ StartSet(key, value)
    /\ CachedInsert(key)
    /\ cache_leaf_modified' = [cache_leaf_modified EXCEPT ![key] = value]
    /\ UNCHANGED <<db, root_node, nodes, death_row, iter, commit, pc, failed>>

\* The database already has this value: nothing to do.
SetSame(key, value) ==
    /\ StartSet(key, value)
    /\ ~CachedInsert(key)
    /\ flat_db[key] = value
    /\ UNCHANGED <<db, tree, iter, commit, pc, failed>>

\* Mutant of SetSeek: the leaf is cached before the seek, as in a deletion.
SetSeekCached(key, value) ==
    /\ StartSet(key, value)
    /\ ~CachedInsert(key)
    /\ flat_db[key] # value
    /\ Seek(key, value)
    /\ cache_leaf_modified' = [cache_leaf_modified EXCEPT ![key] = value]

SetSeek(key, value) ==
    /\ StartSet(key, value)
    /\ ~CachedInsert(key)
    /\ flat_db[key] # value
    /\ Seek(key, value)
    /\ UNCHANGED cache_leaf_modified

(***************************************************************************)
(* delete_leaf(key), up to the traversal.                                  *)
(***************************************************************************)
TreeHasValue(key) ==
    IF cache_leaf_modified[key] = None THEN flat_db[key] # None
                                       ELSE cache_leaf_modified[key] # Remove

StartDelete(key) ==
    /\ pc = "Idle"
    /\ latest' = [latest EXCEPT ![key] = None]

DeleteAbsent(key) ==
    /\ StartDelete(key)
    /\ ~TreeHasValue(key)
    /\ UNCHANGED <<db, tree, iter, commit, pc, failed>>

DeleteSeek(key) ==
    /\ StartDelete(key)
    /\ TreeHasValue(key)
    /\ cache_leaf_modified' = [cache_leaf_modified EXCEPT ![key] = Remove]
    /\ Seek(key, ZERO)

(***************************************************************************)
(* Traversal: seek_to(key) with a fresh iterator.                          *)
(***************************************************************************)
\* load_root_node, then the loop of traverse_to starts at the root.
LoadRootNode ==
    /\ pc = "LoadRoot"
    /\ IF root_node = "None"
       THEN /\ root_node' = IF DbNode(<< >>) = NoNode THEN "Empty" ELSE "Loaded"
            /\ nodes' = [nodes EXCEPT ![<< >>] = DbNode(<< >>)]
       ELSE UNCHANGED <<root_node, nodes>>
    /\ pc' = IF root_node' = "Loaded" THEN "Traverse" ELSE "Finish"
    /\ UNCHANGED <<db, death_row, cache_leaf_modified, iter, commit, failed, latest>>

\* The arc traverse_one follows out of node n at the iterator's position.
NextLabel(n) ==
    IF IsBinary(n) THEN <<args.key[Len(current_path) + 1]>> ELSE EdgePath(n)

LabelMatches(n) ==
    IsBinary(n) \/ PathMatches(EdgePath(n), args.key, Len(current_path))

\* A dangling slot, or the assert_eq! of path_matches.
BadNode(n) == n = NoNode \/ (IsEdge(n) /\ n.height # Len(current_path))

\* Mutant of EndOfTraversal: the result of path_matches is not looked at.
EndOfTraversalAtLeaf(n) == Len(current_path \o NextLabel(n)) >= MaxHeight

\* The traversal ends at this node: the edge diverges or a leaf is reached.
EndOfTraversal(n) ==
    ~LabelMatches(n) \/ Len(current_path \o NextLabel(n)) >= MaxHeight

\* load_node_handle, and the parent's handle set to the loaded slot.
LoadChild(p, l) ==
    [nodes EXCEPT ![p] = WithChild(nodes[p], l, InMemory),
                  ![p \o l] = IF nodes[p].next[l] = InMemory THEN nodes[p \o l]
                                                             ELSE DbNode(p \o l)]

\* "Could not get node from db": the handle's node is not in the database.
DanglingHandle(p, l) == nodes[p].next[l] # InMemory /\ DbNode(p \o l) = NoNode

TraversalBroken(n) ==
    \/ BadNode(n)
    \/ ~EndOfTraversal(n) /\ DanglingHandle(current_path, NextLabel(n))

Advance(n) ==
    /\ current_nodes_heights' = Append(current_nodes_heights, Len(current_path))
    /\ current_path' = current_path \o NextLabel(n)
    /\ IF EndOfTraversal(n)
       THEN pc' = "Finish" /\ UNCHANGED nodes
       ELSE pc' = "Traverse" /\ nodes' = LoadChild(current_path, NextLabel(n))
    /\ UNCHANGED <<db, root_node, death_row, cache_leaf_modified, args, commit,
                   failed, latest>>

TraverseOne ==
    /\ pc = "Traverse"
    /\ LET n == nodes[current_path]
       IN  IF TraversalBroken(n) THEN Fail ELSE Advance(n)

(***************************************************************************)
(* The database fails to read a node: the call returns the error, with the *)
(* nodes it has loaded and what it has already changed left as they are.   *)
(***************************************************************************)
\* The node at path p, behind this handle, is asked of the database.
ReadsDb(handle, p) == handle # InMemory /\ p \notin death_row

\* seek_to asks for a node next: the root, or the child of the current node.
SeekReadsDb ==
    \/ pc = "LoadRoot" /\ root_node = "None" /\ << >> \notin death_row
    \/ /\ pc = "Traverse"
       /\ LET n == nodes[current_path]
          IN  /\ ~BadNode(n) /\ ~EndOfTraversal(n)
              /\ ReadsDb(n.next[NextLabel(n)], current_path \o NextLabel(n))

\* The call under way is delete_leaf, or set.
MayFailToRead == (IF args.value = ZERO THEN "remove" ELSE "set") \in ReadErrors

ReadErrorFrame ==
    /\ Return
    /\ latest' = [k \in Key |-> get(k)]
    /\ UNCHANGED <<db, root_node, cache_leaf_modified, commit, failed>>

\* Mutant of SeekFails: the error unloads the tree.
SeekFailsUnloading ==
    /\ SeekReadsDb
    /\ MayFailToRead
    /\ Return
    /\ root_node' = "None" /\ nodes' = NoNodes
    /\ latest' = [k \in Key |-> get(k)]
    /\ UNCHANGED <<db, death_row, cache_leaf_modified, commit, failed>>

\* A removal that ends here has marked its leaf as removed, but has not taken
\* it out of the tree.
SeekFails ==
    /\ SeekReadsDb
    /\ MayFailToRead
    /\ ReadErrorFrame
    /\ UNCHANGED <<nodes, death_row>>

(***************************************************************************)
(* set: what follows the traversal.                                        *)
(***************************************************************************)
LastHeight == current_nodes_heights[Len(current_nodes_heights)]

\* The last node the iterator went through.
LastPath == First(args.key, LastHeight)

LastNode == nodes[LastPath]

Setting == pc = "Finish" /\ args.value # ZERO

SetLeafInCache ==
    cache_leaf_modified' = [cache_leaf_modified EXCEPT ![args.key] = args.value]

FinishSetFrame == Return /\ UNCHANGED <<db, commit, failed, latest>>

\* The tree is empty: the root becomes an edge to the leaf.
SetFirstLeaf ==
    /\ Setting
    /\ current_nodes_heights = << >>
    /\ nodes' = [nodes EXCEPT ![<< >>] = EdgeNode(None, 0, args.key, args.value)]
    /\ root_node' = "Loaded"
    /\ SetLeafInCache
    /\ FinishSetFrame
    /\ UNCHANGED death_row

\* Mutant of BranchHeight: counted from the edge instead of the root.
BranchHeightInEdge(n) == CommonLength(EdgePath(n), args.key, n.height)

\* The height at which the edge and the key part.
BranchHeight(n) == n.height + CommonLength(EdgePath(n), args.key, n.height)

\* The leaf exists under an edge.  The node's cached hash is not reset.
SetLeafUnderEdge ==
    /\ Setting
    /\ current_nodes_heights # << >>
    /\ IsEdge(LastNode)
    /\ BranchHeight(LastNode) = MaxHeight
    /\ nodes' = [nodes EXCEPT
                    ![LastPath] = WithChild(LastNode, EdgePath(LastNode), args.value)]
    /\ SetLeafInCache
    /\ FinishSetFrame
    /\ UNCHANGED <<root_node, death_row>>

\* The last node is binary: the leaf is one of its children.
SetLeafUnderBinary ==
    /\ Setting
    /\ current_nodes_heights # << >>
    /\ IsBinary(LastNode)
    /\ IF LastNode.height + 1 = MaxHeight
       THEN /\ nodes' = [nodes EXCEPT
                           ![LastPath] = WithChild(LastNode, <<args.key[LastNode.height + 1]>>,
                                                   args.value)]
            /\ SetLeafInCache
       ELSE UNCHANGED <<nodes, cache_leaf_modified>>
    /\ FinishSetFrame
    /\ UNCHANGED <<root_node, death_row>>

\* Edge n at path p diverges from the key: it becomes an edge along the common
\* path (if any) to a binary node (at path b), whose children are the new leaf
\* and the old child, each behind an edge unless it is adjacent.
SplitEdge(n, p, key, value) ==
    LET common   == CommonPath(EdgePath(n), key, n.height)
        b        == p \o common
        bit      == key[BranchHeight(n) + 1]
        new_path == From(key, BranchHeight(n) + 1)
        old_path == From(EdgePath(n), Len(common) + 1)
        new == IF new_path = << >> THEN value ELSE InMemory
        old == IF old_path = << >> THEN EdgeChild(n) ELSE InMemory
        branch == BinaryNode(None, BranchHeight(n),
                             [d \in Directions |-> IF d = <<bit>> THEN new ELSE old])
    IN  [q \in Path |->
            CASE q = b \o <<bit>> /\ new_path # << >> ->
                     EdgeNode(None, BranchHeight(n) + 1, new_path, value)
              [] q = b \o <<Invert(bit)>> /\ old_path # << >> ->
                     EdgeNode(None, BranchHeight(n) + 1, old_path, EdgeChild(n))
              [] q = b -> branch
              [] q = p /\ common # << >> -> EdgeNode(None, n.height, common, InMemory)
              [] OTHER -> nodes[q]]

\* The entry the split adds to the death row is made without the identifier:
\* it names a node of this tree only if the identifier is empty, and never
\* the root, whose key has a length byte.
SplitDeathRow(p) == IF EmptyIdentifier THEN {p} \ {<< >>} ELSE {}

SetSplitsEdge ==
    /\ Setting
    /\ current_nodes_heights # << >>
    /\ IsEdge(LastNode)
    /\ BranchHeight(LastNode) # MaxHeight
    /\ nodes' = SplitEdge(LastNode, LastPath, args.key, args.value)
    /\ death_row' = death_row \cup SplitDeathRow(LastPath)
    /\ SetLeafInCache
    /\ FinishSetFrame
    /\ UNCHANGED root_node

(***************************************************************************)
(* delete_leaf: what follows the traversal.                                *)
(***************************************************************************)
Deleting == pc = "Finish" /\ args.value = ZERO

FinishDeleteFrame == Return /\ UNCHANGED <<db, cache_leaf_modified, commit, failed, latest>>

\* The leaf hangs below a last edge, which goes with it.
FinalEdge == current_nodes_heights # << >> /\ IsEdge(LastNode)

FinalEdgePath == First(args.key, MaxHeight - Len(EdgePath(LastNode)))

\* The nodes above it, up to the closest binary node and its parent.
BranchHeights ==
    IF FinalEdge THEN First(current_nodes_heights, Len(current_nodes_heights) - 1)
                 ELSE current_nodes_heights

BranchPath == First(args.key, BranchHeights[Len(BranchHeights)])

Branch == nodes[BranchPath]

\* The binary node's other child.
SiblingBit == Invert(args.key[Branch.height + 1])

\* last_binary_path once its last bit is replaced by the sibling's.
SiblingPath ==
    LET last == IF FinalEdge THEN FinalEdgePath ELSE args.key
    IN  Append(First(last, Len(last) - 1), SiblingBit)

SiblingHandle == Branch.next[<<SiblingBit>>]

Sibling == IF SiblingHandle = InMemory THEN nodes[SiblingPath] ELSE DbNode(SiblingPath)

\* merge_edges: the edge that replaces the binary node swallows a child edge.
MergedPath == <<SiblingBit>> \o (IF IsEdge(Sibling) THEN EdgePath(Sibling) ELSE << >>)

\* Mutant of MergedChild: the swallowed edge stays the child.
MergedChildKept == SiblingHandle

MergedChild == IF IsEdge(Sibling) THEN EdgeChild(Sibling) ELSE SiblingHandle

ParentPath == First(args.key, BranchHeights[Len(BranchHeights) - 1])

\* Mutant of MergeIntoParent: an edge above is never extended.
MergeIntoParentNever == FALSE

MergeIntoParent == Len(BranchHeights) > 1 /\ IsEdge(nodes[ParentPath])

\* Slots freed, and paths put on death row, whether or not the parent merges.
FreedPaths ==
    (IF FinalEdge THEN {LastPath} ELSE {})
    \cup (IF IsEdge(Sibling) /\ SiblingHandle = InMemory THEN {SiblingPath} ELSE {})

\* Mutant of DeadPaths: a binary sibling is removed as well.
DeadPathsAnySibling == {SiblingPath} \cup (IF FinalEdge THEN {FinalEdgePath} ELSE {})

DeadPaths ==
    (IF FinalEdge THEN {FinalEdgePath} ELSE {})
    \cup (IF IsEdge(Sibling) THEN {SiblingPath} ELSE {})

\* No binary node above the leaf: the tree becomes empty.
DeleteLastLeaf ==
    /\ Deleting
    /\ BranchHeights = << >>
    /\ nodes' = [p \in Path |->
                   IF (FinalEdge /\ p = LastPath) \/ (root_node = "Loaded" /\ p = << >>)
                   THEN NoNode ELSE nodes[p]]
    /\ death_row' = death_row \cup (IF FinalEdge THEN {FinalEdgePath} ELSE {}) \cup {<< >>}
    /\ root_node' = "Empty"
    /\ FinishDeleteFrame

\* The binary node becomes an edge to the sibling...
TurnBranchIntoEdge ==
    /\ nodes' = [p \in Path |->
                   IF p = BranchPath
                   THEN EdgeNode(None, Branch.height, MergedPath, MergedChild)
                   ELSE IF p \in FreedPaths THEN NoNode ELSE nodes[p]]
    /\ death_row' = death_row \cup DeadPaths

\* ...or the edge above it is extended.  That edge's hash is not reset.
ExtendParentEdge ==
    /\ LET parent == nodes[ParentPath]
       IN  nodes' = [p \in Path |->
                       IF p = ParentPath
                       THEN EdgeNode(parent.hash, parent.height,
                                     EdgePath(parent) \o MergedPath, MergedChild)
                       ELSE IF p \in FreedPaths \cup {BranchPath} THEN NoNode ELSE nodes[p]]
    /\ death_row' = death_row \cup DeadPaths \cup {First(SiblingPath, Len(SiblingPath) - 1)}

\* "The node must be a binary node due to the iteration condition", and the
\* dangling slot merge_edges may meet.
BranchBroken == ~IsBinary(Branch) \/ (SiblingHandle = InMemory /\ Sibling = NoNode)

\* The final edge is gone by then.
RemoveFinalEdge ==
    /\ nodes' = IF FinalEdge THEN [nodes EXCEPT ![LastPath] = NoNode] ELSE nodes
    /\ death_row' = death_row \cup (IF FinalEdge THEN {FinalEdgePath} ELSE {})

FailAtBranch ==
    /\ RemoveFinalEdge
    /\ FailFrame
    /\ UNCHANGED <<root_node, cache_leaf_modified>>

\* merge_edges cannot read the sibling: the binary node keeps the handle of
\* the slot the final edge had.
MergeReadFails ==
    /\ Deleting
    /\ BranchHeights # << >>
    /\ IsBinary(Branch)
    /\ ReadsDb(SiblingHandle, SiblingPath)
    /\ MayFailToRead
    /\ RemoveFinalEdge
    /\ ReadErrorFrame

DeleteAtBranch ==
    /\ Deleting
    /\ BranchHeights # << >>
    /\ ~MergeIntoParent
    /\ IF BranchBroken THEN FailAtBranch
       ELSE TurnBranchIntoEdge /\ FinishDeleteFrame /\ UNCHANGED root_node

DeleteAtBranchUnderEdge ==
    /\ Deleting
    /\ BranchHeights # << >>
    /\ MergeIntoParent
    /\ IF BranchBroken THEN FailAtBranch
       ELSE ExtendParentEdge /\ FinishDeleteFrame /\ UNCHANGED root_node

(***************************************************************************)
(* Commit: get_updates hashes the in-memory nodes and turns the tree into  *)
(* a batch of updates, which MerkleTrees::commit writes.                   *)
(***************************************************************************)
CommitStart ==
    /\ pc = "Idle"
    /\ updates' = [p \in Path |-> IF p \in death_row THEN NoNode ELSE NoChange]
    /\ death_row' = {}
    /\ pc' = IF root_node = "Loaded" THEN "Hash" ELSE "Write"
    /\ UNCHANGED <<db, root_node, nodes, cache_leaf_modified, iter, hashes, failed, latest>>

\* The hashes computed below one arc: none if the child is in the database.
HashesBelow(p, l) == IF nodes[p].next[l] = InMemory THEN hashes[p \o l] ELSE << >>

\* Mutants of SubtreeHashes: the other task's vector is appended on the wrong
\* side, or lost.
SubtreeHashesSwapped(p) ==
    IF IsBinary(nodes[p]) THEN HashesBelow(p, <<1>>) \o HashesBelow(p, <<0>>)
                          ELSE HashesBelow(p, EdgePath(nodes[p]))

SubtreeHashesLeft(p) ==
    IF IsBinary(nodes[p]) THEN HashesBelow(p, <<0>>)
                          ELSE HashesBelow(p, EdgePath(nodes[p]))

\* compute_hashes pushes the hashes of the left subtree, of the right one
\* (from the vector of the other rayon task), then the node's own.
SubtreeHashes(p) ==
    IF IsBinary(nodes[p]) THEN HashesBelow(p, <<0>>) \o HashesBelow(p, <<1>>)
                          ELSE HashesBelow(p, EdgePath(nodes[p]))

\* The hash a child contributes: its handle's, or the last one pushed for it.
ChildHash(p, l) ==
    IF nodes[p].next[l] = InMemory THEN hashes[p \o l][Len(hashes[p \o l])]
                                   ELSE nodes[p].next[l]

\* Mutant of ComputedHash: a hash the node already has is taken as it is.
ComputedHashCached(p) ==
    IF nodes[p].hash # None THEN nodes[p].hash
    ELSE NodeHash(nodes[p], [l \in DOMAIN nodes[p].next |-> ChildHash(p, l)])

ComputedHash(p) ==
    NodeHash(nodes[p], [l \in DOMAIN nodes[p].next |-> ChildHash(p, l)])

\* Mutant of ChildrenHashed: children in the database are waited for too.
ChildrenHashedAll(p) == \A l \in DOMAIN nodes[p].next : hashes[p \o l] # << >>

ChildrenHashed(p) ==
    \A l \in DOMAIN nodes[p].next :
        nodes[p].next[l] = InMemory => hashes[p \o l] # << >>

\* get_node_or_felt: "Couldn't fetch node in the temporary storage".
HashBroken(p) ==
    \E l \in DOMAIN nodes[p].next : nodes[p].next[l] = InMemory /\ nodes[p \o l] = NoNode

\* compute_hashes on one node, its in-memory children done.
ComputeHash(p) ==
    /\ pc = "Hash"
    /\ nodes[p] # NoNode
    /\ hashes[p] = << >>
    /\ IF HashBroken(p) THEN Fail
       ELSE /\ ChildrenHashed(p)
            /\ hashes' = [hashes EXCEPT ![p] = Append(SubtreeHashes(p), ComputedHash(p))]
            /\ pc' = IF p = << >> THEN "CommitSubtree" ELSE "Hash"
            /\ UNCHANGED <<db, tree, iter, updates, failed, latest>>

\* q comes before p from left to right.
LeftOf(q, p) ==
    \E i \in 1..Len(q) : /\ i <= Len(p) /\ First(q, i - 1) = First(p, i - 1)
                         /\ q[i] = 0 /\ p[i] = 1

\* commit_subtree returns from the in-memory node at p next: depth first, left
\* to right, all its children already replaced by their hashes.
CommitsNext(p) ==
    /\ nodes[p] # NoNode
    /\ \A l \in DOMAIN nodes[p].next : nodes[p].next[l] # InMemory
    /\ \A q \in Path : nodes[q] # NoNode => ~LeftOf(q, p)

\* The parent's handle becomes the hash the child's call returned.
ReplaceInParent(p, hash) ==
    [q \in Path |->
        IF q = p \/ nodes[q] = NoNode THEN NoNode
        ELSE [type |-> nodes[q].type, hash |-> nodes[q].hash, height |-> nodes[q].height,
              next |-> [l \in DOMAIN nodes[q].next |->
                          IF q \o l = p THEN hash ELSE nodes[q].next[l]]]]

\* Mutant of Hashed: the node is written without its new hash.
HashedNot(n, hash) == n

Hashed(n, hash) == [type |-> n.type, hash |-> hash, height |-> n.height, next |-> n.next]

\* The node takes the next of the precomputed hashes, whichever it is.
CommitSubtree(p) ==
    /\ pc = "CommitSubtree"
    /\ CommitsNext(p)
    /\ IF hashes[<< >>] = << >> THEN Fail  \* "mismatched hash state"
       ELSE LET hash == Head(hashes[<< >>])
            IN  /\ updates' = [updates EXCEPT ![p] = Hashed(nodes[p], hash)]
                /\ nodes' = ReplaceInParent(p, hash)
                /\ hashes' = [hashes EXCEPT ![<< >>] = Tail(@)]
                /\ pc' = IF p = << >> THEN "Write" ELSE "CommitSubtree"
                /\ UNCHANGED <<db, root_node, death_row, cache_leaf_modified, iter,
                               failed, latest>>

Written(p) == IF updates[p] = NoChange THEN trie_db[p] ELSE updates[p]

\* What get_updates leaves in memory, whether or not the batch is written.
ClearTree ==
    /\ root_node' = "None" /\ cache_leaf_modified' = NoLeaves
    /\ hashes' = NoHashes /\ updates' = NoUpdates
    /\ pc' = "Idle"
    /\ UNCHANGED <<nodes, death_row, iter, failed>>

\* MerkleTrees::commit: the batch is written.
CommitWrite ==
    /\ pc = "Write"
    /\ trie_db' = [p \in Path |-> Written(p)]
    /\ flat_db' = [k \in Key |-> get(k)]
    /\ ClearTree
    /\ UNCHANGED latest

\* The database refuses the batch: the pending changes are gone from memory.
CommitWriteFails ==
    /\ pc = "Write"
    /\ ClearTree
    /\ latest' = flat_db
    /\ UNCHANGED db

(***************************************************************************)
(* The process stops and is started again, or the trees are dropped        *)
(* (MerkleTrees::_reset_to_last_commit): only the database remains.        *)
(***************************************************************************)
Reopen ==
    /\ root_node' = "None" /\ nodes' = NoNodes /\ death_row' = {}
    /\ cache_leaf_modified' = NoLeaves
    /\ hashes' = NoHashes /\ updates' = NoUpdates
    /\ Return
    /\ latest' = flat_db
    /\ UNCHANGED <<db, failed>>

(***************************************************************************)
(* The specification                                                       *)
(***************************************************************************)
\* The steps of a call that has begun: the thread that made it runs on.
Step ==
    \/ LoadRootNode \/ TraverseOne \/ SeekFails
    \/ SetFirstLeaf \/ SetLeafUnderEdge \/ SetLeafUnderBinary \/ SetSplitsEdge
    \/ DeleteLastLeaf \/ DeleteAtBranch \/ DeleteAtBranchUnderEdge \/ MergeReadFails
    \/ \E p \in Path : ComputeHash(p) \/ CommitSubtree(p)
    \/ CommitWrite \/ CommitWriteFails

Next ==
    \/ \E key \in Keys : \/ \E value \in Values : \/ SetCached(key, value)
                                                   \/ SetSame(key, value)
                                                   \/ SetSeek(key, value)
                          \/ DeleteAbsent(key) \/ DeleteSeek(key)
    \/ CommitStart
    \/ Step
    \/ Reopen

Spec == Init /\ [][Next]_vars

\* A call that has begun runs to its end: the code never waits in between.
FairSpec == Spec /\ WF_vars(Step)

(***************************************************************************)
(* Properties                                                              *)
(***************************************************************************)
\* The tree as a traversal would see it: in-memory nodes, the batch of a
\* commit on its way, then the database without the death row.
View == [p \in Path |->
           IF nodes[p] # NoNode THEN nodes[p]
           ELSE IF updates[p] # NoChange THEN updates[p] ELSE DbNode(p)]

\* The node the iterator went through at height h.
NodeAtHeight(h) == nodes[First(args.key, h)]

\* Each height is where the arc of the node at the previous one ends.
Consecutive(hs) ==
    /\ \A i, j \in 1..Len(hs) : i < j => hs[i] < hs[j]
    /\ \A i \in 1..(Len(hs) - 1) :
          IsEdge(NodeAtHeight(hs[i])) =>
              hs[i] + Len(EdgePath(NodeAtHeight(hs[i]))) = hs[i + 1]

\* The iterator stays on the key: the nodes it went through are linked, each
\* ends where the next begins, and it stops below a binary node only at a
\* leaf.  The lengths of split and merged edges depend on it.
IteratorOnKey ==
    /\ pc \notin {"Traverse", "Finish"} =>
          current_path = << >> /\ current_nodes_heights = << >>
    /\ pc = "Traverse" =>
          /\ Len(current_path) < MaxHeight
          /\ \A i \in 1..Len(current_path) : current_path[i] = args.key[i]
          /\ Consecutive(Append(current_nodes_heights, Len(current_path)))
    /\ pc = "Finish" =>
          /\ Consecutive(current_nodes_heights)
          /\ current_nodes_heights # << >> /\ IsBinary(LastNode) =>
                LastHeight + 1 = MaxHeight

\* No call ever meets a dangling slot, a handle whose node is not in the
\* database (or is on death row), a node at the wrong height, a missing
\* hash, or a branch that is not binary.
NoFailure == ~failed

\* Between calls every handle leads somewhere: an InMemory handle to an
\* occupied slot, the hash of an inner node to a database node that is not
\* on death row, and no slot is occupied without its parent pointing to it.
HandlesResolve ==
    pc = "Idle" =>
        /\ (root_node = "Loaded") = (nodes[<< >>] # NoNode)
        /\ \A p \in Path : nodes[p] # NoNode =>
             /\ \A l \in DOMAIN nodes[p].next :
                  IF nodes[p].next[l] = InMemory THEN nodes[p \o l] # NoNode
                  ELSE Len(p \o l) < MaxHeight =>
                         nodes[p \o l] = NoNode /\ DbNode(p \o l) # NoNode
             /\ p # << >> =>
                  \E n \in 0..(Len(p) - 1) :
                     LET q == First(p, n)
                     IN  /\ nodes[q] # NoNode
                         /\ From(p, n) \in DOMAIN nodes[q].next
                         /\ nodes[q].next[From(p, n)] = InMemory

\* Between calls the uncommitted tree, partly in memory and partly in the
\* database, has exactly the nodes and edges of the trie of the keys a client
\* can read: edges are maximal, and no node is left over or missing.
OverlayIsCanonical == pc = "Idle" => HasShapeOf(View, [k \in Key |-> get(k)])

\* Whatever the order of the parallel hashing and whatever was loaded, each
\* commit leaves the one Merkle-Patricia trie of its leaves, every hash right.
CommittedTrieIsCanonical ==
    pc = "Idle" /\ root_node = "None" => trie_db = StoredTrie(Leaves(trie_db))

\* The committed trie, and so its root hash, is that of the flat database.
TrieAgreesWithFlat ==
    pc = "Idle" /\ root_node = "None" => trie_db = StoredTrie(flat_db)

\* A read returns what the client last wrote (lib.rs: "overwriting the
\* previous value if it exists"), after any mix of calls and commits.
ReadsLatestWrite == pc = "Idle" => \A k \in Keys : get(k) = latest[k]

\* The abstract call that is under way.
AbstractCall ==
    CASE pc \in {"LoadRoot", "Traverse", "Finish"} ->
             [op |-> "write", key |-> args.key,
              value |-> IF args.value = ZERO THEN None ELSE args.value]
      [] pc \in {"Hash", "CommitSubtree", "Write"} -> [op |-> "commit"]
      [] OTHER -> [op |-> "none"]

LeafMapOfTrie ==
    INSTANCE LeafMap WITH Key <- Keys, Value <- Values,
                          MayRefuse <- "set" \in ReadErrors,
                          committed <- [k \in Keys |-> LeafIn(trie_db, k)],
                          pending <- [k \in Keys |-> LeafIn(View, k)],
                          call <- AbstractCall

\* Splitting, merging, loading, hashing and committing nodes change no leaf
\* but the one the running call was given, and that one to the value it was
\* given; a commit stores exactly the pending leaves.
ImplementsLeafMap == LeafMapOfTrie!Spec

\* Only a restart and a commit the database refuses give up pending leaves: a
\* set that returns an error leaves every leaf as it was.
CallsForgetNothing == [][~Reopen => LeafMapOfTrie!CallStep]_vars

\* Even when removals fail half way, the tree has every leaf a client reads,
\* with its value: a leaf may be left over, none is ever missing.
ReadsAreInTrie ==
    pc = "Idle" => \A k \in Keys : get(k) # None => LeafIn(View, k) = get(k)

\* Every call comes to an end.
CallsTerminate == (pc # "Idle") ~> (pc = "Idle")
=============================================================================
