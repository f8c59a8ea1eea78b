----------------------------- MODULE MerkleNode -----------------------------
(***************************************************************************)
(* The nodes of a binary Merkle-Patricia tree (src/trie/merkle_node.rs)    *)
(* and the paths they are stored under (src/trie/path.rs).                 *)
(*                                                                         *)
(* A path is the sequence of bits from the root; 0 is Direction::Left and  *)
(* 1 is Direction::Right.  A key is a path of full length.  Node hashes    *)
(* are free terms: two different subtrees never collide, which is the      *)
(* assumption under which a Merkle root identifies its content.            *)
(***************************************************************************)
EXTENDS Integers, Sequences

CONSTANTS
    MaxHeight,   \* the tree's max_height: the length of every key
    None,        \* Option::None where a Felt is expected
    InMemory     \* NodeHandle::InMemory(_): the child is a slot of `nodes`

(***************************************************************************)
(* max_height is an u8.                                                    *)
(***************************************************************************)
ASSUME MaxHeightAssumption == MaxHeight \in 1..255

(***************************************************************************)
(* Paths and keys                                                          *)
(***************************************************************************)
Bit == {0, 1}

Path == UNION {[1..n -> Bit] : n \in 0..MaxHeight}

Key == [1..MaxHeight -> Bit]

Invert(b) == 1 - b

\* The first n bits of s (a bitslice s[..n]).
First(s, n) == SubSeq(s, 1, n)

\* The bits of s from position n on (a bitslice s[n..]).
From(s, n) == SubSeq(s, n + 1, Len(s))

IsPrefixOf(s, t) == Len(s) <= Len(t) /\ First(t, Len(s)) = s

(***************************************************************************)
(* Hashes.  Felt::ZERO is the hash of the empty tree; leaf values are      *)
(* Felts too.  Each term is self-delimiting, so no two of them are equal.  *)
(***************************************************************************)
Felt == Seq(Nat)

ASSUME OptionAssumption == None \notin Felt /\ InMemory \notin Felt

ZERO == << >>

hash_binary_node(left_hash, right_hash) == <<2>> \o left_hash \o right_hash

hash_edge_node(path, child_hash) == <<3>> \o path \o <<4>> \o child_hash

(***************************************************************************)
(* Nodes.  `next` maps the label of each outgoing arc (one bit out of a    *)
(* binary node, the whole path out of an edge) to a NodeHandle: the hash   *)
(* of a child that lives in the database (or of a leaf), or InMemory.      *)
(***************************************************************************)
NodeHandle == Felt \cup {InMemory}

NoNode == [type |-> "None"]

BinaryNode(hash, height, next) ==
    [type |-> "Binary", hash |-> hash, height |-> height, next |-> next]

EdgeNode(hash, height, path, child) ==
    [type |-> "Edge", hash |-> hash, height |-> height,
     next |-> [l \in {path} |-> child]]

IsBinary(n) == n.type = "Binary"

IsEdge(n) == n.type = "Edge"

\* The path of an edge, the only label leaving it.
EdgePath(n) == CHOOSE l \in DOMAIN n.next : TRUE

EdgeChild(n) == n.next[EdgePath(n)]

\* The node with the handle of one arc replaced, its hash left as it is.
WithChild(n, l, handle) ==
    [type |-> n.type, hash |-> n.hash, height |-> n.height,
     next |-> [n.next EXCEPT ![l] = handle]]

\* The labels that may leave a binary node: its two directions.
Directions == {<<0>>, <<1>>}

\* The hash of a node from the hashes `child` gives for its arcs.
NodeHash(n, child) ==
    IF IsBinary(n) THEN hash_binary_node(child[<<0>>], child[<<1>>])
                   ELSE hash_edge_node(EdgePath(n), child[EdgePath(n)])

(***************************************************************************)
(* Matching a key against an edge                                          *)
(***************************************************************************)
\* Bit i of an edge's path and the key's bit it stands for agree.
BitMatches(path, key, height, i) ==
    i <= Len(path) /\ height + i <= Len(key) /\ path[i] = key[height + i]

\* EdgeNode::path_matches: the path and the key agree as far as both go.
PathMatches(path, key, node_height) ==
    \A i \in 1..Len(path) :
        node_height + i <= Len(key) => BitMatches(path, key, node_height, i)

\* EdgeNode::common_path: the bits before the first that does not match.
CommonLength(path, key, height) ==
    CHOOSE n \in 0..Len(path) :
        /\ \A i \in 1..n : BitMatches(path, key, height, i)
        /\ ~BitMatches(path, key, height, n + 1)

CommonPath(path, key, height) == First(path, CommonLength(path, key, height))
=============================================================================
