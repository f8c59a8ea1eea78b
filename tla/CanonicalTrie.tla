---------------------------- MODULE CanonicalTrie ----------------------------
(***************************************************************************)
(* The reference the tree is checked against: the one Merkle-Patricia trie *)
(* that belongs to a map `m` from keys to leaf values (None: absent),      *)
(* defined from the map alone.  A node sits at the root and wherever the   *)
(* keys part ways or have just done so; between two such places runs a     *)
(* single, maximal edge (the description of the tree in the comments of    *)
(* src/trie/merkle_node.rs and tree.rs).                                   *)
(***************************************************************************)
EXTENDS MerkleNode

Through(m, p) == {k \in Key : m[k] # None /\ IsPrefixOf(p, k)}

Branches(m, p) ==
    /\ Len(p) < MaxHeight
    /\ \A b \in Bit : Through(m, Append(p, b)) # {}

HasNode(m, p) ==
    /\ Len(p) < MaxHeight
    /\ Through(m, p) # {}
    /\ p = << >> \/ Branches(m, p) \/ Branches(m, First(p, Len(p) - 1))

\* The longest way all keys through p share.
SharedPath(m, p) ==
    LET S == {l \in Path : Len(p) + Len(l) <= MaxHeight /\ Through(m, p \o l) = Through(m, p)}
    IN  CHOOSE l \in S : \A o \in S : Len(o) <= Len(l)

Labels(m, p) == IF Branches(m, p) THEN Directions ELSE {SharedPath(m, p)}

\* The Merkle hash of the keys through p.
SubtreeHash(m) ==
    LET h[p \in Path] ==
          IF Len(p) = MaxHeight THEN m[p]
          ELSE IF Branches(m, p)
               THEN hash_binary_node(h[Append(p, 0)], h[Append(p, 1)])
               ELSE LET l == SharedPath(m, p) IN hash_edge_node(l, h[p \o l])
    IN  h

\* The trie as it is stored after a commit: every node hashed, every handle
\* the hash of its child.
StoredTrie(m) ==
    LET h == SubtreeHash(m)
    IN  [p \in Path |->
           IF HasNode(m, p)
           THEN [type   |-> IF Branches(m, p) THEN "Binary" ELSE "Edge",
                 hash   |-> h[p],
                 height |-> Len(p),
                 next   |-> [l \in Labels(m, p) |-> h[p \o l]]]
           ELSE NoNode]

\* t has the nodes and the arcs of the trie of m; hashes and handles are free.
HasShapeOf(t, m) ==
    \A p \in Path :
        IF HasNode(m, p) THEN t[p] # NoNode /\ DOMAIN t[p].next = Labels(m, p)
                              /\ IsBinary(t[p]) = Branches(m, p)
                         ELSE t[p] = NoNode

\* The leaf value a trie holds for key k, None if no arc leads to it.
LeafIn(t, k) ==
    LET above == {n \in 0..(MaxHeight - 1) : /\ t[First(k, n)] # NoNode
                                            /\ From(k, n) \in DOMAIN t[First(k, n)].next}
    IN  IF above = {} THEN None
        ELSE LET n == CHOOSE n \in above : TRUE IN t[First(k, n)].next[From(k, n)]

Leaves(t) == [k \in Key |-> LeafIn(t, k)]
=============================================================================
