----------------------------- MODULE MultiProof -----------------------------
(***************************************************************************)
(* Merkle proofs for several keys of one tree (src/trie/proof.rs), taken   *)
(* between the other calls on it.                                          *)
(*                                                                         *)
(* get_multi_proof goes from key to key with one iterator, which keeps the *)
(* nodes it shares with the next key (traverse_to on a positioned iterator,*)
(* src/trie/iterator.rs).  Every node it visits is hashed, and the hash is *)
(* cached in the node (get_or_compute_node_hash, src/trie/tree.rs); nodes  *)
(* it loads stay in memory for the calls that follow.  verify_proof is a   *)
(* function of the proof, the root hash and a key.                         *)
(***************************************************************************)
EXTENDS MerkleTree, FiniteSets

CONSTANTS
    ProofKeys,    \* the keys proofs are asked for, of any length
    MaxProofKeys  \* bound: the number of keys of one proof

ASSUME ProofKeysAssumption == ProofKeys \subseteq Path /\ MaxProofKeys \in Nat

VARIABLES
    keys,       \* the keys of the proof being made
    done,       \* how many of them have been traversed
    proof,      \* the visitor's MultiProof: proof nodes by their hash
    leaf_hash   \* the iterator's leaf_hash

proof_vars == <<keys, done, proof, leaf_hash>>
all_vars == <<vars, proof_vars>>

NoProof == [h \in {} |-> NoNode]

ResetProof == keys' = << >> /\ done' = 0 /\ proof' = NoProof /\ leaf_hash' = None

ProofInit == Init /\ keys = << >> /\ done = 0 /\ proof = NoProof /\ leaf_hash = None

KeySequences == UNION {[1..n -> ProofKeys] : n \in 0..MaxProofKeys}

(***************************************************************************)
(* The iterator, positioned by the previous key, is sent to the next.      *)
(***************************************************************************)
GetMultiProof(ks) ==
    /\ pc = "Idle"
    /\ keys' = ks
    /\ pc' = "ProofKey"
    /\ UNCHANGED <<db, tree, iter, commit, failed, latest, done, proof, leaf_hash>>

NextKey == keys[done + 1]

AtKey == pc = "ProofKey" /\ done < Len(keys)

\* A key of the wrong length: the call returns an error, whatever came before.
KeyLengthError ==
    /\ AtKey
    /\ Len(NextKey) # MaxHeight
    /\ Return
    /\ ResetProof
    /\ UNCHANGED <<db, tree, commit, failed, latest>>

\* The bits that the iterator's path and the key share.
SharedPrefixLen(key) == CommonLength(current_path, key, 0)

\* Mutant of KeptHeights: the list is cut only if nothing is shared.
KeptHeightsAll(key) ==
    IF SharedPrefixLen(key) = 0 THEN << >> ELSE current_nodes_heights

\* partition_point: the nodes that begin within the shared bits.
KeptHeights(key) ==
    LET shared == SharedPrefixLen(key)
    IN  IF shared = 0 THEN << >>
        ELSE First(current_nodes_heights,
                   Cardinality({i \in DOMAIN current_nodes_heights :
                                  current_nodes_heights[i] < shared}))

ResumeFrame(key) ==
    /\ args' = [key |-> key, value |-> ZERO]
    /\ UNCHANGED <<db, death_row, cache_leaf_modified, commit, failed, latest, keys, proof>>

\* Mutant of ResumeAtLastKept: current_path is cut at the shared bits instead.
ResumeAtSharedPrefix ==
    /\ AtKey /\ Len(NextKey) = MaxHeight
    /\ LET kept == KeptHeights(NextKey)
       IN  /\ kept # << >>
           /\ current_nodes_heights' = First(kept, Len(kept) - 1)
           /\ current_path' = First(current_path, SharedPrefixLen(NextKey))
    /\ pc' = "ProofDescend"
    /\ ResumeFrame(NextKey)
    /\ UNCHANGED <<root_node, nodes, done, leaf_hash>>

\* The last node kept is traversed again, without a visit: it is in the proof.
ResumeAtLastKept ==
    /\ AtKey /\ Len(NextKey) = MaxHeight
    /\ LET kept == KeptHeights(NextKey)
       IN  /\ kept # << >>
           /\ current_nodes_heights' = First(kept, Len(kept) - 1)
           /\ current_path' = First(current_path, kept[Len(kept)])
    /\ pc' = "ProofDescend"
    /\ ResumeFrame(NextKey)
    /\ UNCHANGED <<root_node, nodes, done, leaf_hash>>

\* Mutant of ResumeAtRoot: the iterator of an empty tree never moves on.
ResumeAtRootAgain ==
    /\ AtKey /\ Len(NextKey) = MaxHeight
    /\ KeptHeights(NextKey) = << >>
    /\ current_nodes_heights' = << >> /\ current_path' = << >>
    /\ IF root_node = "None"
       THEN /\ root_node' = IF DbNode(<< >>) = NoNode THEN "Empty" ELSE "Loaded"
            /\ nodes' = [nodes EXCEPT ![<< >>] = DbNode(<< >>)]
       ELSE UNCHANGED <<root_node, nodes>>
    /\ pc' = IF root_node' = "Loaded" THEN "ProofVisit" ELSE "ProofKey"
    /\ ResumeFrame(NextKey)
    /\ UNCHANGED <<done, leaf_hash>>

\* Mutant of ResumeAtRoot: a root that is already loaded is read again.
ResumeAtRootReload ==
    /\ AtKey /\ Len(NextKey) = MaxHeight
    /\ KeptHeights(NextKey) = << >>
    /\ current_nodes_heights' = << >> /\ current_path' = << >>
    /\ root_node' = IF DbNode(<< >>) = NoNode THEN "Empty" ELSE "Loaded"
    /\ nodes' = [nodes EXCEPT ![<< >>] = DbNode(<< >>)]
    /\ IF root_node' = "Loaded"
       THEN pc' = "ProofVisit" /\ UNCHANGED <<done, leaf_hash>>
       ELSE pc' = "ProofKey" /\ done' = done + 1 /\ leaf_hash' = None
    /\ ResumeFrame(NextKey)

\* Nothing is kept: load_root_node.  In an empty tree the key is done.
ResumeAtRoot ==
    /\ AtKey /\ Len(NextKey) = MaxHeight
    /\ KeptHeights(NextKey) = << >>
    /\ current_nodes_heights' = << >> /\ current_path' = << >>
    /\ IF root_node = "None"
       THEN /\ root_node' = IF DbNode(<< >>) = NoNode THEN "Empty" ELSE "Loaded"
            /\ nodes' = [nodes EXCEPT ![<< >>] = DbNode(<< >>)]
       ELSE UNCHANGED <<root_node, nodes>>
    /\ IF root_node' = "Loaded"
       THEN pc' = "ProofVisit" /\ UNCHANGED <<done, leaf_hash>>
       ELSE pc' = "ProofKey" /\ done' = done + 1 /\ leaf_hash' = None
    /\ ResumeFrame(NextKey)

(***************************************************************************)
(* ProofVisitor::visit_node                                                *)
(***************************************************************************)
\* get_or_compute_node_hash of the in-memory node at each path: the cached
\* hash if there is one, however old.
NodeHashes ==
    LET hash[p \in Path] ==
          IF nodes[p] = NoNode THEN ZERO
          ELSE IF nodes[p].hash # None THEN nodes[p].hash
          ELSE NodeHash(nodes[p],
                        [l \in DOMAIN nodes[p].next |->
                           IF nodes[p].next[l] = InMemory THEN hash[p \o l]
                                                          ELSE nodes[p].next[l]])
    IN  hash

\* The nodes that computing the hash of the node at p looks at: p, and what is
\* in memory below it, up to the first node with a cached hash.
LookedAt(p) ==
    {q \in Path : /\ nodes[q] # NoNode
                  /\ IsPrefixOf(p, q)
                  /\ \A n \in Len(p)..(Len(q) - 1) :
                        nodes[First(q, n)] # NoNode => nodes[First(q, n)].hash = None}

\* The children of the visited node are hashed first, then the node.
Visited(p) ==
    {p} \cup UNION {LookedAt(p \o l) : l \in {x \in DOMAIN nodes[p].next :
                                                nodes[p].next[x] = InMemory}}

\* Mutant of ProofNode: the handles of in-memory children are left out.
ProofNodeOfDb(p) ==
    [type |-> nodes[p].type,
     next |-> [l \in DOMAIN nodes[p].next |->
                 IF nodes[p].next[l] = InMemory THEN ZERO ELSE nodes[p].next[l]]]

ProofNode(p) ==
    [type |-> nodes[p].type,
     next |-> [l \in DOMAIN nodes[p].next |->
                 IF nodes[p].next[l] = InMemory THEN NodeHashes[p \o l]
                                                ELSE nodes[p].next[l]]]

\* A slot that is not there: the node itself, or a child whose hash is needed.
VisitBroken(p) ==
    \/ nodes[p] = NoNode
    \/ \E q \in Visited(p) : \E l \in DOMAIN nodes[q].next :
           /\ nodes[q].next[l] = InMemory /\ nodes[q \o l] = NoNode
           /\ q = p \/ nodes[q].hash = None

VisitNode ==
    /\ pc = "ProofVisit"
    /\ LET p == current_path
       IN  IF VisitBroken(p) THEN Fail /\ ResetProof
           ELSE LET hash == NodeHashes
                IN  /\ proof' = [h \in DOMAIN proof \cup {hash[p]} |->
                                   IF h = hash[p] THEN ProofNode(p) ELSE proof[h]]
                    /\ nodes' = [q \in Path |-> IF q \in Visited(p)
                                                THEN Hashed(nodes[q], hash[q]) ELSE nodes[q]]
                    /\ pc' = "ProofDescend"
                    /\ UNCHANGED <<db, root_node, death_row, cache_leaf_modified, iter,
                                   commit, failed, latest, keys, done, leaf_hash>>

(***************************************************************************)
(* traverse_one, and the ends of the call.                                 *)
(***************************************************************************)
LeafHash(n) ==
    IF LabelMatches(n) /\ Len(current_path \o NextLabel(n)) = MaxHeight
    THEN n.next[NextLabel(n)] ELSE None

Descend(n) ==
    /\ current_nodes_heights' = Append(current_nodes_heights, Len(current_path))
    /\ current_path' = current_path \o NextLabel(n)
    /\ IF EndOfTraversal(n)
       THEN /\ pc' = "ProofKey" /\ done' = done + 1 /\ leaf_hash' = LeafHash(n)
            /\ UNCHANGED nodes
       ELSE /\ pc' = "ProofVisit" /\ nodes' = LoadChild(current_path, NextLabel(n))
            /\ UNCHANGED <<done, leaf_hash>>
    /\ UNCHANGED <<db, root_node, death_row, cache_leaf_modified, args, commit,
                   failed, latest, keys, proof>>

DescendOne ==
    /\ pc = "ProofDescend"
    /\ LET n == nodes[current_path]
       IN  IF TraversalBroken(n) THEN Fail /\ ResetProof ELSE Descend(n)

\* The database fails to read the root or the next node: the call returns the
\* error, and what it has loaded and hashed stays in memory.
ProofReadFails ==
    /\ "proof" \in ReadErrors
    /\ \/ /\ AtKey /\ Len(NextKey) = MaxHeight /\ KeptHeights(NextKey) = << >>
          /\ root_node = "None" /\ << >> \notin death_row
       \/ /\ pc = "ProofDescend"
          /\ LET n == nodes[current_path]
             IN  /\ ~BadNode(n) /\ ~EndOfTraversal(n)
                 /\ ReadsDb(n.next[NextLabel(n)], current_path \o NextLabel(n))
    /\ Return
    /\ ResetProof
    /\ UNCHANGED <<db, tree, commit, failed, latest>>

\* The proof is returned; the client has it until its next call.
ReturnProof ==
    /\ pc = "ProofKey" /\ done = Len(keys)
    /\ pc' = "Proved"
    /\ UNCHANGED <<db, tree, iter, commit, failed, latest, proof_vars>>

DropProof ==
    /\ pc = "Proved"
    /\ Return
    /\ ResetProof
    /\ UNCHANGED <<db, tree, commit, failed, latest>>

ProofStep ==
    \/ KeyLengthError \/ ResumeAtLastKept \/ ResumeAtRoot
    \/ VisitNode \/ DescendOne \/ ProofReadFails
    \/ ReturnProof \/ DropProof

ProofNext ==
    \/ Next /\ ResetProof  \* nothing to reset, but for a restart during a proof
    \/ \E ks \in KeySequences : GetMultiProof(ks)
    \/ ProofStep

ProofSpec == ProofInit /\ [][ProofNext]_all_vars

\* A call that has begun runs to its end.
FairProofSpec == ProofSpec /\ WF_all_vars(ProofStep)

(***************************************************************************)
(* MultiProof::verify_proof for one key: a walk from the root, each node   *)
(* taken from the proof by its hash and hashed again.  (checked_cache only *)
(* spares hashing a node twice.)                                           *)
(***************************************************************************)
Verdict(s, v) == [s EXCEPT !.status = v]

VerifyStep(pf, k, s) ==
    LET node == pf[s.felt]
        label == IF IsBinary(node) THEN <<k[s.len + 1]>> ELSE EdgePath(node)
    IN  IF s.status # "Walking" THEN s
        ELSE IF s.len >= Len(k)
             THEN Verdict(s, IF s.len = Len(k) THEN "Ok" ELSE "Overshot")
        ELSE IF s.felt \notin DOMAIN pf THEN Verdict(s, "MissingNode")
        ELSE IF NodeHash(node, node.next) # s.felt THEN Verdict(s, "HashMismatch")
        ELSE IF ~IsPrefixOf(label, From(k, s.len))
             THEN [s EXCEPT !.status = "Ok", !.felt = ZERO]  \* not a member
        ELSE [s EXCEPT !.len = @ + Len(label), !.felt = node.next[label]]

VerifyProof(pf, root, k) ==
    LET walk[n \in 0..(MaxHeight + 1)] ==
          IF n = 0 THEN [len |-> 0, felt |-> root, status |-> "Walking"]
                   ELSE VerifyStep(pf, k, walk[n - 1])
        end == walk[MaxHeight + 1]
    IN  IF Len(k) # MaxHeight THEN [status |-> "KeyLengthMismatch", value |-> ZERO]
        ELSE [status |-> end.status, value |-> end.felt]

(***************************************************************************)
(* Properties                                                              *)
(***************************************************************************)
ValueOrZero(k) == IF get(k) = None THEN ZERO ELSE get(k)

NoPendingChanges == cache_leaf_modified = NoLeaves

Proves(k) == VerifyProof(proof, root_hash, k) = [status |-> "Ok", value |-> ValueOrZero(k)]

\* A proof of a tree without pending changes that is not empty verifies
\* against its root hash and gives every key its value, or zero if it is not
\* in the tree: whatever the order of the keys, repeated or not, and whatever
\* earlier calls have left in memory.
ProofsVerify ==
    pc = "Proved" /\ NoPendingChanges /\ root_node = "Loaded" =>
        \A i \in 1..Len(keys) : Proves(keys[i])

\* The iterator, sent from key to key, finds the leaf a fresh traversal finds,
\* and none where there is none.
SeeksTheLeaf ==
    pc = "ProofKey" /\ done > 0 => leaf_hash = LeafIn(View, keys[done])

\* The nodes the iterator keeps are in memory, and each leads to the next
\* along current_path, which may have left the key on a diverging edge.
IteratorOnPath ==
    pc \in {"ProofKey", "ProofVisit", "ProofDescend"} =>
        LET hs == current_nodes_heights
            End(i) == IF i < Len(hs) THEN hs[i + 1] ELSE Len(current_path)
            Node(i) == nodes[First(current_path, hs[i])]
            Label(i) == SubSeq(current_path, hs[i] + 1, End(i))
        IN  /\ hs # << >> => hs[1] = 0
            /\ \A i \in 1..Len(hs) : /\ hs[i] < End(i) /\ End(i) <= Len(current_path)
                                     /\ Node(i) # NoNode /\ Label(i) \in DOMAIN Node(i).next
            /\ \A i \in 1..(Len(hs) - 1) : Node(i).next[Label(i)] = InMemory

\* A proof loads nodes and stores hashes in them, and changes no leaf, pending
\* or committed, whether it returns or fails.
ProofsChangeNoLeaf ==
    [][(\E ks \in KeySequences : GetMultiProof(ks)) \/ ProofStep =>
           UNCHANGED LeafMapOfTrie!map_vars]_all_vars

\* get_multi_proof returns, a proof or an error, for every list of keys.
ProofsReturn == (pc = "ProofKey") ~> (pc \in {"Proved", "Idle"})
=============================================================================
