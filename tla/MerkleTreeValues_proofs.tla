----------------------- MODULE MerkleTreeValues_proofs -----------------------
(***************************************************************************)
(* The values and the hashes of the tree, for every height, every set of   *)
(* keys and values and any client: each commit leaves the one              *)
(* Merkle-Patricia trie of its leaves, and a call changes no leaf but its  *)
(* own.  What holds of the shape is in MerkleTreeShape_proofs.             *)
(***************************************************************************)
EXTENDS MerkleTreeShape_proofs

USE MaxHeightAssumption, OptionAssumption

(***************************************************************************)
(* The stored trie and its leaves                                          *)
(***************************************************************************)
LEMMA StoredIs ==
  ASSUME NEW m, NEW p \in Path
  PROVE  /\ HasNode(m, p) =>
              /\ StoredTrie(m)[p] = [type   |-> IF Branches(m, p) THEN "Binary" ELSE "Edge",
                                     hash   |-> SubtreeHash(m)[p],
                                     height |-> Len(p),
                                     next   |-> [l \in Labels(m, p) |-> SubtreeHash(m)[p \o l]]]
              /\ StoredTrie(m)[p] # NoNode
              /\ StoredTrie(m)[p].next = [l \in Labels(m, p) |-> SubtreeHash(m)[p \o l]]
              /\ DOMAIN StoredTrie(m)[p].next = Labels(m, p)
              /\ IsBinary(StoredTrie(m)[p]) = Branches(m, p)
         /\ ~HasNode(m, p) => StoredTrie(m)[p] = NoNode
  <1>1. ~HasNode(m, p) => StoredTrie(m)[p] = NoNode
    BY DEF StoredTrie
  <1>2. ASSUME HasNode(m, p)
        PROVE  StoredTrie(m)[p] = [type   |-> IF Branches(m, p) THEN "Binary" ELSE "Edge",
                                     hash   |-> SubtreeHash(m)[p],
                                     height |-> Len(p),
                                     next   |-> [l \in Labels(m, p) |-> SubtreeHash(m)[p \o l]]]
    BY <1>2 DEF StoredTrie
  <1>3. ASSUME HasNode(m, p)
        PROVE  /\ StoredTrie(m)[p].type = IF Branches(m, p) THEN "Binary" ELSE "Edge"
               /\ StoredTrie(m)[p].next = [l \in Labels(m, p) |-> SubtreeHash(m)[p \o l]]
    BY <1>2, <1>3
  <1>4. ASSUME HasNode(m, p) PROVE StoredTrie(m)[p] # NoNode
    BY <1>3, <1>4, NotNode DEF IsBinary, IsEdge
  <1>5. ASSUME HasNode(m, p) PROVE IsBinary(StoredTrie(m)[p]) = Branches(m, p)
    <2>1. Branches(m, p) \in BOOLEAN
      BY DEF Branches
    <2> QED BY <1>3, <1>5, <2>1 DEF IsBinary
  <1> QED BY <1>1, <1>2, <1>3, <1>4, <1>5

LEMMA StoredNext ==
  ASSUME NEW m, NEW p \in Path, HasNode(m, p)
  PROVE  StoredTrie(m)[p].next = [l \in Labels(m, p) |-> SubtreeHash(m)[p \o l]]
  <1>1. StoredTrie(m)[p] = [type   |-> IF Branches(m, p) THEN "Binary" ELSE "Edge",
                            hash   |-> SubtreeHash(m)[p],
                            height |-> Len(p),
                            next   |-> [l \in Labels(m, p) |-> SubtreeHash(m)[p \o l]]]
    BY DEF StoredTrie
  <1> QED BY <1>1

LEMMA StoredHandle ==
  ASSUME NEW m, NEW p \in Path, HasNode(m, p), NEW l \in Labels(m, p)
  PROVE  StoredTrie(m)[p].next[l] = SubtreeHash(m)[p \o l]
  <1>1. StoredTrie(m)[p].next = [x \in Labels(m, p) |-> SubtreeHash(m)[p \o x]]
    BY StoredNext
  <1> QED BY <1>1

LEMMA StoredShape ==
  ASSUME NEW m
  PROVE  HasShapeOf(StoredTrie(m), m)
  BY StoredIs, ShapeIs DEF Looks

LEMMA LeafHashIs ==
  ASSUME NEW m, NEW k \in Key
  PROVE  SubtreeHash(m)[k] = m[k] /\ k \in Path /\ Len(k) = MaxHeight
  <1>1. k \in Path /\ Len(k) = MaxHeight
    BY KeyInPath, KeySeq
  <1>2. SubtreeHash(m)[k] = HashAt(m, SubtreeHash(m), k)
    BY <1>1, SubtreeHashIs
  <1> QED BY <1>1, <1>2 DEF HashAt

\* A key goes through its own leaf alone.
LEMMA ThroughKey ==
  ASSUME NEW m, NEW k \in Key
  PROVE  Through(m, k) # {} <=> m[k] # None
  <1>1. k \in Path /\ Len(k) = MaxHeight
    BY KeyInPath, KeySeq
  <1>2. ASSUME NEW j \in Key, IsPrefixOf(k, j) PROVE j = k
    <2>1. j \in Path /\ Len(j) = MaxHeight
      BY KeyInPath, KeySeq
    <2>2. Len(k) >= Len(j)
      BY <1>1, <2>1
    <2> QED BY <1>1, <1>2, <2>1, <2>2, PrefixSame
  <1>3. IsPrefixOf(k, k)
    BY <1>1, PrefixRefl
  <1> QED BY <1>2, <1>3 DEF Through

\* The leaves of a tree that has the shape of a map and its values.
LEMMA LeafInIs ==
  ASSUME NEW t, NEW m, HasShapeOf(t, m), NEW k \in Key,
         \A p \in Path : \A l \in Labels(m, p) : HasNode(m, p) /\ p \o l = k => t[p].next[l] = m[k]
  PROVE  LeafIn(t, k) = m[k]
  <1> DEFINE above == {n \in 0..(MaxHeight - 1) : /\ t[First(k, n)] # NoNode
                                                  /\ From(k, n) \in DOMAIN t[First(k, n)].next}
  <1>1. k \in Path /\ k \in Seq(Bit) /\ Len(k) = MaxHeight /\ k # << >>
    <2>1. k \in Path /\ k \in Seq(Bit) /\ Len(k) = MaxHeight
      BY KeyInPath, KeySeq
    <2>2. Len(k) # 0
      BY <2>1
    <2> QED BY <2>1, <2>2
  <1>2. ASSUME NEW n \in above
        PROVE  t[First(k, n)].next[From(k, n)] = m[k] /\ m[k] # None
    <2>1. PICK p, l : p = First(k, n) /\ l = From(k, n)
      OBVIOUS
    <2>2. n \in 0..(MaxHeight - 1) /\ t[p] # NoNode /\ l \in DOMAIN t[p].next
      BY <2>1
    <2>3. n \in 0..MaxHeight
      BY <2>2
    <2>4. p \in Path /\ p \o l = k
      <3>1. p \in Seq(Bit) /\ Len(p) = n /\ IsPrefixOf(p, k)
        BY <1>1, <2>1, <2>3, FirstSeq DEF IsPrefixOf
      <3>2. Len(p) <= MaxHeight
        BY <2>3, <3>1
      <3>3. p \in Path
        BY <3>1, <3>2, PathSeq
      <3>4. p \o From(k, Len(p)) = k
        BY <1>1, <3>1, <3>3, PathRest
      <3> QED BY <2>1, <3>1, <3>3, <3>4
    <2>5. Looks(t, m, p)
      BY <2>4, ShapeIs
    <2>6. HasNode(m, p) /\ l \in Labels(m, p)
      BY <2>2, <2>5 DEF Looks
    <2>7. Through(m, k) # {}
      <3>1. ArcOf(m, p, l)
        BY <2>4, <2>6, Arc
      <3> QED BY <2>4, <3>1 DEF ArcOf
    <2> QED BY <2>1, <2>4, <2>6, <2>7, ThroughKey
  <1>3. ASSUME m[k] # None PROVE above # {}
    <2>1. Through(m, k) # {}
      BY <1>3, ThroughKey
    <2>2. PICK p \in Path : HasNode(m, p) /\ \E l \in Labels(m, p) : p \o l = k
      BY <1>1, <2>1, ArcAbove
    <2>3. PICK l \in Labels(m, p) : p \o l = k
      BY <2>2
    <2>4. ArcOf(m, p, l)
      BY <2>2, Arc
    <2>5. l \in Path /\ IsPrefixOf(p, k) /\ Len(p) < MaxHeight /\ Len(p) \in Nat
      BY <1>1, <2>3, <2>4, PathLen DEF ArcOf
    <2>6. From(k, Len(p)) = l /\ First(k, Len(p)) = p
      BY <1>1, <2>3, <2>5, ConcatPath DEF IsPrefixOf
    <2>7. Len(p) \in 0..(MaxHeight - 1)
      BY <2>5
    <2>8. Looks(t, m, p)
      BY ShapeIs
    <2>9. t[p] # NoNode /\ l \in DOMAIN t[p].next
      BY <2>2, <2>8 DEF Looks
    <2> QED BY <2>6, <2>7, <2>9
  <1>4. LeafIn(t, k) = IF above = {} THEN None
                       ELSE LET n == CHOOSE n \in above : TRUE
                            IN  t[First(k, n)].next[From(k, n)]
    BY DEF LeafIn
  <1> HIDE DEF above
  <1>5. CASE above = {}
    BY <1>3, <1>4, <1>5
  <1>6. CASE above # {}
    <2>1. PICK n : n = CHOOSE x \in above : TRUE
      OBVIOUS
    <2>2. n \in above
      BY <1>6, <2>1
    <2>3. LeafIn(t, k) = t[First(k, n)].next[From(k, n)]
      BY <1>4, <1>6, <2>1
    <2> QED BY <1>2, <2>2, <2>3
  <1> QED BY <1>5, <1>6

LEMMA LeavesOfStored ==
  ASSUME NEW m, NEW k \in Key
  PROVE  LeafIn(StoredTrie(m), k) = m[k]
  <1>1. ASSUME NEW p \in Path, NEW l \in Labels(m, p), HasNode(m, p), p \o l = k
        PROVE  StoredTrie(m)[p].next[l] = m[k]
    <2>2. StoredTrie(m)[p].next[l] = SubtreeHash(m)[p \o l]
      BY <1>1, StoredHandle
    <2>3. SubtreeHash(m)[k] = m[k]
      BY LeafHashIs
    <2> QED BY <1>1, <2>2, <2>3
  <1>2. HasShapeOf(StoredTrie(m), m)
    BY StoredShape
  <1> QED BY <1>1, <1>2, LeafInIs

(***************************************************************************)
(* The invariant.  In a call the leaves `m` of the tree are those of the   *)
(* call's start; `d` are the leaves of the committed trie.                 *)
(***************************************************************************)
\* m and n have the same keys.
SameKeys(m, n) == \A k \in Key : m[k] = None <=> n[k] = None

\* The handles of a node that lead out of memory are the hashes of their subtrees.
RightNode(n, m, p) ==
    \A l \in DOMAIN n.next : n.next[l] # InMemory => n.next[l] = SubtreeHash(m)[p \o l]

\* The arcs of every node in memory are a function.
ProperInv == \A p \in Path : nodes[p] # NoNode => Proper(nodes[p])

\* The tree holds the leaves m: what is out of memory is stored as it should
\* be, and the nodes in memory lead there by the right hashes.
InTree(m) ==
    /\ m \in [Key -> Felt \cup {None}] /\ SameKeys(m, Pending)
    /\ \A p \in Path : IF nodes[p] # NoNode THEN RightNode(nodes[p], m, p)
                                            ELSE View[p] = StoredTrie(m)[p]

\* The hashes computed so far are those of the subtrees.
HashesRight(m) ==
    pc \in {"Hash", "CommitSubtree"} =>
        \A q \in Path : hashes[q] # << >> => OwnHash(q) = SubtreeHash(m)[q]

\* A client that avoids the unsafe rewrites reads what the tree holds.
ReadsTree(m) ==
    SafeRewrites => \A k \in Key : m[k] = get(k) \/ (Removing /\ k = args.key)

InDb(d) ==
    /\ d \in [Key -> Felt \cup {None}] /\ SameKeys(d, flat_db)
    /\ trie_db = StoredTrie(d)
    /\ SafeRewrites => d = flat_db

\* A call that seeks its key was made by the client.
ArgsInv ==
    pc \in {"LoadRoot", "Traverse", "Finish"} =>
        args.key \in Keys /\ args.value \in Values \cup {ZERO}

Holds(m, d) ==
    /\ ShapeInv /\ ArgsInv /\ ProperInv
    /\ InTree(m) /\ HashesRight(m) /\ ReadsTree(m) /\ InDb(d)

\* What becomes of the abstract call: it begins, goes on or is refused...
CallGoesOn ==
    \/ AbstractCall' = AbstractCall
    \/ AbstractCall = [op |-> "none"] /\ AbstractCall' \in LeafMapOfTrie!Calls
    \/ /\ "set" \in ReadErrors /\ AbstractCall.op = "write"
       /\ AbstractCall' = [op |-> "none"]

\* ...or ends with what it was to do.
Writes(k, v) ==
    /\ AbstractCall = [op |-> "write", key |-> k, value |-> v]
    /\ AbstractCall' = [op |-> "none"]

Commits == AbstractCall = [op |-> "commit"] /\ AbstractCall' = [op |-> "none"]

Restarts == Reopen /\ AbstractCall' = [op |-> "none"]

\* What a step may do to the leaves of the tree and of the database.
Moves(m, d, m2, d2) ==
    \/ m2 = m /\ d2 = d /\ CallGoesOn
    \/ d2 = d /\ \E k \in Keys, v \in Values \cup {None} : m2 = [m EXCEPT ![k] = v] /\ Writes(k, v)
    \/ d2 = m /\ m2 = m /\ Commits
    \/ d2 = d /\ m2 = d /\ (Commits \/ Restarts)

\* The abstract call by the step the code is at.
LEMMA CallIs ==
  /\ pc \in {"LoadRoot", "Traverse", "Finish"} =>
        AbstractCall = [op |-> "write", key |-> args.key,
                        value |-> IF args.value = ZERO THEN None ELSE args.value]
  /\ pc \in {"Hash", "CommitSubtree", "Write"} => AbstractCall = [op |-> "commit"]
  /\ pc \notin {"LoadRoot", "Traverse", "Finish", "Hash", "CommitSubtree", "Write"} =>
        AbstractCall = [op |-> "none"]
  BY DEF AbstractCall

LEMMA CallIsNext ==
  /\ pc' \in {"LoadRoot", "Traverse", "Finish"} =>
        AbstractCall' = [op |-> "write", key |-> args'.key,
                         value |-> IF args'.value = ZERO THEN None ELSE args'.value]
  /\ pc' \in {"Hash", "CommitSubtree", "Write"} => AbstractCall' = [op |-> "commit"]
  /\ pc' \notin {"LoadRoot", "Traverse", "Finish", "Hash", "CommitSubtree", "Write"} =>
        AbstractCall' = [op |-> "none"]
  BY DEF AbstractCall

(***************************************************************************)
(* Facts about the tree in any state                                       *)
(***************************************************************************)
LEMMA CoreTree ==
  ASSUME CoreInv, NEW m, InTree(m)
  PROVE  HasShapeOf(View, m)
  <1>1. HasShapeOf(View, Pending)
    BY DEF CoreInv
  <1>2. \A k \in Key : Pending[k] = None <=> m[k] = None
    BY DEF InTree, SameKeys
  <1> QED BY <1>1, <1>2, ShapeOfKeys

LEMMA TreeShape ==
  ASSUME ShapeInv, NEW m, InTree(m)
  PROVE  HasShapeOf(View, m)
  BY ShapeCore, CoreTree

LEMMA CoreRight ==
  ASSUME CoreInv, NEW m, InTree(m), NEW p \in Path, View[p] # NoNode
  PROVE  /\ RightNode(View[p], m, p)
         /\ HasNode(m, p) /\ DOMAIN View[p].next = Labels(m, p)
         /\ IsBinary(View[p]) = Branches(m, p)
  <1>1. Looks(View, m, p)
    BY CoreTree, ShapeIs
  <1>2. HasNode(m, p) /\ DOMAIN View[p].next = Labels(m, p) /\ IsBinary(View[p]) = Branches(m, p)
    BY <1>1 DEF Looks
  <1>3. NodesTyped
    BY DEF CoreInv
  <1>4. CASE nodes[p] # NoNode
    <2>1. View[p] = nodes[p]
      BY <1>3, <1>4, CoreViewType
    <2> QED BY <1>2, <1>4, <2>1 DEF InTree
  <1>5. CASE nodes[p] = NoNode
    <2>1. View[p] = StoredTrie(m)[p]
      BY <1>5 DEF InTree
    <2>2. \A l \in Labels(m, p) : StoredTrie(m)[p].next[l] = SubtreeHash(m)[p \o l]
      BY <1>2, StoredHandle
    <2>3. RightNode(View[p], m, p)
      BY <1>2, <2>1, <2>2 DEF RightNode
    <2> QED BY <1>2, <2>3
  <1> QED BY <1>4, <1>5

LEMMA RightInView ==
  ASSUME ShapeInv, NEW m, InTree(m), NEW p \in Path, View[p] # NoNode
  PROVE  /\ RightNode(View[p], m, p)
         /\ HasNode(m, p) /\ DOMAIN View[p].next = Labels(m, p)
         /\ IsBinary(View[p]) = Branches(m, p)
  BY ShapeCore, CoreRight

\* An arc that leads to a leaf has its value.
LEMMA CoreLeafArc ==
  ASSUME CoreInv, NEW m, InTree(m), NEW k \in Key,
         NEW p \in Path, HasNode(m, p), NEW l \in Labels(m, p), p \o l = k
  PROVE  View[p] # NoNode /\ View[p].next[l] = m[k]
  <1>1. View[p] # NoNode
    <2>1. Looks(View, m, p)
      BY CoreTree, ShapeIs
    <2> QED BY <2>1 DEF Looks
  <1>2. RightNode(View[p], m, p) /\ l \in DOMAIN View[p].next
    BY <1>1, CoreRight
  <1>3. View[p].next[l] # InMemory
    <2>1. CASE nodes[p] # NoNode
      <3>1. View[p] = nodes[p]
        BY <2>1, CoreNodeInMemory
      <3>2. nodes[p].next[l] = InMemory <=> nodes[k] # NoNode
        BY <1>2, <2>1, <3>1, CoreArc
      <3>3. nodes[k] = NoNode
        BY LeafHashIs, CoreNotInView
      <3> QED BY <3>1, <3>2, <3>3
    <2>2. CASE nodes[p] = NoNode
      <3>1. View[p] = StoredTrie(m)[p]
        BY <2>2 DEF InTree
      <3>2. StoredTrie(m)[p].next[l] = SubtreeHash(m)[p \o l]
        BY StoredHandle
      <3>3. View[p].next[l] = SubtreeHash(m)[k]
        BY <3>1, <3>2
      <3>4. Through(m, k) # {}
        <4>1. ArcOf(m, p, l)
          BY Arc
        <4> QED BY <4>1 DEF ArcOf
      <3>5. m \in [Key -> Felt \cup {None}] /\ k \in Path
        BY LeafHashIs DEF InTree
      <3>6. SubtreeHash(m)[k] \in Felt
        BY <3>4, <3>5, SubtreeHashType
      <3> QED BY <3>3, <3>6
    <2> QED BY <2>1, <2>2
  <1>4. View[p].next[l] = SubtreeHash(m)[p \o l]
    BY <1>2, <1>3 DEF RightNode
  <1> QED BY <1>1, <1>4, LeafHashIs

LEMMA CoreLeaves ==
  ASSUME CoreInv, NEW m, InTree(m), NEW k \in Key
  PROVE  LeafIn(View, k) = m[k]
  <1>1. ASSUME NEW p \in Path, NEW l \in Labels(m, p), HasNode(m, p), p \o l = k
        PROVE  View[p].next[l] = m[k]
    BY <1>1, CoreLeafArc
  <1> QED BY <1>1, CoreTree, LeafInIs

LEMMA LeavesOfView ==
  ASSUME ShapeInv, NEW m, InTree(m), NEW k \in Key
  PROVE  LeafIn(View, k) = m[k]
  BY ShapeCore, CoreLeaves

(***************************************************************************)
(* Steps that change no leaf                                               *)
(***************************************************************************)
LEMMA SameTree ==
  ASSUME NEW m, InTree(m), \A k \in Key : Pending[k] = None <=> Pending'[k] = None,
         nodes' = nodes, \A p \in Path : View'[p] = View[p]
  PROVE  InTree(m)'
  <1>1. SameKeys(m, Pending)'
    BY DEF InTree, SameKeys
  <1>2. \A p \in Path : IF nodes[p] # NoNode THEN RightNode(nodes[p], m, p)
                                             ELSE View'[p] = StoredTrie(m)[p]
    BY DEF InTree
  <1> QED BY <1>1, <1>2 DEF InTree

\* The nodes that are in memory now were there, with no new handle, or are
\* taken as the tree had them; what is not in memory is as before.
LEMMA CoreLoaded ==
  ASSUME CoreInv, NEW m, InTree(m), \A k \in Key : Pending[k] = None <=> Pending'[k] = None,
         \A p \in Path : nodes'[p] # NoNode /\ nodes'[p] # View[p] =>
             /\ nodes[p] # NoNode
             /\ \A l \in DOMAIN nodes'[p].next : nodes'[p].next[l] # InMemory =>
                   l \in DOMAIN nodes[p].next /\ nodes'[p].next[l] = nodes[p].next[l],
         \A p \in Path : nodes'[p] = NoNode => nodes[p] = NoNode /\ View'[p] = View[p]
  PROVE  InTree(m)'
  <1>1. SameKeys(m, Pending)'
    BY DEF InTree, SameKeys
  <1>2. ASSUME NEW p \in Path, nodes'[p] # NoNode PROVE RightNode(nodes'[p], m, p)
    <2>1. CASE nodes'[p] = View[p]
      <3>1. RightNode(View[p], m, p)
        BY <1>2, <2>1, CoreRight
      <3> QED BY <2>1, <3>1
    <2>2. CASE nodes'[p] # View[p]
      <3>1. nodes[p] # NoNode /\ RightNode(nodes[p], m, p)
        BY <1>2, <2>2 DEF InTree
      <3> QED BY <1>2, <2>2, <3>1 DEF RightNode
    <2> QED BY <2>1, <2>2
  <1>3. ASSUME NEW p \in Path, nodes'[p] = NoNode PROVE View'[p] = StoredTrie(m)[p]
    BY <1>3 DEF InTree
  <1> QED BY <1>1, <1>2, <1>3 DEF InTree

LEMMA SameDb ==
  ASSUME NEW d, InDb(d), UNCHANGED <<trie_db, flat_db>>
  PROVE  InDb(d)'
  BY DEF InDb, SameKeys

LEMMA ValuesAreFelts == Values \subseteq Felt \ {ZERO}
  BY ValuesAssumption

LEMMA StartHolds ==
  ASSUME NEW m, NEW d, Holds(m, d), NEW key \in Keys, NEW value \in Felt \ {ZERO},
         \/ SetCached(key, value) \/ SetSame(key, value) \/ SetSeek(key, value)
         \/ DeleteAbsent(key) \/ DeleteSeek(key),
         value \in Values \/ DeleteAbsent(key) \/ DeleteSeek(key)
  PROVE  Holds(m, d)'
  <1>1. ShapeInv
    BY DEF Holds
  <1>2. ShapeInv'
    BY <1>1, StartShape
  <1>3. /\ pc = "Idle" /\ pc' \in {"Idle", "LoadRoot"}
        /\ UNCHANGED <<trie_db, flat_db, nodes, death_row, updates>>
    BY DEF SetCached, SetSame, SetSeek, DeleteAbsent, DeleteSeek, StartSet, StartDelete, Seek, db, tree, commit
  <1>4. ArgsInv'
    <2>1. pc' = "LoadRoot" => args' = [key |-> key, value |-> value] \/ args' = [key |-> key, value |-> ZERO]
      BY <1>3 DEF SetCached, SetSame, SetSeek, DeleteAbsent, DeleteSeek, StartSet, StartDelete, Seek
    <2>2. pc' = "LoadRoot" => args'.key = key /\ args'.value \in {value, ZERO}
      BY <2>1
    <2>3. CASE value \in Values
      BY <1>3, <2>2, <2>3 DEF ArgsInv
    <2>4. CASE DeleteAbsent(key) \/ DeleteSeek(key)
      <3>1. pc' = "LoadRoot" => args' = [key |-> key, value |-> ZERO]
        BY <1>3, <2>4 DEF DeleteAbsent, DeleteSeek, StartDelete, Seek
      <3>2. pc' = "LoadRoot" => args'.key = key /\ args'.value = ZERO
        BY <3>1
      <3> QED BY <1>3, <3>2 DEF ArgsInv
    <2> QED BY <2>3, <2>4
  <1>5. ProperInv'
    BY <1>3 DEF Holds, ProperInv, Proper
  <1>6. InTree(m)'
    <2>1. View' = View
      BY <1>1, <1>3, SameNodes
    <2>2. \A k \in Key : Pending[k] = None <=> Pending'[k] = None
      BY <1>1, StartKeys
    <2> QED BY <1>3, <2>1, <2>2, SameTree DEF Holds
  <1>7. HashesRight(m)'
    BY <1>3 DEF HashesRight
  <1>8. ReadsTree(m)'
    <2> SUFFICES ASSUME SafeRewrites, NEW k \in Key
                 PROVE  m[k] = get(k)' \/ (Removing /\ k = args.key)'
      BY DEF ReadsTree
    <2>1. m[k] = get(k)
      BY <1>3 DEF Holds, ReadsTree, Removing
    <2>2. TypeOK /\ key \in Key
      BY KeysAssumption DEF Holds, ShapeInv, TInv
    <2>3. DOMAIN cache_leaf_modified = Key
      BY <2>2 DEF TypeOK
    <2>4. CASE UNCHANGED cache_leaf_modified
      BY <1>3, <2>1, <2>4 DEF get
    <2>5. CASE SetCached(key, value)
      <3>1. cache_leaf_modified[key] = value
        BY <2>5 DEF SetCached, StartSet, UnsafeRewrite
      <3>2. cache_leaf_modified'[k] = cache_leaf_modified[k]
        BY <2>3, <2>5, <3>1 DEF SetCached
      <3> QED BY <1>3, <2>1, <3>2 DEF get
    <2>6. CASE DeleteSeek(key)
      <3>1. CASE k = key
        <4>1. pc' = "LoadRoot" /\ args' = [key |-> key, value |-> ZERO]
          BY <2>6 DEF DeleteSeek, Seek
        <4>2. args'.key = key /\ args'.value = ZERO
          BY <4>1
        <4> QED BY <3>1, <4>1, <4>2 DEF Removing
      <3>2. CASE k # key
        <4>1. cache_leaf_modified'[k] = cache_leaf_modified[k]
          BY <2>3, <2>6, <3>2 DEF DeleteSeek
        <4> QED BY <1>3, <2>1, <4>1 DEF get
      <3> QED BY <3>1, <3>2
    <2> QED BY <2>4, <2>5, <2>6 DEF SetSame, SetSeek, DeleteAbsent, tree
  <1>9. InDb(d)'
    BY <1>3, SameDb DEF Holds
  <1> QED BY <1>2, <1>4, <1>5, <1>6, <1>7, <1>8, <1>9 DEF Holds

LEMMA CoreProper ==
  ASSUME CoreInv, ProperInv, NEW m, InTree(m), NEW p \in Path, View[p] # NoNode
  PROVE  Proper(View[p])
  <1>1. CASE nodes[p] # NoNode
    <2>1. View[p] = nodes[p]
      BY <1>1, CoreNodeInMemory
    <2> QED BY <1>1, <2>1 DEF ProperInv
  <1>2. CASE nodes[p] = NoNode
    <2>1. View[p] = StoredTrie(m)[p]
      BY <1>2 DEF InTree
    <2>2. HasNode(m, p)
      BY CoreRight
    <2>3. StoredTrie(m)[p].next = [l \in Labels(m, p) |-> SubtreeHash(m)[p \o l]]
      BY <2>2, StoredNext
    <2>4. Proper(StoredTrie(m)[p])
      BY <2>3 DEF Proper
    <2> QED BY <2>1, <2>4
  <1> QED BY <1>1, <1>2

LEMMA SameReads ==
  ASSUME NEW m, ReadsTree(m), UNCHANGED <<args, cache_leaf_modified, flat_db>>, Removing' <=> Removing
  PROVE  ReadsTree(m)'
  <1>1. \A k \in Key : get(k)' = get(k)
    BY DEF get
  <1> QED BY <1>1 DEF ReadsTree

\* A step of a call that only moves the iterator and loads nodes.
LEMMA LoadHolds ==
  ASSUME NEW m, NEW d, Holds(m, d), ShapeInv', pc \in {"LoadRoot", "Traverse"},
         pc' \in {"Traverse", "Finish"},
         UNCHANGED <<args, cache_leaf_modified, flat_db, trie_db, updates, death_row>>,
         \A p \in Path : nodes'[p] # NoNode /\ nodes'[p] # View[p] =>
             /\ nodes[p] # NoNode /\ Proper(nodes'[p])
             /\ \A l \in DOMAIN nodes'[p].next : nodes'[p].next[l] # InMemory =>
                   l \in DOMAIN nodes[p].next /\ nodes'[p].next[l] = nodes[p].next[l],
         \A p \in Path : nodes'[p] = NoNode => nodes[p] = NoNode
  PROVE  Holds(m, d)'
  <1>1. ShapeInv /\ InTree(m) /\ ProperInv /\ updates = NoUpdates
    BY DEF Holds, ShapeInv, PhaseInv
  <1>2. Pending' = Pending /\ (Removing' <=> Removing)
    BY SamePending
  <1>3. ASSUME NEW p \in Path, nodes'[p] = NoNode PROVE nodes[p] = NoNode /\ View'[p] = View[p]
    <2>1. nodes[p] = NoNode
      BY <1>3
    <2> QED BY <1>3, <2>1 DEF View, DbNode
  <1>4. InTree(m)'
    BY <1>1, <1>2, <1>3, CoreLoaded, ShapeCore
  <1>5. ProperInv'
    <2> SUFFICES ASSUME NEW p \in Path, nodes'[p] # NoNode PROVE Proper(nodes'[p])
      BY DEF ProperInv
    <2>1. CASE nodes'[p] = View[p]
      <3>1. Proper(View[p])
        BY <1>1, <2>1, CoreProper, ShapeCore
      <3> QED BY <2>1, <3>1
    <2> QED BY <2>1
  <1>6. ReadsTree(m)'
    BY <1>2, SameReads DEF Holds
  <1>7. HashesRight(m)' /\ ArgsInv' /\ InDb(d)'
    BY SameDb DEF Holds, HashesRight, ArgsInv
  <1> QED BY <1>4, <1>5, <1>6, <1>7 DEF Holds

LEMMA LoadRootHolds ==
  ASSUME NEW m, NEW d, Holds(m, d), LoadRootNode
  PROVE  Holds(m, d)'
  <1>1. ShapeInv /\ ShapeInv' /\ updates = NoUpdates /\ TypeOK
    BY LoadRootShape DEF Holds, ShapeInv, PhaseInv, TInv, LoadRootNode
  <1>2. /\ pc = "LoadRoot" /\ pc' \in {"Traverse", "Finish"}
        /\ UNCHANGED <<args, cache_leaf_modified, flat_db, trie_db, updates, death_row>>
    BY DEF LoadRootNode, db, iter, commit
  <1>3. ASSUME NEW p \in Path PROVE nodes'[p] = nodes[p] \/ (nodes[p] = NoNode /\ nodes'[p] = View[p])
    <2>1. CASE root_node = "None" /\ p = << >>
      <3>1. nodes[<< >>] = NoNode
        BY <1>1, <1>2, <2>1 DEF ShapeInv, RootInv
      <3>2. View[<< >>] = DbNode(<< >>)
        BY <1>1, <3>1, RootInPath, ViewInCall
      <3>3. nodes' = [nodes EXCEPT ![<< >>] = DbNode(<< >>)]
        BY <2>1 DEF LoadRootNode
      <3>4. nodes'[<< >>] = DbNode(<< >>)
        BY <1>1, <3>3, RootInPath DEF TypeOK, IsNodeMap
      <3> QED BY <2>1, <3>1, <3>2, <3>4
    <2>2. CASE ~(root_node = "None" /\ p = << >>)
      BY <1>1, <2>2 DEF LoadRootNode, TypeOK, IsNodeMap
    <2> QED BY <2>1, <2>2
  <1>4. ASSUME NEW p \in Path, nodes'[p] # NoNode, nodes'[p] # View[p]
        PROVE  /\ nodes[p] # NoNode /\ Proper(nodes'[p])
               /\ \A l \in DOMAIN nodes'[p].next : nodes'[p].next[l] # InMemory =>
                     l \in DOMAIN nodes[p].next /\ nodes'[p].next[l] = nodes[p].next[l]
    <2>1. nodes'[p] = nodes[p]
      BY <1>3, <1>4
    <2> QED BY <1>4, <2>1 DEF Holds, ProperInv
  <1>5. ASSUME NEW p \in Path, nodes'[p] = NoNode PROVE nodes[p] = NoNode
    BY <1>3, <1>5
  <1> QED BY <1>1, <1>2, <1>4, <1>5, LoadHolds

LEMMA TraverseHolds ==
  ASSUME NEW m, NEW d, Holds(m, d), TraverseOne
  PROVE  Holds(m, d)'
  <1>1. ShapeInv /\ ShapeInv' /\ pc = "Traverse" /\ TypeOK
    BY TraverseShape DEF Holds, ShapeInv, TInv, TraverseOne
  <1>2. Advance(nodes[current_path])
    BY <1>1, TraversalHolds DEF TraverseOne
  <1>3. /\ pc' \in {"Traverse", "Finish"}
        /\ UNCHANGED <<args, cache_leaf_modified, flat_db, trie_db, updates, death_row>>
    BY <1>2 DEF Advance, db, commit
  <1>4. CASE EndOfTraversal(nodes[current_path])
    <2>1. nodes' = nodes
      BY <1>2, <1>4 DEF Advance
    <2>2. ASSUME NEW p \in Path, nodes'[p] # NoNode, nodes'[p] # View[p]
          PROVE  FALSE
      BY <1>1, <2>1, <2>2, NodeInMemory
    <2> QED BY <1>1, <1>3, <2>1, <2>2, LoadHolds
  <1>5. CASE ~EndOfTraversal(nodes[current_path])
    <2>1. PICK p, l, c : p = current_path /\ l = NextLabel(nodes[current_path]) /\ c = current_path \o l
      OBVIOUS
    <2>2. nodes' = LoadChild(current_path, NextLabel(nodes[current_path]))
      BY <1>2, <1>5 DEF Advance
    <2>3. /\ c \in Path /\ c # p /\ nodes'[c] = View[c] /\ nodes'[c] # NoNode
          /\ nodes'[p] = WithChild(nodes[p], l, InMemory) /\ nodes'[p] # NoNode
          /\ \A q \in Path : q \notin {p, c} => nodes'[q] = nodes[q]
      BY <1>1, <1>3, <1>5, <2>1, <2>2, LoadedChild
    <2>4. nodes[p] # NoNode
      BY <1>1, <2>1, AtNode
    <2>5. nodes'[p].next = [nodes[p].next EXCEPT ![l] = InMemory]
      BY <2>3 DEF WithChild
    <2>6. ASSUME NEW q \in Path, nodes'[q] # NoNode, nodes'[q] # View[q]
          PROVE  /\ nodes[q] # NoNode /\ Proper(nodes'[q])
                 /\ \A x \in DOMAIN nodes'[q].next : nodes'[q].next[x] # InMemory =>
                       x \in DOMAIN nodes[q].next /\ nodes'[q].next[x] = nodes[q].next[x]
      <3>1. CASE q = p
        <4>1. Proper(nodes'[p])
          BY <2>5 DEF Proper
        <4> QED BY <2>4, <2>5, <3>1, <4>1
      <3>2. CASE q # p
        <4>1. nodes'[q] = nodes[q]
          BY <2>3, <2>6, <3>2
        <4> QED BY <1>1, <2>6, <4>1, NodeInMemory
      <3> QED BY <3>1, <3>2
    <2>7. ASSUME NEW q \in Path, nodes'[q] = NoNode PROVE nodes[q] = NoNode
      BY <2>3, <2>7
    <2> QED BY <1>1, <1>3, <2>6, <2>7, LoadHolds
  <1> QED BY <1>4, <1>5

LEMMA CommitStartHolds ==
  ASSUME NEW m, NEW d, Holds(m, d), CommitStart
  PROVE  Holds(m, d)'
  <1>1. ShapeInv /\ ShapeInv' /\ updates = NoUpdates /\ hashes = NoHashes
    BY CommitStartShape DEF Holds, ShapeInv, PhaseInv, CommitStart
  <1>2. /\ pc = "Idle" /\ pc' \in {"Hash", "Write"} /\ death_row' = {}
        /\ updates' = [p \in Path |-> IF p \in death_row THEN NoNode ELSE NoChange]
        /\ UNCHANGED <<args, cache_leaf_modified, flat_db, trie_db, nodes, hashes>>
    BY DEF CommitStart, db, iter
  <1>3. ~Removing /\ ~Removing'
    BY <1>2 DEF Removing
  <1>4. \A k \in Key : Pending[k] = None <=> Pending'[k] = None
    <2>1. \A k \in Key : get(k)' = get(k)
      BY <1>2 DEF get
    <2> QED BY <1>3, <2>1 DEF Pending
  <1>5. ASSUME NEW p \in Path PROVE View'[p] = View[p]
    <2>1. View[p] = IF nodes[p] # NoNode THEN nodes[p] ELSE DbNode(p)
      BY <1>1, ViewInCall
    <2>2. View'[p] = IF nodes[p] # NoNode THEN nodes[p]
                     ELSE IF updates'[p] # NoChange THEN updates'[p] ELSE DbNode(p)'
      BY <1>2 DEF View
    <2>3. DbNode(p)' = trie_db[p]
      BY <1>2 DEF DbNode
    <2>4. updates'[p] = IF p \in death_row THEN NoNode ELSE NoChange
      BY <1>2
    <2> QED BY <2>1, <2>2, <2>3, <2>4, NotNode DEF DbNode
  <1>6. InTree(m)'
    BY <1>2, <1>4, <1>5, SameTree DEF Holds
  <1>7. HashesRight(m)'
    BY <1>1, <1>2 DEF HashesRight, NoHashes
  <1>8. ReadsTree(m)'
    BY <1>2, <1>3, SameReads DEF Holds
  <1>9. ProperInv' /\ ArgsInv' /\ InDb(d)'
    BY <1>2, SameDb DEF Holds, ProperInv, Proper, ArgsInv
  <1> QED BY <1>1, <1>6, <1>7, <1>8, <1>9 DEF Holds

\* compute_hashes gives a node the Merkle hash of its keys.
LEMMA ComputedHashRight ==
  ASSUME ShapeInv, NEW m, InTree(m), HashesRight(m), pc = "Hash",
         NEW p \in Path, nodes[p] # NoNode, ChildrenHashed(p)
  PROVE  ComputedHash(p) = SubtreeHash(m)[p]
  <1>1. /\ IsNodeAt(nodes[p], p) /\ View[p] = nodes[p] /\ RightNode(nodes[p], m, p)
        /\ HasNode(m, p) /\ DOMAIN nodes[p].next = Labels(m, p)
        /\ IsBinary(nodes[p]) = Branches(m, p)
    BY NodeInMemory, RightInView
  <1>2. Len(p) < MaxHeight /\ Len(p) \in Nat
    BY <1>1, PathLen DEF HasNode
  <1>3. ASSUME NEW l \in DOMAIN nodes[p].next PROVE ChildHash(p, l) = SubtreeHash(m)[p \o l]
    <2>1. CASE nodes[p].next[l] = InMemory
      <3>1. hashes[p \o l] # << >>
        BY <2>1 DEF ChildrenHashed
      <3>2. p \o l \in Path
        BY <1>1 DEF IsNodeAt
      <3>3. OwnHash(p \o l) = SubtreeHash(m)[p \o l]
        BY <3>1, <3>2 DEF HashesRight
      <3> QED BY <2>1, <3>3 DEF ChildHash, OwnHash
    <2>2. CASE nodes[p].next[l] # InMemory
      BY <1>1, <2>2 DEF ChildHash, RightNode
    <2> QED BY <2>1, <2>2
  <1>4. PICK child : child = [l \in DOMAIN nodes[p].next |-> ChildHash(p, l)]
    OBVIOUS
  <1>5. \A l \in DOMAIN nodes[p].next : child[l] = SubtreeHash(m)[p \o l]
    BY <1>3, <1>4
  <1>6. ComputedHash(p) = NodeHash(nodes[p], child)
    BY <1>4 DEF ComputedHash
  <1>7. SubtreeHash(m)[p] = IF Branches(m, p)
           THEN hash_binary_node(SubtreeHash(m)[Append(p, 0)], SubtreeHash(m)[Append(p, 1)])
           ELSE hash_edge_node(SharedPath(m, p), SubtreeHash(m)[p \o SharedPath(m, p)])
    <2>1. SubtreeHash(m)[p] = HashAt(m, SubtreeHash(m), p)
      BY SubtreeHashIs
    <2> QED BY <1>2, <2>1 DEF HashAt
  <1>8. CASE Branches(m, p)
    <2>1. <<0>> \in DOMAIN nodes[p].next /\ <<1>> \in DOMAIN nodes[p].next
      BY <1>1, <1>8 DEF Labels, Directions
    <2>2. Append(p, 0) = p \o <<0>> /\ Append(p, 1) = p \o <<1>>
      BY <1>2, AppendPath DEF Bit
    <2>3. child[<<0>>] = SubtreeHash(m)[Append(p, 0)] /\ child[<<1>>] = SubtreeHash(m)[Append(p, 1)]
      BY <1>5, <2>1, <2>2
    <2> QED BY <1>1, <1>6, <1>7, <1>8, <2>3 DEF NodeHash
  <1>9. CASE ~Branches(m, p)
    <2>1. IsEdge(nodes[p]) /\ ~IsBinary(nodes[p])
      BY <1>1, <1>9, NodeKind
    <2>2. EdgePath(nodes[p]) \in DOMAIN nodes[p].next
      BY <1>1, <2>1, EdgeLabel
    <2>3. EdgePath(nodes[p]) = SharedPath(m, p)
      BY <1>1, <1>9, <2>2 DEF Labels
    <2>4. child[EdgePath(nodes[p])] = SubtreeHash(m)[p \o SharedPath(m, p)]
      BY <1>5, <2>2, <2>3
    <2> QED BY <1>6, <1>7, <1>9, <2>1, <2>3, <2>4 DEF NodeHash
  <1> QED BY <1>8, <1>9

LEMMA ComputeHashHolds ==
  ASSUME NEW m, NEW d, Holds(m, d), NEW p \in Path, ComputeHash(p)
  PROVE  Holds(m, d)'
  <1>1. ShapeInv /\ ShapeInv' /\ TypeOK
    BY ComputeHashShape DEF Holds, ShapeInv, TInv
  <1>2. /\ pc = "Hash" /\ pc' \in {"Hash", "CommitSubtree"} /\ nodes[p] # NoNode /\ ChildrenHashed(p)
        /\ hashes' = [hashes EXCEPT ![p] = Append(SubtreeHashes(p), ComputedHash(p))]
        /\ UNCHANGED <<args, cache_leaf_modified, flat_db, trie_db, nodes, updates, death_row>>
    <2>1. pc = "Hash" /\ nodes[p] # NoNode
      BY DEF ComputeHash
    <2>2. LinkedAt(p)
      BY <1>1, <2>1 DEF ShapeInv, LinkInv
    <2>3. ~HashBroken(p)
      BY <2>2 DEF HashBroken, LinkedAt
    <2> QED BY <2>3 DEF ComputeHash, db, iter, tree
  <1>3. ~Removing /\ ~Removing'
    BY <1>2 DEF Removing
  <1>4. \A k \in Key : Pending[k] = None <=> Pending'[k] = None
    <2>1. \A k \in Key : get(k)' = get(k)
      BY <1>2 DEF get
    <2> QED BY <1>3, <2>1 DEF Pending
  <1>5. View' = View
    BY <1>1, <1>2, SameNodes
  <1>6. InTree(m)'
    BY <1>2, <1>4, <1>5, SameTree DEF Holds
  <1>7. HashesRight(m)'
    <2>1. ComputedHash(p) = SubtreeHash(m)[p]
      BY <1>1, <1>2, ComputedHashRight DEF Holds
    <2>2. SubtreeHashes(p) \in Seq(Felt)
      BY <1>1, <1>2, SubtreeListed
    <2>3. PICK hs : hs = SubtreeHashes(p)
      OBVIOUS
    <2>4. Append(hs, ComputedHash(p))[Len(Append(hs, ComputedHash(p)))] = ComputedHash(p)
      BY <2>2, <2>3
    <2>5. hashes'[p] = Append(hs, ComputedHash(p))
      BY <1>1, <1>2, <2>3 DEF TypeOK
    <2>6. OwnHash(p)' = SubtreeHash(m)[p]
      BY <2>1, <2>4, <2>5 DEF OwnHash
    <2>7. ASSUME NEW q \in Path, q # p PROVE hashes'[q] = hashes[q]
      BY <1>1, <1>2, <2>7 DEF TypeOK
    <2>8. ASSUME NEW q \in Path, hashes'[q] # << >> PROVE OwnHash(q)' = SubtreeHash(m)[q]
      <3>1. CASE q = p
        BY <2>6, <3>1 DEF OwnHash
      <3>2. CASE q # p
        <4>1. hashes[q] # << >> /\ hashes'[q] = hashes[q]
          BY <2>7, <2>8, <3>2
        <4>2. OwnHash(q) = SubtreeHash(m)[q]
          BY <1>2, <4>1 DEF Holds, HashesRight
        <4> QED BY <4>1, <4>2 DEF OwnHash
      <3> QED BY <3>1, <3>2
    <2> QED BY <2>8 DEF HashesRight
  <1>8. ReadsTree(m)'
    BY <1>2, <1>3, SameReads DEF Holds
  <1>9. ProperInv' /\ ArgsInv' /\ InDb(d)'
    BY <1>2, SameDb DEF Holds, ProperInv, Proper, ArgsInv
  <1> QED BY <1>1, <1>6, <1>7, <1>8, <1>9 DEF Holds

\* The hash a node takes at its turn is its own.
LEMMA NextHashRight ==
  ASSUME ShapeInv, NEW m, HashesRight(m), NEW p \in Path, CommitSubtree(p)
  PROVE  Head(hashes[<< >>]) = SubtreeHash(m)[p]
  <1>1. PICK s : /\ ListsHashes(s, Below(<< >>), hashes[<< >>])
                 /\ s # << >> /\ s[1] = p /\ s \in Seq(Below(<< >>)) /\ hashes[<< >>] # << >>
    BY HashAvailable
  <1>2. 1 \in 1..Len(s)
    BY <1>1
  <1>3. hashes[s[1]] # << >> /\ hashes[<< >>][1] = OwnHash(s[1])
    BY <1>1, <1>2 DEF ListsHashes
  <1>4. OwnHash(p) = SubtreeHash(m)[p]
    BY <1>1, <1>3 DEF HashesRight, CommitSubtree
  <1>5. Head(hashes[<< >>]) = hashes[<< >>][1]
    <2>1. hashes[<< >>] \in Seq(Felt)
      BY RootInPath DEF ShapeInv, TInv, TypeOK
    <2> QED BY <1>1, <2>1
  <1> QED BY <1>1, <1>3, <1>4, <1>5

\* What is written for it is the node of the trie of m.
LEMMA HashedRight ==
  ASSUME ShapeInv, ProperInv, NEW m, InTree(m), NEW p \in Path, CommitsNext(p)
  PROVE  Hashed(nodes[p], SubtreeHash(m)[p]) = StoredTrie(m)[p]
  <1>1. PICK n : n = nodes[p]
    OBVIOUS
  <1>2. /\ n # NoNode /\ IsNodeAt(n, p) /\ RightNode(n, m, p) /\ Proper(n)
        /\ HasNode(m, p) /\ DOMAIN n.next = Labels(m, p) /\ IsBinary(n) = Branches(m, p)
        /\ \A l \in DOMAIN n.next : n.next[l] # InMemory
    BY <1>1, NodeInMemory, RightInView DEF CommitsNext, ProperInv
  <1>3. n.height = Len(p) /\ (IsEdge(n) <=> ~IsBinary(n)) /\ IsBinary(n) \in BOOLEAN
    BY <1>2, NodeKind
  <1>4. n.type = IF Branches(m, p) THEN "Binary" ELSE "Edge"
    BY <1>2, <1>3 DEF IsBinary, IsEdge
  <1>5. n.next = [l \in Labels(m, p) |-> SubtreeHash(m)[p \o l]]
    <2>1. \A l \in DOMAIN n.next : n.next[l] = SubtreeHash(m)[p \o l]
      BY <1>2 DEF RightNode
    <2>2. n.next = [l \in DOMAIN n.next |-> n.next[l]]
      BY <1>2 DEF Proper
    <2>3. [l \in DOMAIN n.next |-> n.next[l]] = [l \in Labels(m, p) |-> SubtreeHash(m)[p \o l]]
      BY <1>2, <2>1
    <2> QED BY <2>2, <2>3
  <1>6. StoredTrie(m)[p] = [type   |-> IF Branches(m, p) THEN "Binary" ELSE "Edge",
                            hash   |-> SubtreeHash(m)[p],
                            height |-> Len(p),
                            next   |-> [l \in Labels(m, p) |-> SubtreeHash(m)[p \o l]]]
    BY <1>2 DEF StoredTrie
  <1>7. Hashed(n, SubtreeHash(m)[p]) = [type |-> n.type, hash |-> SubtreeHash(m)[p],
                                        height |-> n.height, next |-> n.next]
    BY DEF Hashed
  <1> QED BY <1>1, <1>3, <1>4, <1>5, <1>6, <1>7

LEMMA CommitSubtreeTree ==
  ASSUME NEW m, NEW d, Holds(m, d), NEW p \in Path, CommitSubtree(p),
         \A k \in Key : Pending[k] = None <=> Pending'[k] = None
  PROVE  InTree(m)' /\ ProperInv'
  <1>1. PICK hash : hash = Head(hashes[<< >>])
    OBVIOUS
  <1>2. ShapeInv /\ ProperInv /\ InTree(m) /\ CommittedAt(p, hash) /\ hash = SubtreeHash(m)[p]
    BY <1>1, CommitSubtreeIs, NextHashRight DEF Holds
  <1>3. CommitsNext(p) /\ UNCHANGED <<trie_db, death_row>> /\ nodes' = ReplaceInParent(p, hash)
    BY <1>2 DEF CommittedAt
  <1>4. /\ nodes'[p] = NoNode /\ updates'[p] # NoChange /\ updates'[p] = Hashed(nodes[p], hash)
        /\ \A q \in Path : q # p => updates'[q] = updates[q]
        /\ \A q \in Path : nodes'[q] # NoNode <=> q # p /\ nodes[q] # NoNode
        /\ \A q \in Path : nodes'[q] # NoNode =>
               /\ SameNode(nodes[q], nodes'[q])
               /\ \A l \in DOMAIN nodes[q].next :
                     nodes'[q].next[l] = IF q \o l = p THEN hash ELSE nodes[q].next[l]
    BY <1>2, CommittedNodes
  <1>5. SameKeys(m, Pending)'
    BY <1>2 DEF InTree, SameKeys
  <1>6. ASSUME NEW q \in Path, nodes'[q] # NoNode PROVE RightNode(nodes'[q], m, q)
    <2>1. nodes[q] # NoNode /\ DOMAIN nodes'[q].next = DOMAIN nodes[q].next
      BY <1>4, <1>6 DEF SameNode
    <2>2. RightNode(nodes[q], m, q)
      BY <1>2, <2>1 DEF InTree
    <2>3. \A l \in DOMAIN nodes[q].next :
             nodes'[q].next[l] = IF q \o l = p THEN hash ELSE nodes[q].next[l]
      BY <1>4, <1>6
    <2> QED BY <1>2, <2>1, <2>2, <2>3 DEF RightNode
  <1>7. ASSUME NEW q \in Path, nodes'[q] = NoNode PROVE View'[q] = StoredTrie(m)[q]
    <2>1. CASE q = p
      <3>1. View'[p] = updates'[p]
        BY <1>4 DEF View
      <3>2. Hashed(nodes[p], hash) = StoredTrie(m)[p]
        BY <1>2, <1>3, HashedRight
      <3> QED BY <1>4, <2>1, <3>1, <3>2
    <2>2. CASE q # p
      <3>1. nodes[q] = NoNode /\ updates'[q] = updates[q]
        BY <1>4, <1>7, <2>2
      <3>2. View'[q] = View[q]
        BY <1>3, <1>7, <3>1 DEF View, DbNode
      <3> QED BY <1>2, <3>1, <3>2 DEF InTree
    <2> QED BY <2>1, <2>2
  <1>8. ASSUME NEW q \in Path, nodes'[q] # NoNode PROVE Proper(nodes'[q])
    <2>1. q # p /\ nodes[q] # NoNode
      BY <1>4, <1>8
    <2>2. nodes'[q] = [type |-> nodes[q].type, hash |-> nodes[q].hash, height |-> nodes[q].height,
                       next |-> [l \in DOMAIN nodes[q].next |->
                                   IF q \o l = p THEN hash ELSE nodes[q].next[l]]]
      BY <1>3, <2>1 DEF ReplaceInParent
    <2>3. nodes'[q].next = [l \in DOMAIN nodes[q].next |-> IF q \o l = p THEN hash ELSE nodes[q].next[l]]
      BY <2>2
    <2> QED BY <2>3 DEF Proper
  <1> QED BY <1>2, <1>5, <1>6, <1>7, <1>8 DEF InTree, ProperInv

LEMMA CommitSubtreeHolds ==
  ASSUME NEW m, NEW d, Holds(m, d), NEW p \in Path, CommitSubtree(p)
  PROVE  Holds(m, d)'
  <1>1. ShapeInv /\ ShapeInv' /\ TypeOK
    BY CommitSubtreeShape DEF Holds, ShapeInv, TInv
  <1>2. /\ pc = "CommitSubtree" /\ pc' \in {"CommitSubtree", "Write"}
        /\ hashes' = [hashes EXCEPT ![<< >>] = Tail(@)]
        /\ UNCHANGED <<trie_db, flat_db, cache_leaf_modified>>
    BY <1>1, CommitSubtreeIs DEF CommittedAt
  <1>3. ~Removing /\ ~Removing'
    BY <1>2 DEF Removing
  <1>4. \A k \in Key : get(k)' = get(k)
    BY <1>2 DEF get
  <1>5. \A k \in Key : Pending[k] = None <=> Pending'[k] = None
    BY <1>3, <1>4 DEF Pending
  <1>6. InTree(m)' /\ ProperInv'
    BY <1>5, CommitSubtreeTree
  <1>7. HashesRight(m)'
    <2>1. ASSUME NEW q \in Path, hashes'[q] # << >> PROVE OwnHash(q)' = SubtreeHash(m)[q]
      <3>1. CASE q # << >>
        <4>1. hashes'[q] = hashes[q]
          BY <1>1, <1>2, <3>1 DEF TypeOK
        <4>2. OwnHash(q) = SubtreeHash(m)[q]
          BY <1>2, <2>1, <4>1 DEF Holds, HashesRight
        <4> QED BY <4>1, <4>2 DEF OwnHash
      <3>2. CASE q = << >>
        <4>1. PICK hs : hs = hashes[<< >>]
          OBVIOUS
        <4>2. hs \in Seq(Felt) /\ hashes'[<< >>] = Tail(hs)
          BY <1>1, <1>2, <4>1, RootInPath DEF TypeOK
        <4>3. hs # << >>
          BY <1>1, <4>1, HashAvailable
        <4>4. Tail(hs) # << >>
          BY <2>1, <3>2, <4>2
        <4>5. Tail(hs)[Len(Tail(hs))] = hs[Len(hs)]
          BY <4>2, <4>3, <4>4
        <4>6. OwnHash(<< >>) = SubtreeHash(m)[<< >>]
          BY <1>2, <4>1, <4>3, RootInPath DEF Holds, HashesRight
        <4> QED BY <3>2, <4>1, <4>2, <4>5, <4>6 DEF OwnHash
      <3> QED BY <3>1, <3>2
    <2> QED BY <2>1 DEF HashesRight
  <1>8. ReadsTree(m)'
    BY <1>3, <1>4 DEF Holds, ReadsTree
  <1>9. ArgsInv' /\ InDb(d)'
    BY <1>2, SameDb DEF Holds, ArgsInv
  <1> QED BY <1>1, <1>6, <1>7, <1>8, <1>9 DEF Holds

(***************************************************************************)
(* Steps that leave nothing but the database                               *)
(***************************************************************************)
LEMMA FreshHolds ==
  ASSUME NEW d
  PROVE  Fresh /\ InDb(d) => Holds(d, d)
  <1> SUFFICES ASSUME Fresh, InDb(d) PROVE Holds(d, d)
    OBVIOUS
  <1>1. ShapeInv
    BY FreshShape
  <1>2. pc = "Idle" /\ updates = NoUpdates /\ \A p \in Path : nodes[p] = NoNode
    BY DEF Fresh
  <1>3. ~Removing
    BY <1>2 DEF Removing
  <1>4. \A k \in Key : get(k) = flat_db[k] /\ Pending[k] = flat_db[k]
    BY <1>3, GetNone DEF Fresh, Pending
  <1>5. ASSUME NEW p \in Path PROVE View[p] = StoredTrie(d)[p]
    <2>1. View[p] = DbNode(p)
      BY <1>2, ViewInCall
    <2> QED BY <2>1 DEF Fresh, DbNode, InDb
  <1>6. InTree(d)
    BY <1>2, <1>4, <1>5 DEF InTree, InDb, SameKeys
  <1>7. HashesRight(d) /\ ArgsInv /\ ProperInv
    BY <1>2 DEF HashesRight, ArgsInv, ProperInv
  <1>8. ReadsTree(d)
    BY <1>4 DEF ReadsTree, InDb
  <1> QED BY <1>1, <1>6, <1>7, <1>8 DEF Holds

LEMMA FreshHoldsNext ==
  ASSUME NEW d
  PROVE  Fresh' /\ InDb(d)' => Holds(d, d)'
  <1>1. Fresh /\ InDb(d) => Holds(d, d)
    BY FreshHolds
  <1> QED BY <1>1, PTL

LEMMA InitHolds == Init => Holds(NoLeaves, NoLeaves)
  <1> SUFFICES ASSUME Init PROVE Holds(NoLeaves, NoLeaves)
    OBVIOUS
  <1>1. Fresh
    BY InitFresh
  <1>2. InDb(NoLeaves)
    <2>1. trie_db = NoNodes /\ flat_db = NoLeaves
      BY DEF Init
    <2>2. NoLeaves \in [Key -> Felt \cup {None}] /\ \A k \in Key : NoLeaves[k] = None
      BY DEF NoLeaves
    <2>3. ASSUME NEW p \in Path PROVE ~HasNode(NoLeaves, p)
      BY <2>2 DEF HasNode, Through
    <2>4. StoredTrie(NoLeaves) = [p \in Path |-> NoNode]
      BY <2>3 DEF StoredTrie
    <2> QED BY <2>1, <2>2, <2>4 DEF InDb, SameKeys, NoNodes
  <1> QED BY <1>1, <1>2, FreshHolds

LEMMA ReopenHolds ==
  ASSUME NEW m, NEW d, Holds(m, d), Reopen \/ CommitWriteFails
  PROVE  Holds(d, d)'
  <1>1. Fresh'
    BY ReopenFresh, CommitWriteFresh DEF Holds
  <1>2. InDb(d)'
    BY SameDb DEF Holds, Reopen, CommitWriteFails, db
  <1> QED BY <1>1, <1>2, FreshHoldsNext

LEMMA CommitWriteHolds ==
  ASSUME NEW m, NEW d, Holds(m, d), CommitWrite
  PROVE  Holds(m, m)'
  <1>1. Fresh' /\ ShapeInv /\ InTree(m)
    BY CommitWriteFresh DEF Holds
  <1>2. pc = "Write" /\ death_row = {} /\ ~Removing /\ \A p \in Path : nodes[p] = NoNode
    BY <1>1 DEF ShapeInv, PhaseInv, CommitWrite, Removing
  <1>3. trie_db' = [p \in Path |-> Written(p)] /\ flat_db' = [k \in Key |-> get(k)]
    BY DEF CommitWrite
  <1>4. ASSUME NEW p \in Path PROVE Written(p) = StoredTrie(m)[p]
    <2>1. Written(p) = View[p]
      BY <1>2 DEF Written, View, DbNode
    <2> QED BY <1>1, <1>2, <2>1 DEF InTree
  <1>5. trie_db' = StoredTrie(m)
    <2>1. StoredTrie(m) = [p \in Path |-> StoredTrie(m)[p]]
      BY DEF StoredTrie
    <2>2. [p \in Path |-> Written(p)] = [p \in Path |-> StoredTrie(m)[p]]
      BY <1>4
    <2> QED BY <1>3, <2>1, <2>2
  <1>6. \A k \in Key : flat_db'[k] = get(k) /\ Pending[k] = get(k)
    BY <1>2, <1>3 DEF Pending
  <1>7. SameKeys(m, flat_db')
    BY <1>1, <1>6 DEF InTree, SameKeys
  <1>8. SafeRewrites => m = flat_db'
    <2>1. SafeRewrites => \A k \in Key : m[k] = get(k)
      BY <1>2 DEF Holds, ReadsTree
    <2>2. m \in [Key -> Felt \cup {None}]
      BY <1>1 DEF InTree
    <2> QED BY <1>3, <2>1, <2>2
  <1>9. InDb(m)'
    BY <1>1, <1>5, <1>7, <1>8 DEF InDb, InTree, SameKeys
  <1> QED BY <1>1, <1>9, FreshHoldsNext

LEMMA StutterHolds ==
  ASSUME NEW m, NEW d, Holds(m, d), UNCHANGED vars, ShapeInv'
  PROVE  Holds(m, d)'
  <1>1. UNCHANGED <<trie_db, flat_db, nodes, death_row, cache_leaf_modified, pc, args, hashes, updates>>
    BY DEF vars, db, tree, iter, commit
  <1>2. Removing' <=> Removing
    BY <1>1 DEF Removing
  <1>3. \A k \in Key : Pending[k] = None <=> Pending'[k] = None
    <2>1. \A k \in Key : get(k)' = get(k)
      BY <1>1 DEF get
    <2> QED BY <1>1, <1>2, <2>1 DEF Pending
  <1>4. InTree(m)'
    BY <1>1, <1>3, SameNodes, SameTree DEF Holds
  <1>5. ReadsTree(m)' /\ InDb(d)'
    BY <1>1, <1>2, SameReads, SameDb DEF Holds
  <1>6. HashesRight(m)'
    BY <1>1 DEF Holds, HashesRight, OwnHash
  <1>7. ArgsInv' /\ ProperInv'
    BY <1>1 DEF Holds, ArgsInv, ProperInv, Proper
  <1> QED BY <1>4, <1>5, <1>6, <1>7 DEF Holds

(***************************************************************************)
(* The ends of a call                                                      *)
(***************************************************************************)
\* Every node on the way to the key has been loaded when the traversal ends.
LEMMA OnWay ==
  ASSUME ShapeInv, pc = "Finish", NEW x \in Path, IsPrefixOf(x, args.key), View[x] # NoNode
  PROVE  nodes[x] # NoNode
  <1>1. current_nodes_heights # << >>
    <2>1. ASSUME current_nodes_heights = << >> PROVE FALSE
      <3>1. View[<< >>] = NoNode /\ HasShapeOf(View, Pending)
        BY <2>1 DEF ShapeInv, WayInv
      <3>2. View[x] = NoNode
        BY <3>1, NoRoot
      <3> QED BY <3>2
    <2> QED BY <2>1
  <1>2. PICK p, h, n, key : p = LastPath /\ h = LastHeight /\ n = LastNode /\ key = args.key
    OBVIOUS
  <1>3. /\ h \in 0..(MaxHeight - 1) /\ p \in Path /\ Len(p) = h
        /\ IsPrefixOf(p, key) /\ key \in Key /\ key \in Path
        /\ Len(key) = MaxHeight /\ p = First(key, h)
        /\ nodes[p] = n /\ n # NoNode /\ IsNodeAt(n, p)
    BY <1>1, <1>2, LastIs
  <1>4. Len(x) \in Nat /\ Len(p) \in Nat /\ Len(x) < MaxHeight /\ HasNode(Pending, x)
    <2>1. HasNode(Pending, x)
      BY NotInView
    <2> QED BY <1>3, <2>1, PathLen DEF HasNode
  <1>5. CASE Len(x) <= Len(p)
    <2>1. IsPrefixOf(x, p)
      BY <1>2, <1>3, <1>5, PrefixOfBoth
    <2> QED BY <1>3, <2>1 DEF ShapeInv, AboveInv
  <1>6. CASE Len(x) > Len(p)
    <2>1. IsPrefixOf(p, x) /\ p # x
      <3>1. Len(p) <= Len(x)
        BY <1>4, <1>6
      <3> QED BY <1>2, <1>3, <1>4, <1>6, <3>1, PrefixOfBoth
    <2>2. HasNode(Pending, p) /\ DOMAIN n.next = Labels(Pending, p) /\ Through(Pending, x) # {}
      BY <1>3, <1>4, NodeInMemory DEF HasNode
    <2>3. PICK l \in Labels(Pending, p) : IsPrefixOf(p \o l, x)
      BY <1>3, <1>4, <2>1, <2>2, ArcToward
    <2>4. /\ ArcOf(Pending, p, l) /\ l \in DOMAIN n.next
      BY <1>3, <2>2, Arc
    <2>5. /\ p \o l \in Path /\ l \in Path /\ l \in Seq(Bit) /\ Len(l) \in Nat
          /\ Len(p \o l) = h + Len(l) /\ Len(l) >= 1 /\ IsPrefixOf(p \o l, key)
      <3>1. p \o l \in Path /\ l \in Path /\ l # << >> /\ Len(p \o l) = Len(p) + Len(l)
        BY <2>4 DEF ArcOf
      <3>2. l \in Seq(Bit) /\ Len(l) \in Nat /\ Len(l) >= 1
        BY <3>1, PathSeq
      <3>3. IsPrefixOf(p \o l, key)
        BY <1>2, <1>3, <2>3, <3>1, PathPrefixTrans
      <3> QED BY <1>3, <3>1, <3>2, <3>3
    <2>6. h + Len(l) < MaxHeight
      <3>1. Len(p \o l) <= Len(x)
        BY <2>3, <2>5, PrefixLen
      <3> QED BY <1>3, <1>4, <2>5, <3>1
    <2>7. CASE IsBinary(n)
      <3>1. h + 1 = MaxHeight
        BY <1>1, <1>2, <2>7 DEF ShapeInv, TInv, IteratorOnKey
      <3> QED BY <1>3, <2>5, <2>6, <3>1
    <2>8. CASE ~IsBinary(n)
      <3>1. IsEdge(n) /\ DOMAIN n.next = {EdgePath(n)}
        BY <1>3, <2>8, NodeKind, EdgeDomain
      <3>2. l = EdgePath(n)
        BY <2>4, <3>1
      <3>3. ~PathMatches(l, key, h)
        <4>1. h + Len(l) = MaxHeight \/ ~PathMatches(l, key, h)
          BY <1>1, <1>2, <3>1, <3>2 DEF ShapeInv, WayInv
        <4> QED BY <1>3, <2>5, <2>6, <4>1
      <3>4. PathMatches(l, key, h)
        <4>1. p \in Seq(Bit) /\ key \in Seq(Bit) /\ p \o l \in Seq(Bit)
          BY <1>3, <2>5, PathSeq
        <4>2. \A i \in 1..Len(p \o l) : (p \o l)[i] = key[i]
          BY <2>5, <4>1, PrefixIs
        <4>3. \A i \in 1..Len(l) : (p \o l)[Len(p) + i] = l[i]
          BY <2>5, <4>1, ConcatSeq
        <4>4. ASSUME NEW i \in 1..Len(l) PROVE l[i] = key[h + i]
          <5>1. h + i \in 1..Len(p \o l)
            BY <1>3, <2>5
          <5>2. (p \o l)[h + i] = key[h + i]
            BY <4>2, <5>1
          <5>3. (p \o l)[h + i] = l[i]
            BY <1>3, <4>3
          <5> QED BY <5>2, <5>3
        <4> QED BY <2>5, <4>4 DEF PathMatches, BitMatches
      <3> QED BY <3>3, <3>4
    <2> QED BY <2>7, <2>8
  <1> QED BY <1>4, <1>5, <1>6

\* The handle h was in the tree, at the arc that ends at z, not at the key.
Kept(z, h) ==
    /\ z # args.key
    /\ \E y \in Path : View[y] # NoNode /\ \E j \in DOMAIN View[y].next : y \o j = z /\ h = View[y].next[j]

\* A handle that is kept, and leads out of memory, does not lead toward the key.
LEMMA KeptOffKey ==
  ASSUME ShapeInv, pc = "Finish", NEW m, InTree(m), NEW z, NEW h, Kept(z, h), h # InMemory
  PROVE  z \in Path /\ ~IsPrefixOf(z, args.key) /\ h = SubtreeHash(m)[z]
  <1>1. PICK y \in Path : View[y] # NoNode /\ \E j \in DOMAIN View[y].next : y \o j = z /\ h = View[y].next[j]
    BY DEF Kept
  <1>2. PICK j \in DOMAIN View[y].next : y \o j = z /\ h = View[y].next[j]
    BY <1>1
  <1>3. RightNode(View[y], m, y) /\ HasNode(Pending, y) /\ j \in Labels(Pending, y)
    BY <1>1, <1>2, RightInView, NodeInView
  <1>4. ArcOf(Pending, y, j)
    BY <1>3, Arc
  <1>5. h = SubtreeHash(m)[z]
    BY <1>2, <1>3 DEF RightNode
  <1>6. z \in Path /\ IsPrefixOf(y, z) /\ (Len(z) < MaxHeight => HasNode(Pending, z))
    BY <1>2, <1>4 DEF ArcOf
  <1>7. ASSUME IsPrefixOf(z, args.key) PROVE FALSE
    <2>1. args.key \in Key /\ z # args.key
      BY DEF Kept, ShapeInv, TInv, TypeOK
    <2>2. PICK key : key = args.key
      OBVIOUS
    <2>3. key \in Path /\ Len(key) = MaxHeight
      BY <2>1, <2>2, KeyInPath, KeySeq
    <2>4. Len(z) < MaxHeight
      <3>1. Len(z) \in Nat /\ Len(z) <= MaxHeight
        BY <1>6, PathLen
      <3>2. Len(z) # MaxHeight
        <4>1. ASSUME Len(z) = MaxHeight PROVE FALSE
          <5>1. Len(z) >= Len(key)
            BY <2>3, <4>1
          <5>2. z = key
            BY <1>6, <1>7, <2>2, <2>3, <5>1, PrefixSame
          <5> QED BY <2>1, <2>2, <5>2
        <4> QED BY <4>1
      <3> QED BY <3>1, <3>2
    <2>5. View[z] # NoNode
      BY <1>6, <2>4, NotInView
    <2>6. nodes[z] # NoNode
      BY <1>6, <1>7, <2>5, OnWay
    <2>7. nodes[y] # NoNode
      BY <1>1, <1>6, <2>6 DEF ShapeInv, AboveInv
    <2>8. View[y] = nodes[y]
      BY <2>7, NodeInMemory
    <2>9. nodes[y].next[j] = InMemory
      BY <1>2, <2>6, <2>7, <2>8, ArcInMemory
    <2> QED BY <1>2, <2>8, <2>9
  <1> QED BY <1>5, <1>6, <1>7

\* A leaf of the key alone has changed: the subtrees off its way are the same.
LEMMA OffKeySame ==
  ASSUME NEW m, NEW n, NEW key, \A k \in Key : k # key => n[k] = m[k],
         NEW z, ~IsPrefixOf(z, key)
  PROVE  SameBelow(m, n, z)
  BY DEF SameBelow

LEMMA ChangedTree ==
  ASSUME ShapeInv, pc = "Finish", NEW m, InTree(m),
         NEW n, n \in [Key -> Felt \cup {None}], SameKeys(n, Pending)',
         \A k \in Key : k # args.key => n[k] = m[k], HasShapeOf(View, Pending)',
         \A x \in Path : nodes'[x] = NoNode /\ View'[x] # NoNode =>
             nodes[x] = NoNode /\ View'[x] = View[x],
         \A x \in Path : nodes'[x] # NoNode =>
             \A l \in DOMAIN nodes'[x].next : nodes'[x].next[l] # InMemory =>
                 \/ Kept(x \o l, nodes'[x].next[l])
                 \/ x \o l = args.key /\ nodes'[x].next[l] = n[args.key]
  PROVE  InTree(n)'
  <1>1. PICK u, o : u = View' /\ o = Pending'
    OBVIOUS
  <1>2. HasShapeOf(u, n)
    <2>1. HasShapeOf(u, o)
      BY <1>1
    <2>2. \A k \in Key : o[k] = None <=> n[k] = None
      BY <1>1 DEF SameKeys
    <2> QED BY <2>1, <2>2, ShapeOfKeys
  <1>3. ASSUME NEW x \in Path, nodes'[x] # NoNode PROVE RightNode(nodes'[x], n, x)
    <2> SUFFICES ASSUME NEW l \in DOMAIN nodes'[x].next, nodes'[x].next[l] # InMemory
                 PROVE  nodes'[x].next[l] = SubtreeHash(n)[x \o l]
      BY DEF RightNode
    <2>1. PICK z, h : z = x \o l /\ h = nodes'[x].next[l]
      OBVIOUS
    <2>2. Kept(z, h) \/ (z = args.key /\ h = n[args.key])
      BY <1>3, <2>1
    <2>3. CASE Kept(z, h)
      <3>1. z \in Path /\ ~IsPrefixOf(z, args.key) /\ h = SubtreeHash(m)[z]
        BY <2>1, <2>3, KeptOffKey
      <3>2. SameBelow(m, n, z)
        <4>1. PICK key : key = args.key
          OBVIOUS
        <4> QED BY <3>1, <4>1, OffKeySame
      <3>3. SubtreeHash(m)[z] = SubtreeHash(n)[z]
        BY <3>1, <3>2, SubtreeHashSame
      <3> QED BY <2>1, <3>1, <3>3
    <2>4. CASE z = args.key /\ h = n[args.key]
      <3>1. PICK key : key = args.key
        OBVIOUS
      <3>2. key \in Key
        BY <3>1 DEF ShapeInv, TInv, TypeOK
      <3>3. SubtreeHash(n)[key] = n[key]
        BY <3>2, LeafHashIs
      <3> QED BY <2>1, <2>4, <3>1, <3>3
    <2> QED BY <2>2, <2>3, <2>4
  <1>4. ASSUME NEW x \in Path, nodes'[x] = NoNode PROVE View'[x] = StoredTrie(n)[x]
    <2>1. Looks(u, n, x)
      BY <1>2, ShapeIs
    <2>2. CASE View'[x] = NoNode
      <3>1. ~HasNode(n, x)
        BY <1>1, <2>1, <2>2 DEF Looks
      <3> QED BY <2>2, <3>1, StoredIs
    <2>3. CASE View'[x] # NoNode
      <3>1. HasNode(n, x)
        BY <1>1, <2>1, <2>3 DEF Looks
      <3>2. nodes[x] = NoNode /\ View'[x] = View[x] /\ View[x] # NoNode
        BY <1>4, <2>3
      <3>3. HasNode(m, x) /\ View[x] = StoredTrie(m)[x]
        BY <3>2, RightInView DEF InTree
      <3>4. ~IsPrefixOf(x, args.key)
        BY <3>2, OnWay
      <3>5. SameBelow(m, n, x)
        <4>1. PICK key : key = args.key
          OBVIOUS
        <4> QED BY <3>4, <4>1, OffKeySame
      <3>6. StoredTrie(m)[x] = StoredTrie(n)[x]
        BY <3>1, <3>3, <3>5, StoredSame
      <3> QED BY <3>2, <3>3, <3>6
    <2> QED BY <2>2, <2>3
  <1> QED BY <1>3, <1>4 DEF InTree

LEMMA FinishHolds ==
  ASSUME NEW m, NEW d, Holds(m, d), pc = "Finish", Return, UNCHANGED db, ShapeInv', ProperInv',
         NEW n, n \in [Key -> Felt \cup {None}], SameKeys(n, Pending)',
         \A k \in Key : k # args.key => n[k] = m[k],
         SafeRewrites => \A k \in Key : n[k] = get(k)',
         \A x \in Path : nodes'[x] = NoNode /\ View'[x] # NoNode =>
             nodes[x] = NoNode /\ View'[x] = View[x],
         \A x \in Path : nodes'[x] # NoNode =>
             \A l \in DOMAIN nodes'[x].next : nodes'[x].next[l] # InMemory =>
                 \/ Kept(x \o l, nodes'[x].next[l])
                 \/ x \o l = args.key /\ nodes'[x].next[l] = n[args.key]
  PROVE  Holds(n, d)'
  <1>1. ShapeInv /\ InTree(m) /\ HasShapeOf(View, Pending)'
    BY DEF Holds, ShapeInv
  <1>2. InTree(n)'
    BY <1>1, ChangedTree
  <1>3. pc' = "Idle" /\ UNCHANGED <<trie_db, flat_db>>
    BY DEF Return, db
  <1>4. ReadsTree(n)'
    BY DEF ReadsTree
  <1>5. HashesRight(n)' /\ ArgsInv' /\ InDb(d)'
    BY <1>3, SameDb DEF Holds, HashesRight, ArgsInv
  <1> QED BY <1>2, <1>4, <1>5 DEF Holds

\* A set that ends gives its leaf the value, and changes no other leaf.
LEMMA SetHolds ==
  ASSUME NEW m, NEW d, Holds(m, d), Setting, SetLeafInCache, FinishSetFrame, ShapeInv', ProperInv',
         \A x \in Path : nodes'[x] = NoNode /\ View'[x] # NoNode =>
             nodes[x] = NoNode /\ View'[x] = View[x],
         \A x \in Path : nodes'[x] # NoNode =>
             \A l \in DOMAIN nodes'[x].next : nodes'[x].next[l] # InMemory =>
                 \/ Kept(x \o l, nodes'[x].next[l])
                 \/ x \o l = args.key /\ nodes'[x].next[l] = args.value
  PROVE  \E n : Holds(n, d)' /\ Moves(m, d, n, d)
  <1>1. /\ ShapeInv /\ pc = "Finish" /\ pc' = "Idle" /\ args.value # ZERO /\ Return
        /\ UNCHANGED db /\ flat_db' = flat_db /\ ~Removing
    BY DEF Holds, Setting, FinishSetFrame, Return, db, Removing
  <1>2. /\ args.key \in Key /\ args.value \in Felt /\ m \in [Key -> Felt \cup {None}]
        /\ cache_leaf_modified \in [Key -> Felt \cup {None, Remove}]
    BY <1>1 DEF Holds, InTree, ShapeInv, TInv, TypeOK
  <1>3. PICK n : n = [m EXCEPT ![args.key] = args.value]
    OBVIOUS
  <1>4. /\ n \in [Key -> Felt \cup {None}] /\ n[args.key] = args.value
        /\ \A k \in Key : k # args.key => n[k] = m[k]
    BY <1>2, <1>3
  <1>5. SameKeys(n, Pending)'
    <2>1. \A k \in Key : Pending'[k] # None <=> Pending[k] # None \/ k = args.key
      BY <1>1, SetKeys
    <2>2. \A k \in Key : m[k] = None <=> Pending[k] = None
      BY DEF Holds, InTree, SameKeys
    <2> QED BY <1>2, <1>4, <2>1, <2>2 DEF SameKeys
  <1>6. ASSUME SafeRewrites, NEW k \in Key PROVE n[k] = get(k)'
    <2>1. CASE k = args.key
      <3>1. cache_leaf_modified'[k] = args.value
        BY <1>2, <2>1 DEF SetLeafInCache
      <3> QED BY <1>2, <1>4, <2>1, <3>1, RemoveAssumption DEF get
    <2>2. CASE k # args.key
      <3>1. cache_leaf_modified'[k] = cache_leaf_modified[k]
        BY <1>2, <2>2 DEF SetLeafInCache
      <3>2. m[k] = get(k)
        BY <1>1, <1>6 DEF Holds, ReadsTree
      <3> QED BY <1>1, <1>4, <2>2, <3>1, <3>2 DEF get
    <2> QED BY <2>1, <2>2
  <1>7. Holds(n, d)'
    BY <1>1, <1>4, <1>5, <1>6, FinishHolds
  <1>8. args.key \in Keys /\ args.value \in Values
    BY <1>1 DEF Holds, ArgsInv
  <1>9. Writes(args.key, args.value)
    BY <1>1, CallIs, CallIsNext DEF Writes
  <1>10. Moves(m, d, n, d)
    BY <1>3, <1>8, <1>9 DEF Moves
  <1> QED BY <1>7, <1>10

\* A node that is as it was: its handles are kept, if none leads to the key.
LEMMA KeptNode ==
  ASSUME ShapeInv, NEW x \in Path, nodes[x] # NoNode, NEW l \in DOMAIN nodes[x].next, x \o l # args.key
  PROVE  Kept(x \o l, nodes[x].next[l])
  <1>1. View[x] = nodes[x]
    BY NodeInMemory
  <1> QED BY <1>1 DEF Kept

\* No arc leads to a key that is not there.
LEMMA NoArcToKey ==
  ASSUME ShapeInv, NEW key \in Key, Pending[key] = None, NEW x \in Path, nodes[x] # NoNode,
         NEW l \in DOMAIN nodes[x].next
  PROVE  x \o l # key
  <1>1. ArcOf(Pending, x, l)
    BY ArcInMemory
  <1>2. Through(Pending, x \o l) # {}
    BY <1>1 DEF ArcOf
  <1> QED BY <1>2, ThroughKey

\* What is out of memory, and not on death row, is as it was.
LEMMA SameOutside ==
  ASSUME ShapeInv, pc = "Finish", UNCHANGED <<trie_db, updates>>, death_row \subseteq death_row',
         NEW x \in Path, nodes[x] = NoNode, nodes'[x] = NoNode, View'[x] # NoNode
  PROVE  View'[x] = View[x]
  <1>1. updates[x] = NoChange /\ updates'[x] = NoChange
    BY DEF ShapeInv, PhaseInv, NoUpdates
  <1>2. View[x] = DbNode(x) /\ View'[x] = DbNode(x)'
    BY <1>1 DEF View
  <1>3. x \notin death_row'
    BY <1>2 DEF DbNode
  <1> QED BY <1>2, <1>3 DEF DbNode

LEMMA SetFirstLeafHolds ==
  ASSUME NEW m, NEW d, Holds(m, d), SetFirstLeaf
  PROVE  \E n : Holds(n, d)' /\ Moves(m, d, n, d)
  <1>1. /\ ShapeInv /\ ShapeInv' /\ Setting /\ SetLeafInCache /\ FinishSetFrame /\ pc = "Finish"
        /\ current_nodes_heights = << >> /\ death_row' = death_row /\ UNCHANGED <<trie_db, updates>>
        /\ nodes' = [nodes EXCEPT ![<< >>] = EdgeNode(None, 0, args.key, args.value)]
    BY SetFirstLeafShape DEF Holds, SetFirstLeaf, FinishSetFrame, Setting, db, commit
  <1>2. \A x \in Path : nodes[x] = NoNode
    <2>1. View[<< >>] = NoNode /\ HasShapeOf(View, Pending)
      BY <1>1 DEF ShapeInv, WayInv
    <2>2. \A x \in Path : View[x] = NoNode
      BY <2>1, NoRoot
    <2> QED BY <1>1, <2>2, NodeInMemory
  <1>3. DOMAIN nodes = Path /\ args.key \in Path /\ args.key \in Seq(Bit)
    BY <1>1, KeyInPath, KeySeq DEF ShapeInv, TInv, TypeOK, IsNodeMap
  <1>4. /\ nodes'[<< >>] = EdgeNode(None, 0, args.key, args.value)
        /\ \A x \in Path : x # << >> => nodes'[x] = NoNode
    BY <1>1, <1>2, <1>3, RootInPath
  <1>5. PICK n : n = nodes'[<< >>]
    OBVIOUS
  <1>6. IsEdgeWith(n, args.key, args.value)
    BY <1>4, <1>5, NewEdgeIs
  <1>7. n # NoNode /\ DOMAIN n.next = {args.key} /\ n.next[args.key] = args.value /\ Proper(n)
    BY <1>6 DEF IsEdgeWith
  <1>8. ProperInv'
    BY <1>4, <1>5, <1>7 DEF ProperInv
  <1>9. ASSUME NEW x \in Path, nodes'[x] = NoNode, View'[x] # NoNode
        PROVE  nodes[x] = NoNode /\ View'[x] = View[x]
    <2>1. death_row \subseteq death_row' /\ nodes[x] = NoNode
      BY <1>1, <1>2
    <2> QED BY <1>1, <1>9, <2>1, SameOutside
  <1>10. ASSUME NEW x \in Path, nodes'[x] # NoNode, NEW l \in DOMAIN nodes'[x].next
         PROVE  x \o l = args.key /\ nodes'[x].next[l] = args.value
    <2>1. x = << >> /\ l = args.key
      BY <1>4, <1>5, <1>7, <1>10
    <2>2. << >> \o args.key = args.key
      BY <1>3
    <2> QED BY <1>5, <1>7, <2>1, <2>2
  <1> QED BY <1>1, <1>8, <1>9, <1>10, SetHolds

LEMMA ReplaceLeafHolds ==
  ASSUME NEW m, NEW d, Holds(m, d), NEW l, ReplacesLeaf(l), ShapeInv'
  PROVE  \E n : Holds(n, d)' /\ Moves(m, d, n, d)
  <1>1. /\ ShapeInv /\ ProperInv /\ Setting /\ SetLeafInCache /\ FinishSetFrame /\ pc = "Finish"
        /\ death_row' = death_row /\ UNCHANGED <<trie_db, updates>> /\ current_nodes_heights # << >>
    BY DEF Holds, ReplacesLeaf, FinishSetFrame, Setting, db, commit
  <1>2. PICK p, key : p = LastPath /\ key = args.key
    OBVIOUS
  <1>3. /\ p \in Path /\ key \in Key /\ nodes[p] # NoNode /\ nodes[p] = LastNode
        /\ l \in DOMAIN nodes[p].next /\ p \o l = key
        /\ nodes' = [nodes EXCEPT ![p] = WithChild(nodes[p], l, args.value)]
    BY <1>1, <1>2, LastIs DEF ReplacesLeaf
  <1>4. DOMAIN nodes = Path
    BY <1>1 DEF ShapeInv, TInv, TypeOK, IsNodeMap
  <1>5. /\ nodes'[p].next = [nodes[p].next EXCEPT ![l] = args.value]
        /\ \A x \in Path : x # p => nodes'[x] = nodes[x]
    BY <1>3, <1>4 DEF WithChild
  <1>6. ProperInv'
    <2> SUFFICES ASSUME NEW x \in Path, nodes'[x] # NoNode PROVE Proper(nodes'[x])
      BY DEF ProperInv
    <2>1. CASE x = p
      BY <1>5, <2>1 DEF Proper
    <2>2. CASE x # p
      BY <1>1, <1>5, <2>2 DEF ProperInv
    <2> QED BY <2>1, <2>2
  <1>7. ASSUME NEW x \in Path, nodes'[x] = NoNode, View'[x] # NoNode
        PROVE  nodes[x] = NoNode /\ View'[x] = View[x]
    <2>1. nodes[x] = NoNode
      <3>1. IsNodeAt(nodes[p], p) /\ args.value \in NodeHandle
        BY <1>1, <1>3, NodeInMemory DEF ShapeInv, TInv, TypeOK, NodeHandle
      <3>2. IsNodeAt(WithChild(nodes[p], l, args.value), p)
        BY <1>3, <3>1, WithChildNode
      <3>3. nodes'[p] # NoNode
        BY <1>3, <1>4, <3>2, NodeKind
      <3> QED BY <1>5, <1>7, <3>3
    <2>2. death_row \subseteq death_row'
      BY <1>1
    <2> QED BY <1>1, <1>7, <2>1, <2>2, SameOutside
  <1>8. ASSUME NEW x \in Path, nodes'[x] # NoNode, NEW j \in DOMAIN nodes'[x].next
        PROVE  \/ Kept(x \o j, nodes'[x].next[j])
               \/ x \o j = args.key /\ nodes'[x].next[j] = args.value
    <2>1. CASE x = p /\ j = l
      BY <1>2, <1>3, <1>5, <2>1
    <2>2. CASE ~(x = p /\ j = l)
      <3>1. nodes[x] # NoNode /\ j \in DOMAIN nodes[x].next /\ nodes'[x].next[j] = nodes[x].next[j]
        BY <1>3, <1>5, <1>8, <2>2
      <3>2. x \o j # key
        <4>1. ASSUME x \o j = key PROVE FALSE
          <5>1. /\ HasNode(Pending, p) /\ l \in Labels(Pending, p)
                /\ HasNode(Pending, x) /\ j \in Labels(Pending, x)
            BY <1>1, <1>3, <3>1, NodeInMemory
          <5>2. p = x
            BY <1>3, <4>1, <5>1, ArcUnique
          <5>3. j \in Path /\ l \in Path
            <6>1. ArcOf(Pending, p, l) /\ ArcOf(Pending, p, j)
              BY <1>3, <5>1, <5>2, Arc
            <6> QED BY <6>1 DEF ArcOf
          <5>4. From(key, Len(p)) = j /\ From(key, Len(p)) = l
            <6>1. p \o j \in Path /\ p \o l \in Path
              BY <1>3, <4>1, <5>2, KeyInPath
            <6> QED BY <1>3, <4>1, <5>2, <5>3, <6>1, ConcatPath
          <5> QED BY <2>2, <5>2, <5>4
        <4> QED BY <4>1
      <3>3. Kept(x \o j, nodes[x].next[j])
        BY <1>1, <1>2, <3>1, <3>2, KeptNode
      <3> QED BY <3>1, <3>3
    <2> QED BY <2>1, <2>2
  <1> QED BY <1>1, <1>6, <1>7, <1>8, SetHolds

LEMMA SetSplitsEdgeHolds ==
  ASSUME NEW m, NEW d, Holds(m, d), SetSplitsEdge
  PROVE  \E n : Holds(n, d)' /\ Moves(m, d, n, d)
  <1>1. /\ ShapeInv /\ ShapeInv' /\ ProperInv /\ Setting /\ SetLeafInCache /\ FinishSetFrame
        /\ pc = "Finish" /\ death_row \subseteq death_row' /\ UNCHANGED <<trie_db, updates>>
    BY SetSplitsEdgeShape DEF Holds, SetSplitsEdge, FinishSetFrame, Setting, db, commit
  <1>2. PICK p, b, e, t, a : SplitStep(p, b, e, t, a)
    BY <1>1, SetSplitsEdgeIs
  <1>3. PICK key : key = args.key
    OBVIOUS
  <1>4. /\ p \in Path /\ b \in Path /\ e \in Path /\ t \in Path /\ a \in Path /\ key \in Path
        /\ Len(key) = MaxHeight /\ Len(t) = Len(b) + 1 /\ Len(a) = Len(b) + 1 /\ Len(b) < MaxHeight
        /\ Len(b) \in Nat /\ IsPrefixOf(p, b) /\ IsPrefixOf(a, e) /\ IsPrefixOf(t, key)
        /\ ~IsPrefixOf(a, key) /\ t # a /\ t # b /\ a # b /\ t # p /\ a # p
    BY <1>2, <1>3, SplitGeometry
  <1>5. /\ t = Toward(key, b) /\ a = Away(key, b) /\ SplitInto(p, b, e)
        /\ Parting(Pending, Pending', key, b)
        /\ nodes[p] = LastNode /\ nodes[p] # NoNode /\ e = p \o EdgePath(LastNode)
    BY <1>2, <1>3 DEF SplitStep
  <1>6. PICK c, g : c = key[Len(b) + 1] /\ g = EdgeChild(LastNode)
    OBVIOUS
  <1>7. /\ nodes'[b] # NoNode /\ DOMAIN nodes'[b].next = Directions /\ Proper(nodes'[b])
        /\ nodes'[b].next[<<c>>] = (IF Len(t) = MaxHeight THEN args.value ELSE InMemory)
        /\ nodes'[b].next[<<Invert(c)>>] = (IF a = e THEN g ELSE InMemory)
        /\ p # b => IsEdgeWith(nodes'[p], From(b, Len(p)), InMemory)
        /\ Len(t) < MaxHeight => IsEdgeWith(nodes'[t], From(key, Len(t)), args.value)
        /\ a # e => IsEdgeWith(nodes'[a], From(e, Len(a)), g)
        /\ \A x \in Path : /\ x # p /\ x # b /\ (x = t => Len(x) = MaxHeight) /\ (x = a => x = e)
                           => nodes'[x] = nodes[x]
    BY <1>3, <1>5, <1>6 DEF SplitInto
  <1>8. c \in Bit /\ Invert(c) \in Bit /\ t = b \o <<c>> /\ a = b \o <<Invert(c)>>
    <2>1. c \in Bit /\ Invert(c) \in Bit
      BY <1>5, <1>6, Turns
    <2> QED BY <1>4, <1>5, <1>6, <2>1, AppendPath DEF Toward, Away
  <1>9. \A l \in Directions : l = <<c>> \/ l = <<Invert(c)>>
    BY <1>8 DEF Directions, Bit, Invert
  <1>10. e # key
    BY <1>4
  <1>11. Kept(e, g)
    <2>1. EdgePath(LastNode) \in DOMAIN LastNode.next
      BY <1>2, SplitPresence
    <2>2. View[p] = nodes[p] /\ View[p] # NoNode
      BY <1>1, <1>4, <1>5, NodeInMemory
    <2> QED BY <1>3, <1>4, <1>5, <1>6, <1>10, <2>1, <2>2 DEF Kept, EdgeChild
  <1>12. Len(t) = MaxHeight => t = key
    <2>1. ASSUME Len(t) = MaxHeight PROVE t = key
      <3>1. Len(t) >= Len(key)
        BY <1>4, <2>1
      <3> QED BY <1>4, <3>1, PrefixSame
    <2> QED BY <2>1
  <1>13. Pending[key] = None
    <2>1. Through(Pending, t) = {} /\ key \in Key
      BY <1>5 DEF Parting
    <2>2. Pending[key] = None \/ key \in Through(Pending, t)
      BY <1>4, <2>1 DEF Through
    <2> QED BY <2>1, <2>2
  <1>14. ProperInv'
    <2> SUFFICES ASSUME NEW x \in Path, nodes'[x] # NoNode PROVE Proper(nodes'[x])
      BY DEF ProperInv
    <2>1. CASE x = b
      BY <1>7, <2>1
    <2>2. CASE x = p /\ p # b
      BY <1>7, <2>2 DEF IsEdgeWith
    <2>3. CASE x = t /\ Len(t) < MaxHeight
      BY <1>7, <2>3 DEF IsEdgeWith
    <2>4. CASE x = a /\ a # e
      BY <1>7, <2>4 DEF IsEdgeWith
    <2>5. CASE x # p /\ x # b /\ (x = t => Len(x) = MaxHeight) /\ (x = a => x = e)
      <3>1. nodes'[x] = nodes[x]
        BY <1>7, <2>5
      <3> QED BY <1>1, <3>1 DEF ProperInv
    <2> QED BY <1>4, <2>1, <2>2, <2>3, <2>4, <2>5
  <1>15. ASSUME NEW x \in Path, nodes'[x] = NoNode, View'[x] # NoNode
         PROVE  nodes[x] = NoNode /\ View'[x] = View[x]
    <2>1. nodes'[p] # NoNode /\ (Len(t) < MaxHeight => nodes'[t] # NoNode) /\ (a # e => nodes'[a] # NoNode)
      BY <1>2, SplitPresence
    <2>2. nodes[x] = NoNode
      BY <1>4, <1>7, <1>15, <2>1
    <2> QED BY <1>1, <1>15, <2>2, SameOutside
  <1>16. ASSUME NEW x \in Path, nodes'[x] # NoNode, NEW l \in DOMAIN nodes'[x].next,
                nodes'[x].next[l] # InMemory
         PROVE  \/ Kept(x \o l, nodes'[x].next[l])
                \/ x \o l = args.key /\ nodes'[x].next[l] = args.value
    <2>1. CASE x = b
      <3>1. l = <<c>> \/ l = <<Invert(c)>>
        BY <1>7, <1>9, <1>16, <2>1
      <3>2. CASE l = <<c>>
        <4>1. Len(t) = MaxHeight /\ nodes'[x].next[l] = args.value
          BY <1>7, <1>16, <2>1, <3>2
        <4>2. x \o l = t
          BY <1>8, <2>1, <3>2
        <4> QED BY <1>3, <1>12, <4>1, <4>2
      <3>3. CASE l = <<Invert(c)>>
        <4>1. a = e /\ nodes'[x].next[l] = g
          BY <1>7, <1>16, <2>1, <3>3
        <4>2. x \o l = e
          BY <1>8, <2>1, <3>3, <4>1
        <4> QED BY <1>11, <4>1, <4>2
      <3> QED BY <3>1, <3>2, <3>3
    <2>2. CASE x = p /\ p # b
      <3>1. nodes'[x].next[l] = InMemory
        BY <1>7, <1>16, <2>2 DEF IsEdgeWith
      <3> QED BY <1>16, <3>1
    <2>3. CASE x = t /\ Len(t) < MaxHeight
      <3>1. l = From(key, Len(t)) /\ nodes'[x].next[l] = args.value
        BY <1>7, <1>16, <2>3 DEF IsEdgeWith
      <3>2. t \o From(key, Len(t)) = key
        BY <1>4, PathRest
      <3> QED BY <1>3, <2>3, <3>1, <3>2
    <2>4. CASE x = a /\ a # e
      <3>1. l = From(e, Len(a)) /\ nodes'[x].next[l] = g
        BY <1>7, <1>16, <2>4 DEF IsEdgeWith
      <3>2. a \o From(e, Len(a)) = e
        BY <1>4, PathRest
      <3> QED BY <1>11, <2>4, <3>1, <3>2
    <2>5. CASE x # p /\ x # b /\ (x = t => Len(x) = MaxHeight) /\ (x = a => x = e)
      <3>1. nodes'[x] = nodes[x]
        BY <1>7, <2>5
      <3>2. x \o l # key
        <4>1. key \in Key
          BY <1>5 DEF Parting
        <4> QED BY <1>1, <1>13, <1>16, <3>1, <4>1, NoArcToKey
      <3>3. Kept(x \o l, nodes[x].next[l])
        BY <1>1, <1>3, <1>16, <3>1, <3>2, KeptNode
      <3> QED BY <3>1, <3>3
    <2> QED BY <1>4, <2>1, <2>2, <2>3, <2>4, <2>5
  <1> QED BY <1>1, <1>14, <1>15, <1>16, SetHolds

\* A delete that ends takes its leaf out, and changes no other leaf.
LEMMA DeleteHolds ==
  ASSUME NEW m, NEW d, Holds(m, d), Deleting, FinishDeleteFrame, ShapeInv', ProperInv',
         \A x \in Path : nodes'[x] = NoNode /\ View'[x] # NoNode =>
             nodes[x] = NoNode /\ View'[x] = View[x],
         \A x \in Path : nodes'[x] # NoNode =>
             \A l \in DOMAIN nodes'[x].next : nodes'[x].next[l] # InMemory =>
                 Kept(x \o l, nodes'[x].next[l])
  PROVE  \E n : Holds(n, d)' /\ Moves(m, d, n, d)
  <1>1. /\ ShapeInv /\ pc = "Finish" /\ pc' = "Idle" /\ Return
        /\ UNCHANGED db /\ UNCHANGED <<flat_db, cache_leaf_modified>>
    BY DEF Holds, Deleting, FinishDeleteFrame, Return, db
  <1>2. /\ args.key \in Key /\ m \in [Key -> Felt \cup {None}] /\ Removing
        /\ \A k \in Key : Pending[k] # None <=> Pending'[k] # None \/ k = args.key
        /\ Pending'[args.key] = None
    BY <1>1, DeleteKeys DEF Holds, InTree
  <1>3. PICK n : n = [m EXCEPT ![args.key] = None]
    OBVIOUS
  <1>4. /\ n \in [Key -> Felt \cup {None}] /\ n[args.key] = None
        /\ \A k \in Key : k # args.key => n[k] = m[k]
    BY <1>2, <1>3
  <1>5. SameKeys(n, Pending)'
    <2>1. \A k \in Key : m[k] = None <=> Pending[k] = None
      BY DEF Holds, InTree, SameKeys
    <2> QED BY <1>2, <1>4, <2>1 DEF SameKeys
  <1>6. ASSUME SafeRewrites, NEW k \in Key PROVE n[k] = get(k)'
    <2>1. get(k)' = get(k)
      BY <1>1 DEF get
    <2>2. CASE k = args.key
      BY <1>1, <1>2, <1>4, <2>1, <2>2 DEF ShapeInv, PhaseInv
    <2>3. CASE k # args.key
      BY <1>4, <1>6, <2>1, <2>3 DEF Holds, ReadsTree
    <2> QED BY <2>2, <2>3
  <1>7. Holds(n, d)'
    BY <1>1, <1>4, <1>5, <1>6, FinishHolds
  <1>8. args.key \in Keys
    BY <1>1 DEF Holds, ArgsInv
  <1>9. Writes(args.key, None)
    BY <1>1, CallIs, CallIsNext DEF Writes, Deleting
  <1>10. Moves(m, d, n, d)
    BY <1>3, <1>8, <1>9 DEF Moves
  <1> QED BY <1>7, <1>10

LEMMA NoArcToKeyNext ==
  ASSUME HasShapeOf(View, Pending)', NEW key \in Key, Pending'[key] = None,
         NEW x \in Path, nodes'[x] # NoNode, NEW l \in DOMAIN nodes'[x].next
  PROVE  x \o l # key
  <1>1. PICK u, o : u = View' /\ o = Pending'
    OBVIOUS
  <1>2. u[x] = nodes'[x]
    BY <1>1 DEF View
  <1>3. HasShapeOf(u, o)
    BY <1>1
  <1>4. Looks(u, o, x)
    BY <1>3, ShapeIs
  <1>5. HasNode(o, x) /\ l \in Labels(o, x)
    BY <1>2, <1>4 DEF Looks
  <1>6. ArcOf(o, x, l)
    BY <1>5, Arc
  <1>7. Through(o, x \o l) # {}
    BY <1>6 DEF ArcOf
  <1> QED BY <1>1, <1>7, ThroughKey

LEMMA DeleteLastLeafHolds ==
  ASSUME NEW m, NEW d, Holds(m, d), DeleteLastLeaf
  PROVE  \E n : Holds(n, d)' /\ Moves(m, d, n, d)
  <1>1. /\ ShapeInv /\ ShapeInv' /\ Deleting /\ FinishDeleteFrame /\ root_node' = "Empty"
    BY DeleteLastLeafShape DEF Holds, DeleteLastLeaf
  <1>2. PICK u, o : u = View' /\ o = Pending'
    OBVIOUS
  <1>3. HasShapeOf(u, o) /\ u[<< >>] = NoNode
    BY <1>1, <1>2 DEF ShapeInv, RootInv
  <1>4. \A x \in Path : View'[x] = NoNode
    BY <1>2, <1>3, NoRoot
  <1>5. \A x \in Path : nodes'[x] = NoNode
    BY <1>4 DEF View
  <1>6. ProperInv'
    BY <1>5 DEF ProperInv
  <1> QED BY <1>1, <1>4, <1>5, <1>6, DeleteHolds

\* The handle the merged edge takes over was the sibling's, or led to it.
LEMMA MergedKept ==
  ASSUME NEW n, NEW b, NEW t, NEW a, DeletesAt(n, b, t, a), NEW e, e = SiblingEnd, e # args.key
  PROVE  Kept(e, MergedChild)
  <1>1. /\ ShapeInv /\ Sibling = View[a] /\ SiblingPath = a /\ nodes[b] = Branch /\ Branch # NoNode
        /\ DOMAIN Branch.next = Directions /\ SiblingBit = Invert(args.key[Len(b) + 1])
        /\ a = Away(args.key, b)
    BY DEF DeletesAt
  <1>2. b \in Path /\ a \in Path
    BY DeleteMerges
  <1>3. CASE IsEdge(Sibling)
    <2>1. View[a] # NoNode /\ IsEdge(View[a])
      BY <1>1, <1>3, NotNode
    <2>2. IsNodeAt(View[a], a)
      BY <1>1, <1>2, <2>1, NodeInView
    <2>3. EdgePath(View[a]) \in DOMAIN View[a].next
      BY <1>2, <2>1, <2>2, EdgeLabel
    <2>4. e = a \o EdgePath(View[a]) /\ MergedChild = View[a].next[EdgePath(View[a])]
      BY <1>1, <1>3 DEF SiblingEnd, MergedChild, EdgeChild
    <2> QED BY <1>2, <2>1, <2>3, <2>4 DEF Kept
  <1>4. CASE ~IsEdge(Sibling)
    <2>1. PICK c : c = Invert(args.key[Len(b) + 1])
      OBVIOUS
    <2>2. Parting(n, Pending, args.key, b)
      BY DEF DeletesAt
    <2>3. PICK key : key = args.key
      OBVIOUS
    <2>4. c \in Bit /\ Len(b) < MaxHeight
      BY <2>1, <2>2, <2>3, Turns
    <2>5. a = b \o <<c>>
      BY <1>1, <1>2, <2>1, <2>4, AppendPath DEF Away
    <2>6. e = a /\ MergedChild = Branch.next[<<c>>]
      BY <1>1, <1>4, <2>1 DEF SiblingEnd, MergedChild, SiblingHandle
    <2>7. View[b] = nodes[b]
      BY <1>1, <1>2, NodeInMemory
    <2>8. <<c>> \in DOMAIN View[b].next /\ View[b] # NoNode
      BY <1>1, <2>4, <2>7, DirectionIs
    <2> QED BY <1>1, <1>2, <2>5, <2>6, <2>7, <2>8 DEF Kept
  <1> QED BY <1>3, <1>4

LEMMA MergeHolds ==
  ASSUME NEW m, NEW d, Holds(m, d), Deleting, FinishDeleteFrame, ShapeInv',
         NEW p, NEW b, NEW e, NEW t, NEW a, MergeStep(Pending', p, b, e, t, a),
         DeletesAt(Pending', b, t, a), e = SiblingEnd
  PROVE  \E n : Holds(n, d)' /\ Moves(m, d, n, d)
  <1>1. ShapeInv /\ ProperInv /\ HasShapeOf(View, Pending)'
    BY DEF Holds, ShapeInv
  <1>2. args.key \in Key /\ Pending'[args.key] = None
    <2>1. UNCHANGED <<flat_db, cache_leaf_modified>> /\ pc' = "Idle"
      BY DEF FinishDeleteFrame, Return, db
    <2> QED BY <1>1, <2>1, DeleteKeys
  <1>3. p \in Path /\ b \in Path /\ e \in Path /\ t \in Path /\ a \in Path /\ IsPrefixOf(p, e)
    BY MergeGeometry
  <1>4. (p # b => View'[b] = NoNode) /\ View'[t] = NoNode /\ (a # e => View'[a] = NoNode)
    BY MergeView
  <1>5. /\ IsEdgeWith(nodes'[p], From(e, Len(p)), MergedChild)
        /\ p # b => nodes'[b] = NoNode
        /\ nodes'[t] = NoNode
        /\ a # e => nodes'[a] = NoNode
        /\ \A x \in Path : /\ x # p /\ x # b /\ x # t /\ (x = a => x = e)
                           => nodes'[x] = nodes[x] /\ (x \in death_row' <=> x \in death_row)
        /\ updates = NoUpdates /\ updates' = NoUpdates /\ trie_db' = trie_db
    BY DEF MergeStep
  <1>6. ProperInv'
    <2> SUFFICES ASSUME NEW x \in Path, nodes'[x] # NoNode PROVE Proper(nodes'[x])
      BY DEF ProperInv
    <2>1. CASE x = p
      BY <1>5, <2>1 DEF IsEdgeWith
    <2>2. CASE x # p
      <3>1. nodes'[x] = nodes[x]
        BY <1>5, <2>2
      <3> QED BY <1>1, <3>1 DEF ProperInv
    <2> QED BY <2>1, <2>2
  <1>7. ASSUME NEW x \in Path, nodes'[x] = NoNode, View'[x] # NoNode
        PROVE  nodes[x] = NoNode /\ View'[x] = View[x]
    <2>1. x # p
      BY <1>5, <1>7 DEF IsEdgeWith
    <2>2. x # b /\ x # t /\ (x = a => x = e)
      BY <1>4, <1>7, <2>1
    <2>3. nodes'[x] = nodes[x] /\ (x \in death_row' <=> x \in death_row)
      BY <1>5, <2>1, <2>2
    <2> QED BY <1>5, <1>7, <2>3 DEF View, DbNode
  <1>8. ASSUME NEW x \in Path, nodes'[x] # NoNode, NEW l \in DOMAIN nodes'[x].next,
               nodes'[x].next[l] # InMemory
        PROVE  Kept(x \o l, nodes'[x].next[l])
    <2>1. x \o l # args.key
      <3>1. PICK key : key = args.key
        OBVIOUS
      <3> QED BY <1>1, <1>2, <1>8, <3>1, NoArcToKeyNext
    <2>2. CASE x = p
      <3>1. l = From(e, Len(p)) /\ nodes'[x].next[l] = MergedChild
        BY <1>5, <1>8, <2>2 DEF IsEdgeWith
      <3>2. x \o l = e
        BY <1>3, <2>2, <3>1, PathRest
      <3>3. Kept(e, MergedChild)
        <4>1. PICK n : n = Pending'
          OBVIOUS
        <4>2. DeletesAt(n, b, t, a)
          BY <4>1
        <4> QED BY <2>1, <3>2, <4>2, MergedKept
      <3> QED BY <3>1, <3>2, <3>3
    <2>3. CASE x # p
      <3>1. nodes'[x] = nodes[x]
        BY <1>5, <1>8, <2>3
      <3>2. Kept(x \o l, nodes[x].next[l])
        BY <1>1, <1>8, <2>1, <3>1, KeptNode
      <3> QED BY <3>1, <3>2
    <2> QED BY <2>2, <2>3
  <1> QED BY <1>6, <1>7, <1>8, DeleteHolds

LEMMA DeleteAtBranchHolds ==
  ASSUME NEW m, NEW d, Holds(m, d), DeleteAtBranch \/ DeleteAtBranchUnderEdge
  PROVE  \E n : Holds(n, d)' /\ Moves(m, d, n, d)
  <1>1. ShapeInv /\ ShapeInv' /\ Deleting
    BY DeleteAtBranchShape, DeleteAtBranchUnderEdgeShape
       DEF Holds, DeleteAtBranch, DeleteAtBranchUnderEdge
  <1>2. FinishDeleteFrame
    BY <1>1, DeleteAtBranchIs, DeleteAtBranchUnderEdgeIs
  <1>3. PICK p, b, e, t, a : /\ MergeStep(Pending', p, b, e, t, a) /\ DeletesAt(Pending', b, t, a)
                             /\ e = SiblingEnd
    BY <1>1, DeleteAtBranchIs, DeleteAtBranchUnderEdgeIs
  <1> QED BY <1>1, <1>2, <1>3, MergeHolds

(***************************************************************************)
(* Every step, and the theorems                                            *)
(***************************************************************************)
\* A set that cannot read a node changes no leaf.
LEMMA SeekFailsHolds ==
  ASSUME "remove" \notin ReadErrors, NEW m, NEW d, Holds(m, d), SeekFails
  PROVE  Holds(m, d)' /\ CallGoesOn
  <1>1. ShapeInv /\ ShapeInv' /\ View' = View /\ Pending' = Pending
    BY SeekFailsShape DEF Holds
  <1>2. args.value # ZERO /\ pc \in {"LoadRoot", "Traverse"} /\ "set" \in ReadErrors
    BY DEF SeekFails, MayFailToRead, SeekReadsDb
  <1>3. /\ pc' = "Idle"
        /\ UNCHANGED <<trie_db, flat_db, nodes, cache_leaf_modified, hashes>>
    BY DEF SeekFails, ReadErrorFrame, Return, db, commit
  <1>4. ~Removing /\ ~Removing'
    BY <1>2, <1>3 DEF Removing
  <1>5. \A k \in Key : Pending[k] = None <=> Pending'[k] = None
    BY <1>1
  <1>6. InTree(m)'
    BY <1>1, <1>3, <1>5, SameTree DEF Holds
  <1>7. ReadsTree(m)' /\ InDb(d)'
    <2>1. \A k \in Key : get(k)' = get(k)
      BY <1>3 DEF get
    <2>2. ReadsTree(m)'
      BY <1>4, <2>1 DEF Holds, ReadsTree
    <2>3. InDb(d)'
      BY <1>3, SameDb DEF Holds
    <2> QED BY <2>2, <2>3
  <1>8. HashesRight(m)'
    BY <1>3 DEF Holds, HashesRight, OwnHash
  <1>9. ArgsInv' /\ ProperInv'
    BY <1>3 DEF Holds, ArgsInv, ProperInv, Proper
  <1>10. CallGoesOn
    BY <1>2, <1>3, CallIs, CallIsNext DEF CallGoesOn
  <1> QED BY <1>1, <1>6, <1>7, <1>8, <1>9, <1>10 DEF Holds

LEMMA StepHolds ==
  ASSUME "remove" \notin ReadErrors, NEW m, NEW d, Holds(m, d), Step
  PROVE  \E m2, d2 : Holds(m2, d2)' /\ Moves(m, d, m2, d2)
  <1>1. ASSUME Holds(m, d)', CallGoesOn
        PROVE  \E m2, d2 : Holds(m2, d2)' /\ Moves(m, d, m2, d2)
    BY <1>1 DEF Moves
  <1>2. ASSUME \E n : Holds(n, d)' /\ Moves(m, d, n, d)
        PROVE  \E m2, d2 : Holds(m2, d2)' /\ Moves(m, d, m2, d2)
    BY <1>2
  <1>3. CASE LoadRootNode
    <2>1. args' = args /\ pc = "LoadRoot" /\ pc' \in {"Traverse", "Finish"}
      BY <1>3 DEF LoadRootNode, iter
    <2>2. CallGoesOn
      BY <2>1, CallIs, CallIsNext DEF CallGoesOn
    <2> QED BY <1>1, <1>3, <2>2, LoadRootHolds
  <1>4. CASE TraverseOne
    <2>1. ShapeInv /\ pc = "Traverse"
      BY <1>4 DEF Holds, TraverseOne
    <2>2. Advance(nodes[current_path])
      BY <1>4, <2>1, TraversalHolds DEF TraverseOne
    <2>3. args' = args /\ pc' \in {"Traverse", "Finish"}
      BY <2>2 DEF Advance
    <2>4. CallGoesOn
      BY <2>1, <2>3, CallIs, CallIsNext DEF CallGoesOn
    <2> QED BY <1>1, <1>4, <2>4, TraverseHolds
  <1>5. CASE SetFirstLeaf
    BY <1>2, <1>5, SetFirstLeafHolds
  <1>6. CASE SetLeafUnderEdge \/ SetLeafUnderBinary
    <2>1. ShapeInv
      BY DEF Holds
    <2>2. ShapeInv'
      BY <1>6, <2>1, SetLeafUnderEdgeShape, SetLeafUnderBinaryShape
    <2>3. PICK l : ReplacesLeaf(l)
      BY <1>6, <2>1, SetLeafUnderEdgeIs, SetLeafUnderBinaryIs
    <2> QED BY <1>2, <2>2, <2>3, ReplaceLeafHolds
  <1>7. CASE SetSplitsEdge
    BY <1>2, <1>7, SetSplitsEdgeHolds
  <1>8. CASE DeleteLastLeaf
    BY <1>2, <1>8, DeleteLastLeafHolds
  <1>9. CASE DeleteAtBranch \/ DeleteAtBranchUnderEdge
    BY <1>2, <1>9, DeleteAtBranchHolds
  <1>10. ASSUME NEW p \in Path, ComputeHash(p) \/ CommitSubtree(p)
         PROVE  Holds(m, d)' /\ CallGoesOn
    <2>1. Holds(m, d)'
      BY <1>10, ComputeHashHolds, CommitSubtreeHolds
    <2>2. ~failed'
      <3>1. ShapeInv'
        BY <1>10, ComputeHashShape, CommitSubtreeShape DEF Holds
      <3> QED BY <3>1 DEF ShapeInv
    <2>3. pc \in {"Hash", "CommitSubtree"} /\ pc' \in {"Hash", "CommitSubtree", "Write"}
      BY <1>10, <2>2 DEF ComputeHash, CommitSubtree, Fail, FailFrame
    <2> QED BY <2>1, <2>3, CallIs, CallIsNext DEF CallGoesOn
  <1>11. CASE CommitWrite
    <2>1. Holds(m, m)'
      BY <1>11, CommitWriteHolds
    <2>2. pc = "Write" /\ pc' = "Idle"
      BY <1>11 DEF CommitWrite, ClearTree
    <2>3. Commits
      BY <2>2, CallIs, CallIsNext DEF Commits
    <2> QED BY <2>1, <2>3 DEF Moves
  <1>12. CASE CommitWriteFails
    <2>1. Holds(d, d)'
      BY <1>12, ReopenHolds
    <2>2. pc = "Write" /\ pc' = "Idle"
      BY <1>12 DEF CommitWriteFails, ClearTree
    <2>3. Commits
      BY <2>2, CallIs, CallIsNext DEF Commits
    <2> QED BY <2>1, <2>3 DEF Moves
  <1>13. CASE SeekFails
    BY <1>1, <1>13, SeekFailsHolds
  <1> QED BY <1>1, <1>3, <1>4, <1>5, <1>6, <1>7, <1>8, <1>9, <1>10, <1>11, <1>12, <1>13,
             NoMergeReadFails DEF Step

\* A call that returns at once is none; the others begin an abstract one.
LEMMA StartCall ==
  ASSUME NEW key \in Keys, NEW value,
         \/ /\ value \in Values
            /\ SetCached(key, value) \/ SetSame(key, value) \/ SetSeek(key, value)
         \/ DeleteAbsent(key) \/ DeleteSeek(key)
  PROVE  CallGoesOn
  <1>1. pc = "Idle" /\ AbstractCall = [op |-> "none"]
    <2>1. pc = "Idle"
      BY DEF SetCached, SetSame, SetSeek, DeleteAbsent, DeleteSeek, StartSet, StartDelete
    <2> QED BY <2>1, CallIs
  <1>2. CASE pc' = pc
    BY <1>1, <1>2, CallIsNext DEF CallGoesOn
  <1>3. CASE SetSeek(key, value) /\ value \in Values
    <2>1. pc' = "LoadRoot" /\ args' = [key |-> key, value |-> value] /\ value # ZERO
      BY <1>3, ValuesAssumption DEF SetSeek, Seek
    <2>2. AbstractCall' = [op |-> "write", key |-> key, value |-> value]
      BY <2>1, CallIsNext
    <2>3. AbstractCall' \in LeafMapOfTrie!Calls
      BY <1>3, <2>2 DEF LeafMapOfTrie!Calls
    <2> QED BY <1>1, <2>3 DEF CallGoesOn
  <1>4. CASE DeleteSeek(key)
    <2>1. pc' = "LoadRoot" /\ args' = [key |-> key, value |-> ZERO]
      BY <1>4 DEF DeleteSeek, Seek
    <2>2. AbstractCall' = [op |-> "write", key |-> key, value |-> None]
      BY <2>1, CallIsNext
    <2>3. AbstractCall' \in LeafMapOfTrie!Calls
      BY <2>2 DEF LeafMapOfTrie!Calls
    <2> QED BY <1>1, <2>3 DEF CallGoesOn
  <1> QED BY <1>2, <1>3, <1>4 DEF SetCached, SetSame, DeleteAbsent

LEMMA NextHolds ==
  ASSUME "remove" \notin ReadErrors, NEW m, NEW d, Holds(m, d), [Next]_vars
  PROVE  \E m2, d2 : Holds(m2, d2)' /\ Moves(m, d, m2, d2)
  <1>1. ASSUME Holds(m, d)', CallGoesOn
        PROVE  \E m2, d2 : Holds(m2, d2)' /\ Moves(m, d, m2, d2)
    BY <1>1 DEF Moves
  <1>2. CASE UNCHANGED vars
    <2>1. ShapeInv'
      BY NextShape DEF Holds
    <2>2. CallGoesOn
      BY <1>2 DEF vars, iter, AbstractCall, CallGoesOn
    <2> QED BY <1>1, <1>2, <2>1, <2>2, StutterHolds
  <1>3. ASSUME NEW key \in Keys, NEW value \in Values,
               SetCached(key, value) \/ SetSame(key, value) \/ SetSeek(key, value)
        PROVE  Holds(m, d)' /\ CallGoesOn
    <2>1. value \in Felt \ {ZERO}
      BY ValuesAreFelts
    <2> QED BY <1>3, <2>1, StartHolds, StartCall
  <1>4. ASSUME NEW key \in Keys, DeleteAbsent(key) \/ DeleteSeek(key)
        PROVE  Holds(m, d)' /\ CallGoesOn
    <2>1. <<1>> \in Felt \ {ZERO}
      BY DEF Felt, ZERO
    <2> QED BY <1>4, <2>1, StartHolds, StartCall
  <1>5. CASE CommitStart
    <2>1. pc = "Idle" /\ pc' \in {"Hash", "Write"}
      BY <1>5 DEF CommitStart
    <2>2. AbstractCall = [op |-> "none"] /\ AbstractCall' = [op |-> "commit"]
      BY <2>1, CallIs, CallIsNext
    <2>3. CallGoesOn
      BY <2>2 DEF CallGoesOn, LeafMapOfTrie!Calls
    <2> QED BY <1>1, <1>5, <2>3, CommitStartHolds
  <1>6. CASE Step
    BY <1>6, StepHolds
  <1>7. CASE Reopen
    <2>1. Holds(d, d)'
      BY <1>7, ReopenHolds
    <2>2. Restarts
      BY <1>7, CallIsNext DEF Restarts, Reopen, Return
    <2> QED BY <2>1, <2>2 DEF Moves
  <1> QED BY <1>1, <1>2, <1>3, <1>4, <1>5, <1>6, <1>7 DEF Next

\* The tree always holds some leaves, and so does the database.
ValueInv == \E m, d : Holds(m, d)

LEMMA InitValues == Init => ValueInv
  BY InitHolds DEF ValueInv

LEMMA NextValues == "remove" \notin ReadErrors /\ ValueInv /\ [Next]_vars => ValueInv'
  <1> SUFFICES ASSUME "remove" \notin ReadErrors, ValueInv, [Next]_vars PROVE ValueInv'
    OBVIOUS
  <1>1. PICK m, d : Holds(m, d)
    BY DEF ValueInv
  <1>2. PICK m2, d2 : Holds(m2, d2)'
    BY <1>1, NextHolds
  <1> QED BY <1>2 DEF ValueInv

\* A function is the map of its values.
LEMMA FunctionIs ==
  ASSUME NEW S, NEW T, NEW f \in [S -> T]
  PROVE  f = [x \in S |-> f[x]]
  OBVIOUS

\* If removals can read every node, each commit leaves in the Trie column the
\* one Merkle-Patricia trie of the leaves it has, with every hash right,
\* whatever was loaded, split or merged, whichever sets failed to read, and in
\* whatever order compute_hashes hashed the subtrees in parallel (commit and
\* compute_hashes of trie/tree.rs).
THEOREM CommittedTrieCorrect == "remove" \notin ReadErrors => (Spec => []CommittedTrieIsCanonical)
  <1> SUFFICES ASSUME "remove" \notin ReadErrors PROVE Spec => []CommittedTrieIsCanonical
    OBVIOUS
  <1>0. ValueInv /\ [Next]_vars => ValueInv'
    BY NextValues
  <1>1. ValueInv => CommittedTrieIsCanonical
    <2> SUFFICES ASSUME ValueInv PROVE trie_db = StoredTrie(Leaves(trie_db))
      BY DEF CommittedTrieIsCanonical
    <2>1. PICK m, d : Holds(m, d)
      BY DEF ValueInv
    <2>2. d \in [Key -> Felt \cup {None}] /\ trie_db = StoredTrie(d)
      BY <2>1 DEF Holds, InDb
    <2>3. \A k \in Key : LeafIn(trie_db, k) = d[k]
      BY <2>2, LeavesOfStored
    <2>4. Leaves(trie_db) = d
      BY <2>2, <2>3, FunctionIs DEF Leaves
    <2> QED BY <2>2, <2>4
  <1> QED BY <1>0, <1>1, InitValues, PTL DEF Spec

\* With a client that makes none of the rewrites of UnsafeRewrite, and if
\* removals can read every node, the committed trie is that of the Flat column:
\* the root hash a commit returns is the hash of the values `get` reads back
\* (set, delete_leaf and commit of trie/tree.rs).  A set may fail to read; a
\* removal that does makes it false.
THEOREM TrieAgreesWithFlatCorrect ==
  SafeRewrites /\ "remove" \notin ReadErrors => (Spec => []TrieAgreesWithFlat)
  <1> SUFFICES ASSUME SafeRewrites, "remove" \notin ReadErrors PROVE Spec => []TrieAgreesWithFlat
    OBVIOUS
  <1>0. ValueInv /\ [Next]_vars => ValueInv'
    BY NextValues
  <1>1. ValueInv => TrieAgreesWithFlat
    BY DEF ValueInv, Holds, InDb, TrieAgreesWithFlat
  <1> QED BY <1>0, <1>1, InitValues, PTL DEF Spec

(***************************************************************************)
(* The leaf map                                                            *)
(***************************************************************************)
\* The variables of LeafMap are the leaves of the database and of the tree.
LEMMA LeafMapOf ==
  ASSUME NEW m, NEW d
  PROVE  Holds(m, d) => /\ \A k \in Keys : LeafIn(trie_db, k) = d[k] /\ LeafIn(View, k) = m[k]
                        /\ d \in [Key -> Felt \cup {None}] /\ m \in [Key -> Felt \cup {None}]
  <1> SUFFICES ASSUME Holds(m, d)
               PROVE  /\ \A k \in Keys : LeafIn(trie_db, k) = d[k] /\ LeafIn(View, k) = m[k]
                      /\ d \in [Key -> Felt \cup {None}] /\ m \in [Key -> Felt \cup {None}]
    OBVIOUS
  <1>1. d \in [Key -> Felt \cup {None}] /\ m \in [Key -> Felt \cup {None}] /\ trie_db = StoredTrie(d)
    BY DEF Holds, InDb, InTree
  <1>2. ASSUME NEW k \in Keys PROVE LeafIn(trie_db, k) = d[k] /\ LeafIn(View, k) = m[k]
    <2>1. k \in Key
      BY KeysAssumption
    <2> QED BY <1>1, <2>1, LeavesOfStored, LeavesOfView DEF Holds
  <1> QED BY <1>1, <1>2

Committed == [k \in Keys |-> LeafIn(trie_db, k)]

Uncommitted == [k \in Keys |-> LeafIn(View, k)]

OnKeys(f) == [k \in Keys |-> f[k]]

LeavesAre(m, d) == Committed = OnKeys(d) /\ Uncommitted = OnKeys(m)

LEMMA LeafMapIs ==
  ASSUME NEW m, NEW d
  PROVE  Holds(m, d) => LeavesAre(m, d)
  BY LeafMapOf DEF Committed, Uncommitted, OnKeys, LeavesAre

LEMMA LeafMapIsNext ==
  ASSUME NEW m, NEW d
  PROVE  Holds(m, d)' => LeavesAre(m, d)'
  <1>1. Holds(m, d) => LeavesAre(m, d)
    BY LeafMapIs
  <1> QED BY <1>1, PTL

\* The leaves and the call of LeafMap before and after a step that moves them.
LEMMA MovesOnKeys ==
  ASSUME NEW m \in [Key -> Felt \cup {None}], NEW d, NEW m2, NEW d2, Moves(m, d, m2, d2)
  PROVE  \/ OnKeys(d2) = OnKeys(d) /\ OnKeys(m2) = OnKeys(m) /\ CallGoesOn
         \/ /\ OnKeys(d2) = OnKeys(d)
            /\ \E k \in Keys, v \in Values \cup {None} :
                  OnKeys(m2) = [OnKeys(m) EXCEPT ![k] = v] /\ Writes(k, v)
         \/ OnKeys(d2) = OnKeys(m) /\ OnKeys(m2) = OnKeys(m) /\ Commits
         \/ OnKeys(d2) = OnKeys(d) /\ OnKeys(m2) = OnKeys(d) /\ (Commits \/ Restarts)
  <1>1. CASE m2 = m /\ d2 = d /\ CallGoesOn
    BY <1>1
  <1>2. CASE d2 = d /\ \E k \in Keys, v \in Values \cup {None} : m2 = [m EXCEPT ![k] = v] /\ Writes(k, v)
    <2>1. PICK k \in Keys, v \in Values \cup {None} : m2 = [m EXCEPT ![k] = v] /\ Writes(k, v)
      BY <1>2
    <2>2. Keys \subseteq Key
      BY KeysAssumption
    <2>3. OnKeys(m2) = [OnKeys(m) EXCEPT ![k] = v]
      BY <2>1, <2>2 DEF OnKeys
    <2> QED BY <1>2, <2>1, <2>3
  <1>3. CASE d2 = m /\ m2 = m /\ Commits
    BY <1>3
  <1>4. CASE d2 = d /\ m2 = d /\ (Commits \/ Restarts)
    BY <1>4
  <1> QED BY <1>1, <1>2, <1>3, <1>4 DEF Moves

\* Whoever moves the leaves, LeafMap allows it, and unless the tree is
\* reopened it is what a call does.
LEMMA LeafMapMoves ==
  ASSUME NEW m \in [Key -> Felt \cup {None}], NEW d, LeavesAre(m, d),
         NEW m2, NEW d2, LeavesAre(m2, d2)', Moves(m, d, m2, d2)
  PROVE  LeafMapOfTrie!CallStep \/ (Reopen /\ LeafMapOfTrie!Forget)
  <1>1. Committed = OnKeys(d) /\ Uncommitted = OnKeys(m)
    BY DEF LeavesAre
  <1>2. Committed' = OnKeys(d2) /\ Uncommitted' = OnKeys(m2)
    BY DEF LeavesAre, OnKeys
  <1>3. CASE OnKeys(d2) = OnKeys(d) /\ OnKeys(m2) = OnKeys(m) /\ CallGoesOn
    <2>1. UNCHANGED <<Committed, Uncommitted>>
      BY <1>1, <1>2, <1>3
    <2>2. CASE AbstractCall' = AbstractCall
      BY <2>1, <2>2 DEF LeafMapOfTrie!CallStep, LeafMapOfTrie!map_vars, Committed, Uncommitted
    <2>3. CASE AbstractCall = [op |-> "none"] /\ AbstractCall' \in LeafMapOfTrie!Calls
      BY <2>1, <2>3 DEF LeafMapOfTrie!CallStep, LeafMapOfTrie!Begin, LeafMapOfTrie!NoCall,
                        Committed, Uncommitted
    <2>4. CASE /\ "set" \in ReadErrors /\ AbstractCall.op = "write"
               /\ AbstractCall' = [op |-> "none"]
      BY <2>1, <2>4 DEF LeafMapOfTrie!CallStep, LeafMapOfTrie!Refuse, LeafMapOfTrie!NoCall,
                        Committed, Uncommitted
    <2> QED BY <1>3, <2>2, <2>3, <2>4 DEF CallGoesOn
  <1>4. ASSUME OnKeys(d2) = OnKeys(d), NEW k \in Keys, NEW v \in Values \cup {None},
               OnKeys(m2) = [OnKeys(m) EXCEPT ![k] = v], Writes(k, v)
        PROVE  LeafMapOfTrie!CallStep
    <2>1. Committed' = Committed /\ Uncommitted' = [Uncommitted EXCEPT ![k] = v]
      BY <1>1, <1>2, <1>4
    <2>2. /\ AbstractCall.op = "write" /\ AbstractCall.key = k /\ AbstractCall.value = v
          /\ AbstractCall' = [op |-> "none"]
      BY <1>4 DEF Writes
    <2>3. Uncommitted' = [Uncommitted EXCEPT ![AbstractCall.key] = AbstractCall.value]
      BY <2>1, <2>2
    <2> QED BY <2>1, <2>2, <2>3 DEF LeafMapOfTrie!CallStep, LeafMapOfTrie!Write,
                                    LeafMapOfTrie!NoCall, Committed, Uncommitted
  <1>5. CASE OnKeys(d2) = OnKeys(m) /\ OnKeys(m2) = OnKeys(m) /\ Commits
    <2>1. /\ Committed' = Uncommitted /\ Uncommitted' = Uncommitted
          /\ AbstractCall.op = "commit" /\ AbstractCall' = [op |-> "none"]
      BY <1>1, <1>2, <1>5 DEF Commits
    <2> QED BY <2>1 DEF LeafMapOfTrie!CallStep, LeafMapOfTrie!Commit, LeafMapOfTrie!NoCall,
                        Committed, Uncommitted
  <1>6. CASE OnKeys(d2) = OnKeys(d) /\ OnKeys(m2) = OnKeys(d) /\ (Commits \/ Restarts)
    <2>1. Committed' = Committed /\ Uncommitted' = Committed /\ AbstractCall' = [op |-> "none"]
      BY <1>1, <1>2, <1>6 DEF Commits, Restarts
    <2>2. LeafMapOfTrie!Forget
      BY <2>1 DEF LeafMapOfTrie!Forget, LeafMapOfTrie!NoCall, Committed, Uncommitted
    <2>3. CASE Commits
      <3>1. AbstractCall.op = "commit"
        BY <2>3 DEF Commits
      <3> QED BY <2>2, <3>1 DEF LeafMapOfTrie!CallStep, LeafMapOfTrie!CommitRefused
    <2> QED BY <1>6, <2>2, <2>3 DEF Restarts
  <1> QED BY <1>3, <1>4, <1>5, <1>6, MovesOnKeys

LEMMA LeafMapStep ==
  ASSUME "remove" \notin ReadErrors, ValueInv, [Next]_vars
  PROVE  LeafMapOfTrie!CallStep \/ (Reopen /\ LeafMapOfTrie!Forget)
  <1>1. PICK m, d : Holds(m, d)
    BY DEF ValueInv
  <1>2. PICK m2, d2 : Holds(m2, d2)' /\ Moves(m, d, m2, d2)
    BY <1>1, NextHolds
  <1>3. LeavesAre(m, d) /\ m \in [Key -> Felt \cup {None}]
    BY <1>1, LeafMapIs DEF Holds, InTree
  <1>4. LeavesAre(m2, d2)'
    BY <1>2, LeafMapIsNext
  <1> QED BY <1>2, <1>3, <1>4, LeafMapMoves

\* Either way it is a step of LeafMap.
LEMMA LeafMapNext ==
  ASSUME LeafMapOfTrie!CallStep \/ LeafMapOfTrie!Forget
  PROVE  [LeafMapOfTrie!Next]_(LeafMapOfTrie!map_vars)
  BY DEF LeafMapOfTrie!CallStep, LeafMapOfTrie!Next, LeafMapOfTrie!CommitRefused

LEMMA InitLeafMap == Init => LeafMapOfTrie!Init
  <1> SUFFICES ASSUME Init PROVE LeafMapOfTrie!Init
    OBVIOUS
  <1>1. Holds(NoLeaves, NoLeaves)
    BY InitHolds
  <1>2. Committed = [k \in Keys |-> NoLeaves[k]] /\ Uncommitted = [k \in Keys |-> NoLeaves[k]]
    BY <1>1, LeafMapIs DEF LeavesAre, OnKeys
  <1>3. \A k \in Keys : NoLeaves[k] = None
    BY KeysAssumption DEF NoLeaves
  <1>4. Committed = [k \in Keys |-> None] /\ Uncommitted = Committed
    BY <1>2, <1>3
  <1>5. AbstractCall = [op |-> "none"]
    BY CallIs DEF Init
  <1> QED BY <1>4, <1>5 DEF LeafMapOfTrie!Init, LeafMapOfTrie!NoCall, Committed, Uncommitted

\* If removals can read every node, the tree implements LeafMap: splitting,
\* merging, loading, hashing and committing nodes change no leaf but the one
\* the running call was given, and that one to the value it was given; a set
\* that cannot read a node changes nothing, a commit stores exactly the
\* pending leaves, and a restart or a failed write forgets exactly them
\* (insert, remove and commit of lib.rs, over trie/tree.rs).
THEOREM LeafMapImplemented == "remove" \notin ReadErrors => (Spec => ImplementsLeafMap)
  <1> SUFFICES ASSUME "remove" \notin ReadErrors PROVE Spec => ImplementsLeafMap
    OBVIOUS
  <1>1. ValueInv /\ [Next]_vars => ValueInv'
    BY NextValues
  <1>2. ValueInv /\ [Next]_vars => [LeafMapOfTrie!Next]_(LeafMapOfTrie!map_vars)
    BY LeafMapStep, LeafMapNext
  <1> QED BY <1>1, <1>2, InitLeafMap, InitValues, PTL
          DEF Spec, ImplementsLeafMap, LeafMapOfTrie!Spec

\* If removals can read every node, only a restart and a commit that the
\* database refuses give up pending leaves: a set that returns an error, a
\* traversal, a split or a merge never does (set and delete_leaf of
\* trie/tree.rs, seek_to of trie/iterator.rs).
THEOREM CallsForgetNothingCorrect ==
  "remove" \notin ReadErrors => (Spec => CallsForgetNothing)
  <1> SUFFICES ASSUME "remove" \notin ReadErrors PROVE Spec => CallsForgetNothing
    OBVIOUS
  <1>1. ValueInv /\ [Next]_vars => ValueInv'
    BY NextValues
  <1>2. ValueInv /\ [Next]_vars => [~Reopen => LeafMapOfTrie!CallStep]_vars
    BY LeafMapStep
  <1> QED BY <1>1, <1>2, InitValues, PTL DEF Spec, CallsForgetNothing
=============================================================================
