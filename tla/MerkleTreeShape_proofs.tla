----------------------- MODULE MerkleTreeShape_proofs -----------------------
(***************************************************************************)
(* The shape of the tree, for every height, every set of keys and values   *)
(* and any client: between calls the overlay and the database together are *)
(* the trie of the keys a client can read, every handle leads somewhere,   *)
(* and no call ever fails.                                                 *)
(***************************************************************************)
EXTENDS MerkleTree_proofs, SequenceTheorems

USE MaxHeightAssumption, OptionAssumption

(***************************************************************************)
(* The inductive invariant                                                 *)
(***************************************************************************)
\* A call that removes a leaf has put the removal in the cache before it has
\* touched the tree: the leaf counts as there until the call ends.
Removing == pc \in {"LoadRoot", "Traverse", "Finish"} /\ args.value = ZERO

Pending == [k \in Key |-> IF Removing /\ k = args.key THEN ZERO ELSE get(k)]

\* A path where the database or the batch of a commit has a node without a
\* handle to memory.
Stored(n) == n \notin {NoNode, NoChange} => \A l \in DOMAIN n.next : n.next[l] # InMemory

StoredInv == \A p \in Path : Stored(trie_db[p]) /\ Stored(updates[p])

\* A handle is InMemory exactly if its slot is occupied, and the nodes in
\* memory are closed upwards.
LinkedAt(p) ==
    \A l \in DOMAIN nodes[p].next : nodes[p].next[l] = InMemory <=> nodes[p \o l] # NoNode

LinkInv == \A p \in Path : nodes[p] # NoNode => LinkedAt(p)

AboveInv ==
    \A p, q \in Path :
        nodes[q] # NoNode /\ IsPrefixOf(p, q) /\ View[p] # NoNode => nodes[p] # NoNode

RootInv ==
    /\ pc \in {"Traverse", "Hash", "CommitSubtree"} => root_node = "Loaded"
    /\ pc # "Write" => (root_node = "Loaded" <=> nodes[<< >>] # NoNode)
    /\ root_node = "Empty" => View[<< >>] = NoNode

PhaseInv ==
    /\ pc \in {"Idle", "LoadRoot", "Traverse", "Finish"} =>
          updates = NoUpdates /\ hashes = NoHashes
    /\ pc \in {"Hash", "CommitSubtree", "Write"} => death_row = {}
    /\ pc = "Write" => \A p \in Path : nodes[p] = NoNode
    /\ Removing => get(args.key) = None

\* The iterator went down from the root without leaving out a node.
Linked(hs) ==
    /\ hs # << >> => hs[1] = 0
    /\ \A i \in 1..Len(hs) : NodeAtHeight(hs[i]) # NoNode
    /\ \A i \in 1..(Len(hs) - 1) :
          IsBinary(NodeAtHeight(hs[i])) => hs[i] + 1 = hs[i + 1]

\* It stops below an edge only at a leaf or where the edge leaves the key.
WayInv ==
    /\ pc = "Traverse" => Linked(Append(current_nodes_heights, Len(current_path)))
    /\ pc = "Finish" =>
          /\ Linked(current_nodes_heights)
          /\ current_nodes_heights = << >> => View[<< >>] = NoNode
          /\ current_nodes_heights # << >> /\ IsEdge(LastNode) =>
                \/ LastHeight + Len(EdgePath(LastNode)) = MaxHeight
                \/ ~PathMatches(EdgePath(LastNode), args.key, LastHeight)

\* The vector of a node lists the own hash of each node in memory below it, in
\* the order in which commit_subtree visits them.
Below(p) == {q \in Path : nodes[q] # NoNode /\ IsPrefixOf(p, q)}

Before(q, p) == LeftOf(q, p) \/ (IsPrefixOf(p, q) /\ q # p)

Lists(s, S) ==
    /\ s \in Seq(S)
    /\ \A q \in S : \E i \in 1..Len(s) : s[i] = q
    /\ \A i, j \in 1..Len(s) : i < j => Before(s[i], s[j])

OwnHash(p) == hashes[p][Len(hashes[p])]

HashesOf(p) ==
    \E s : /\ Lists(s, Below(p))
           /\ Len(hashes[p]) = Len(s)
           /\ \A i \in 1..Len(s) : hashes[s[i]] # << >> /\ hashes[p][i] = OwnHash(s[i])

HashInv ==
    /\ pc = "Hash" => \A p \in Path : hashes[p] # << >> => nodes[p] # NoNode /\ HashesOf(p)
    /\ pc = "CommitSubtree" => HashesOf(<< >>)

ShapeInv ==
    /\ TInv /\ ~failed
    /\ HasShapeOf(View, Pending) /\ HasShapeOf(trie_db, flat_db)
    /\ StoredInv /\ LinkInv /\ AboveInv /\ RootInv /\ PhaseInv /\ WayInv /\ HashInv

(***************************************************************************)
(* What the invariant says of a node and of its arcs                       *)
(***************************************************************************)
LEMMA NotNode == NoNode # NoChange /\ ~IsBinary(NoNode) /\ ~IsEdge(NoNode)
  BY DEF NoNode, NoChange, IsBinary, IsEdge

\* What a node of a well-typed map is.
LEMMA NodeKind ==
  ASSUME NEW n, NEW p \in Path, IsNodeAt(n, p)
  PROVE  /\ n \notin {NoNode, NoChange} /\ (IsEdge(n) <=> ~IsBinary(n))
         /\ IsBinary(n) \in BOOLEAN /\ n.height = Len(p)
  BY DEF IsNodeAt, IsEdge, IsBinary, NoNode, NoChange

LEMMA EdgeDomain ==
  ASSUME NEW n, NEW p \in Path, IsNodeAt(n, p), IsEdge(n)
  PROVE  DOMAIN n.next = {EdgePath(n)}
  <1>1. PICK l \in Path \ {<< >>} : DOMAIN n.next = {l}
    BY DEF IsNodeAt, IsEdge, IsBinary
  <1> QED BY <1>1 DEF EdgePath

\* What the invariant says of the nodes, wherever the running call is.
NodesTyped ==
    IsNodeMap(trie_db, {NoNode}) /\ IsNodeMap(nodes, {NoNode}) /\ IsNodeMap(updates, {NoNode, NoChange})

CoreInv ==
    /\ NodesTyped
    /\ HasShapeOf(View, Pending) /\ HasShapeOf(trie_db, flat_db)
    /\ StoredInv /\ LinkInv /\ AboveInv

LEMMA TypesCore == TypeOK => NodesTyped
  BY DEF TypeOK, NodesTyped

LEMMA ShapeCore == ShapeInv => CoreInv
  BY TypesCore DEF ShapeInv, TInv, CoreInv

\* Outside a commit the view is the memory and, below it, the database.
LEMMA ViewInCall ==
  ASSUME updates = NoUpdates, NEW p \in Path
  PROVE  View[p] = IF nodes[p] # NoNode THEN nodes[p] ELSE DbNode(p)
  BY DEF View, NoUpdates

LEMMA CoreViewType ==
  ASSUME NodesTyped, NEW p \in Path
  PROVE  /\ View[p] = NoNode \/ IsNodeAt(View[p], p)
         /\ nodes[p] # NoNode => View[p] = nodes[p]
         /\ nodes[p] = NoNode \/ IsNodeAt(nodes[p], p)
  BY DEF View, DbNode, NodesTyped, IsNodeMap

\* A node of the view is one of the trie of the pending keys.
LEMMA CoreNodeInView ==
  ASSUME CoreInv, NEW p \in Path, View[p] # NoNode
  PROVE  /\ HasNode(Pending, p) /\ IsNodeAt(View[p], p)
         /\ DOMAIN View[p].next = Labels(Pending, p)
         /\ IsBinary(View[p]) = Branches(Pending, p)
  <1>1. Looks(View, Pending, p)
    BY ShapeIs DEF CoreInv
  <1> QED BY <1>1, CoreViewType DEF Looks, CoreInv

LEMMA CoreNodeInMemory ==
  ASSUME CoreInv, NEW p \in Path, nodes[p] # NoNode
  PROVE  /\ HasNode(Pending, p) /\ IsNodeAt(nodes[p], p) /\ View[p] = nodes[p]
         /\ DOMAIN nodes[p].next = Labels(Pending, p)
         /\ IsBinary(nodes[p]) = Branches(Pending, p)
  <1>1. View[p] = nodes[p]
    BY CoreViewType DEF CoreInv
  <1> QED BY <1>1, CoreNodeInView

\* Where there is no node in the trie there is none in the view.
LEMMA CoreNotInView ==
  ASSUME CoreInv, NEW p \in Path
  PROVE  /\ View[p] # NoNode <=> HasNode(Pending, p)
         /\ Len(p) = MaxHeight => View[p] = NoNode /\ nodes[p] = NoNode
  <1>1. Looks(View, Pending, p)
    BY ShapeIs DEF CoreInv
  <1>2. View[p] # NoNode <=> HasNode(Pending, p)
    BY <1>1 DEF Looks
  <1>3. Len(p) = MaxHeight => View[p] = NoNode
    BY <1>2, HasNodeIs
  <1>4. nodes[p] # NoNode => View[p] # NoNode
    BY CoreViewType DEF CoreInv
  <1> QED BY <1>2, <1>3, <1>4

\* Where an arc of a node in memory leads.
LEMMA CoreArc ==
  ASSUME CoreInv, NEW p \in Path, nodes[p] # NoNode, NEW l \in DOMAIN nodes[p].next
  PROVE  /\ ArcOf(Pending, p, l)
         /\ nodes[p].next[l] = InMemory <=> nodes[p \o l] # NoNode
         /\ Len(p \o l) < MaxHeight => View[p \o l] # NoNode
         /\ Len(p \o l) = MaxHeight => nodes[p \o l] = NoNode
  <1>1. HasNode(Pending, p) /\ l \in Labels(Pending, p)
    BY CoreNodeInMemory
  <1>2. ArcOf(Pending, p, l)
    BY <1>1, Arc
  <1>3. nodes[p].next[l] = InMemory <=> nodes[p \o l] # NoNode
    BY DEF CoreInv, LinkInv, LinkedAt
  <1>4. p \o l \in Path /\ (Len(p \o l) < MaxHeight => HasNode(Pending, p \o l))
    BY <1>2 DEF ArcOf
  <1> QED BY <1>2, <1>3, <1>4, CoreNotInView

\* Below a node that is only in the database nothing is in memory.
LEMMA CoreNothingBelow ==
  ASSUME CoreInv, NEW p \in Path, View[p] # NoNode, nodes[p] = NoNode,
         NEW q \in Path, IsPrefixOf(p, q)
  PROVE  nodes[q] = NoNode
  BY DEF CoreInv, AboveInv

\* A node in memory is below a root in memory.
LEMMA CoreRoot ==
  ASSUME CoreInv, NEW p \in Path, nodes[p] # NoNode
  PROVE  nodes[<< >>] # NoNode
  <1>1. Through(Pending, p) # {}
    BY CoreNodeInMemory DEF HasNode
  <1>2. View[<< >>] # NoNode
    BY <1>1, RootNode, RootInPath, CoreNotInView
  <1>3. IsPrefixOf(<< >>, p)
    BY EmptyPrefix, PathSeq
  <1> QED BY <1>2, <1>3, RootInPath DEF CoreInv, AboveInv

\* The same from the whole invariant.
LEMMA ViewType ==
  ASSUME TypeOK, NEW p \in Path
  PROVE  /\ View[p] = NoNode \/ IsNodeAt(View[p], p)
         /\ nodes[p] # NoNode => View[p] = nodes[p]
         /\ nodes[p] = NoNode \/ IsNodeAt(nodes[p], p)
  BY CoreViewType, TypesCore

LEMMA NodeInView ==
  ASSUME ShapeInv, NEW p \in Path, View[p] # NoNode
  PROVE  /\ HasNode(Pending, p) /\ IsNodeAt(View[p], p)
         /\ DOMAIN View[p].next = Labels(Pending, p)
         /\ IsBinary(View[p]) = Branches(Pending, p)
  BY CoreNodeInView, ShapeCore

LEMMA NodeInMemory ==
  ASSUME ShapeInv, NEW p \in Path, nodes[p] # NoNode
  PROVE  /\ HasNode(Pending, p) /\ IsNodeAt(nodes[p], p) /\ View[p] = nodes[p]
         /\ DOMAIN nodes[p].next = Labels(Pending, p)
         /\ IsBinary(nodes[p]) = Branches(Pending, p)
  BY CoreNodeInMemory, ShapeCore

LEMMA NotInView ==
  ASSUME ShapeInv, NEW p \in Path
  PROVE  /\ View[p] # NoNode <=> HasNode(Pending, p)
         /\ Len(p) = MaxHeight => View[p] = NoNode /\ nodes[p] = NoNode
  BY CoreNotInView, ShapeCore

LEMMA ArcInMemory ==
  ASSUME ShapeInv, NEW p \in Path, nodes[p] # NoNode, NEW l \in DOMAIN nodes[p].next
  PROVE  /\ ArcOf(Pending, p, l)
         /\ nodes[p].next[l] = InMemory <=> nodes[p \o l] # NoNode
         /\ Len(p \o l) < MaxHeight => View[p \o l] # NoNode
         /\ Len(p \o l) = MaxHeight => nodes[p \o l] = NoNode
  BY CoreArc, ShapeCore

LEMMA NothingBelow ==
  ASSUME ShapeInv, NEW p \in Path, View[p] # NoNode, nodes[p] = NoNode,
         NEW q \in Path, IsPrefixOf(p, q)
  PROVE  nodes[q] = NoNode
  BY CoreNothingBelow, ShapeCore

LEMMA RootInMemory ==
  ASSUME ShapeInv, NEW p \in Path, nodes[p] # NoNode
  PROVE  nodes[<< >>] # NoNode
  BY CoreRoot, ShapeCore

(***************************************************************************)
(* The initial state, and the steps that change no node                    *)
(***************************************************************************)
LEMMA GetNone == \A k \in Key : cache_leaf_modified = NoLeaves => get(k) = flat_db[k]
  BY RemoveAssumption DEF get, NoLeaves

\* Nothing in memory: the view is the database.
Fresh ==
    /\ TInv /\ ~failed /\ pc = "Idle" /\ death_row = {} /\ updates = NoUpdates
    /\ hashes = NoHashes /\ root_node = "None" /\ cache_leaf_modified = NoLeaves
    /\ HasShapeOf(trie_db, flat_db)
    /\ \A p \in Path : nodes[p] = NoNode /\ Stored(trie_db[p])

LEMMA FreshShape == Fresh => ShapeInv
  <1> SUFFICES ASSUME Fresh PROVE ShapeInv
    OBVIOUS
  <1> USE DEF Fresh
  <1>1. \A p \in Path : nodes[p] = NoNode /\ View[p] = trie_db[p]
    BY DEF View, NoUpdates, DbNode
  <1>2. ~Removing
    BY DEF Removing
  <1>3. \A k \in Key : Pending[k] = flat_db[k]
    BY <1>2, GetNone DEF Pending
  <1>4. HasShapeOf(View, Pending)
    <2>1. HasShapeOf(trie_db, Pending)
      BY <1>3, ShapeOfKeys
    <2> QED BY <1>1, <2>1, ShapeIs DEF Looks
  <1>5. StoredInv
    BY NotNode DEF StoredInv, Stored, NoUpdates
  <1>6. LinkInv /\ AboveInv
    BY <1>1 DEF LinkInv, AboveInv
  <1>7. RootInv /\ PhaseInv /\ WayInv /\ HashInv
    BY <1>1, <1>2, RootInPath DEF RootInv, PhaseInv, WayInv, HashInv
  <1> QED BY <1>4, <1>5, <1>6, <1>7 DEF ShapeInv

LEMMA InitFresh == Init => Fresh
  <1> SUFFICES ASSUME Init PROVE Fresh
    OBVIOUS
  <1>1. /\ trie_db = NoNodes /\ flat_db = NoLeaves /\ root_node = "None" /\ nodes = NoNodes
        /\ death_row = {} /\ cache_leaf_modified = NoLeaves /\ pc = "Idle"
        /\ hashes = NoHashes /\ updates = NoUpdates /\ ~failed
    BY DEF Init
  <1>2. HasShapeOf(trie_db, flat_db)
    BY <1>1, ShapeEmpty DEF NoLeaves, NoNodes
  <1>3. \A p \in Path : Stored(trie_db[p])
    BY <1>1 DEF Stored, NoNodes
  <1>4. \A p \in Path : nodes[p] = NoNode
    BY <1>1 DEF NoNodes
  <1> QED BY <1>1, <1>2, <1>3, <1>4, InitTInv DEF Fresh

LEMMA InitShape == Init => ShapeInv
  BY InitFresh, FreshShape

\* The parts that only depend on the nodes.
LEMMA SameNodes ==
  ASSUME ShapeInv, UNCHANGED <<trie_db, nodes, death_row, updates>>
  PROVE  View' = View /\ LinkInv' /\ AboveInv' /\ StoredInv'
  <1>1. View' = View
    BY DEF View, DbNode
  <1>2. LinkInv'
    BY DEF ShapeInv, LinkInv, LinkedAt
  <1>3. AboveInv'
    BY <1>1 DEF ShapeInv, AboveInv
  <1>4. StoredInv'
    BY DEF ShapeInv, StoredInv, Stored
  <1> QED BY <1>1, <1>2, <1>3, <1>4

\* The keys that have a leaf stay the same when a call begins.
LEMMA StartKeys ==
  ASSUME ShapeInv, NEW key \in Keys, NEW value \in Felt \ {ZERO},
         \/ SetCached(key, value) \/ SetSame(key, value) \/ SetSeek(key, value)
         \/ DeleteAbsent(key) \/ DeleteSeek(key)
  PROVE  /\ \A k \in Key : Pending[k] = None <=> Pending'[k] = None
         /\ Removing' => get(args.key)' = None
  <1>1. pc = "Idle" /\ ~Removing /\ key \in Key /\ value \in Felt /\ value # ZERO
        /\ None \notin Felt /\ Remove \notin Felt /\ Remove # None /\ ZERO \in Felt
    <2>1. pc = "Idle"
      BY DEF SetCached, SetSame, SetSeek, DeleteAbsent, DeleteSeek, StartSet, StartDelete
    <2>2. ~Removing
      BY <2>1 DEF Removing
    <2>3. ZERO \in Felt
      BY DEF ZERO, Felt
    <2> QED BY <2>1, <2>2, <2>3, KeysAssumption, RemoveAssumption
  <1>2. cache_leaf_modified \in [Key -> Felt \cup {None, Remove}]
        /\ flat_db \in [Key -> Felt \cup {None}]
    BY DEF ShapeInv, TInv, TypeOK
  <1>3. \A k \in Key : Pending[k] = get(k)
    BY <1>1 DEF Pending
  <1>4. CASE SetCached(key, value)
    <2>1. /\ cache_leaf_modified' = [cache_leaf_modified EXCEPT ![key] = value]
          /\ flat_db' = flat_db /\ pc' = "Idle" /\ cache_leaf_modified[key] \in Felt
      BY <1>1, <1>4 DEF SetCached, StartSet, CachedInsert, db
    <2>2. ~Removing'
      BY <2>1 DEF Removing
    <2>3. \A k \in Key : Pending'[k] = get(k)'
      BY <2>2 DEF Pending
    <2>4. ASSUME NEW k \in Key PROVE get(k) = None <=> get(k)' = None
      BY <1>1, <1>2, <2>1 DEF get
    <2> QED BY <1>3, <2>2, <2>3, <2>4
  <1>5. CASE SetSame(key, value) \/ DeleteAbsent(key)
    <2>1. /\ cache_leaf_modified' = cache_leaf_modified /\ flat_db' = flat_db /\ pc' = "Idle"
      BY <1>1, <1>5 DEF SetSame, DeleteAbsent, StartSet, StartDelete, db, tree
    <2>2. ~Removing'
      BY <2>1 DEF Removing
    <2>3. \A k \in Key : Pending'[k] = get(k)'
      BY <2>2 DEF Pending
    <2>4. \A k \in Key : get(k)' = get(k)
      BY <2>1 DEF get
    <2> QED BY <1>3, <2>2, <2>3, <2>4
  <1>6. CASE SetSeek(key, value)
    <2>1. /\ cache_leaf_modified' = cache_leaf_modified /\ flat_db' = flat_db
          /\ args' = [key |-> key, value |-> value]
      BY <1>6 DEF SetSeek, Seek, db
    <2>2. ~Removing'
      BY <1>1, <2>1 DEF Removing
    <2>3. \A k \in Key : Pending'[k] = get(k)'
      BY <2>2 DEF Pending
    <2>4. \A k \in Key : get(k)' = get(k)
      BY <2>1 DEF get
    <2> QED BY <1>3, <2>2, <2>3, <2>4
  <1>7. CASE DeleteSeek(key)
    <2>1. /\ cache_leaf_modified' = [cache_leaf_modified EXCEPT ![key] = Remove]
          /\ flat_db' = flat_db /\ TreeHasValue(key)
          /\ args' = [key |-> key, value |-> ZERO] /\ pc' = "LoadRoot"
      BY <1>7 DEF DeleteSeek, Seek, db
    <2>2. Removing' /\ args'.key = key
      BY <2>1 DEF Removing
    <2>3. get(key)' = None
      BY <1>1, <1>2, <2>1 DEF get
    <2>4. get(key) # None
      BY <1>1, <1>2, <2>1 DEF get, TreeHasValue
    <2>5. ASSUME NEW k \in Key, k # key PROVE get(k)' = get(k)
      BY <1>1, <1>2, <2>1, <2>5 DEF get
    <2>6. Pending'[key] = ZERO
      BY <1>1, <2>2 DEF Pending
    <2>7. ASSUME NEW k \in Key, k # key PROVE Pending'[k] = get(k)'
      BY <2>2, <2>7 DEF Pending
    <2>8. get(args.key)' = None
      BY <2>2, <2>3 DEF get
    <2> QED BY <1>1, <1>3, <2>4, <2>5, <2>6, <2>7, <2>8
  <1> QED BY <1>4, <1>5, <1>6, <1>7

LEMMA StartShape ==
  ASSUME ShapeInv, NEW key \in Keys, NEW value \in Felt \ {ZERO},
         \/ SetCached(key, value) \/ SetSame(key, value) \/ SetSeek(key, value)
         \/ DeleteAbsent(key) \/ DeleteSeek(key)
  PROVE  ShapeInv'
  <1>1. TInv'
    BY StartTInv DEF ShapeInv
  <1>2. /\ pc = "Idle" /\ pc' \in {"Idle", "LoadRoot"}
        /\ UNCHANGED <<trie_db, flat_db, root_node, nodes, death_row, hashes, updates, failed>>
    BY DEF SetCached, SetSame, SetSeek, DeleteAbsent, DeleteSeek, StartSet, StartDelete, Seek,
           db, tree, commit
  <1>3. View' = View /\ LinkInv' /\ AboveInv' /\ StoredInv'
    BY <1>2, SameNodes
  <1>4. HasShapeOf(View, Pending)'
    BY <1>3, StartKeys, ShapeOfKeys DEF ShapeInv
  <1>5. HasShapeOf(trie_db, flat_db)'
    BY <1>2 DEF ShapeInv
  <1>6. RootInv' /\ WayInv' /\ HashInv'
    BY <1>2, <1>3 DEF ShapeInv, RootInv, WayInv, HashInv
  <1>7. PhaseInv'
    BY <1>2, StartKeys DEF ShapeInv, PhaseInv
  <1> QED BY <1>1, <1>2, <1>3, <1>4, <1>5, <1>6, <1>7 DEF ShapeInv

LEMMA ReopenFresh ==
  ASSUME ShapeInv, Reopen
  PROVE  Fresh'
  <1>1. /\ root_node' = "None" /\ nodes' = NoNodes /\ death_row' = {}
        /\ cache_leaf_modified' = NoLeaves
        /\ hashes' = NoHashes /\ updates' = NoUpdates /\ failed' = failed /\ pc' = "Idle"
        /\ trie_db' = trie_db /\ flat_db' = flat_db
    BY DEF Reopen, Return, db
  <1>2. TInv'
    BY ReopenTInv DEF ShapeInv
  <1>3. \A p \in Path : nodes'[p] = NoNode
    BY <1>1 DEF NoNodes
  <1>4. HasShapeOf(trie_db, flat_db)' /\ ~failed'
    BY <1>1 DEF ShapeInv
  <1>5. \A p \in Path : Stored(trie_db[p])'
    BY <1>1 DEF ShapeInv, StoredInv, Stored
  <1> QED BY <1>1, <1>2, <1>3, <1>4, <1>5 DEF Fresh

LEMMA ReopenShape ==
  ASSUME ShapeInv, Reopen
  PROVE  ShapeInv'
  BY ReopenFresh, FreshShape, PTL

\* The batch turns the database into what a traversal has seen.
LEMMA CommitWriteFresh ==
  ASSUME ShapeInv, CommitWrite \/ CommitWriteFails
  PROVE  Fresh'
  <1>1. pc = "Write" /\ death_row = {} /\ ~Removing /\ \A p \in Path : nodes[p] = NoNode
    BY DEF ShapeInv, PhaseInv, CommitWrite, CommitWriteFails, Removing
  <1>2. /\ root_node' = "None" /\ cache_leaf_modified' = NoLeaves /\ nodes' = nodes
        /\ hashes' = NoHashes /\ updates' = NoUpdates /\ pc' = "Idle"
        /\ death_row' = death_row /\ failed' = failed
    BY DEF CommitWrite, CommitWriteFails, ClearTree
  <1>3. TInv' /\ ~failed'
    BY <1>2, CommitWriteTInv DEF ShapeInv
  <1>4. HasShapeOf(trie_db, flat_db)' /\ \A p \in Path : Stored(trie_db[p])'
    <2>1. CASE CommitWriteFails
      <3>1. trie_db' = trie_db /\ flat_db' = flat_db
        BY <2>1 DEF CommitWriteFails, db
      <3> QED BY <3>1 DEF ShapeInv, StoredInv, Stored
    <2>2. CASE CommitWrite
      <3>1. ASSUME NEW p \in Path
            PROVE  trie_db'[p] = View[p] /\ trie_db'[p] \in {trie_db[p], updates[p]}
        BY <1>1, <2>2, <3>1 DEF CommitWrite, Written, View, DbNode
      <3>2. \A k \in Key : flat_db'[k] = Pending[k]
        BY <1>1, <2>2 DEF CommitWrite, Pending
      <3>3. HasShapeOf(View, flat_db')
        BY <3>2, ShapeOfKeys DEF ShapeInv
      <3>4. HasShapeOf(trie_db', flat_db')
        BY <3>1, <3>3, ShapeIs DEF Looks
      <3>5. \A p \in Path : Stored(trie_db[p])'
        BY <3>1 DEF ShapeInv, StoredInv, Stored
      <3> QED BY <3>4, <3>5
    <2> QED BY <2>1, <2>2
  <1> QED BY <1>1, <1>2, <1>3, <1>4 DEF Fresh

LEMMA CommitWriteShape ==
  ASSUME ShapeInv, CommitWrite \/ CommitWriteFails
  PROVE  ShapeInv'
  BY CommitWriteFresh, FreshShape, PTL

LEMMA CommitStartShape ==
  ASSUME ShapeInv, CommitStart
  PROVE  ShapeInv'
  <1>1. /\ pc = "Idle" /\ death_row' = {}
        /\ updates' = [p \in Path |-> IF p \in death_row THEN NoNode ELSE NoChange]
        /\ pc' = IF root_node = "Loaded" THEN "Hash" ELSE "Write"
        /\ UNCHANGED <<trie_db, flat_db, root_node, nodes, cache_leaf_modified, hashes, failed>>
    BY DEF CommitStart, db
  <1>2. updates = NoUpdates /\ hashes = NoHashes
    BY <1>1 DEF ShapeInv, PhaseInv
  <1>3. View' = View
    <2>1. ASSUME NEW p \in Path
          PROVE  (IF nodes[p] # NoNode THEN nodes[p]
                  ELSE IF updates[p] # NoChange THEN updates[p] ELSE DbNode(p))'
                 = IF nodes[p] # NoNode THEN nodes[p]
                   ELSE IF updates[p] # NoChange THEN updates[p] ELSE DbNode(p)
      BY <1>1, <1>2, NotNode DEF DbNode, NoUpdates
    <2> QED BY <2>1 DEF View
  <1>4. TInv' /\ ~failed'
    BY <1>1, CommitStartTInv DEF ShapeInv
  <1>5. ~Removing /\ ~Removing'
    BY <1>1 DEF Removing
  <1>6. Pending' = Pending
    BY <1>1, <1>5 DEF Pending, get
  <1>7. HasShapeOf(View, Pending)' /\ HasShapeOf(trie_db, flat_db)'
    BY <1>1, <1>3, <1>6 DEF ShapeInv
  <1>8. StoredInv'
    BY <1>1, NotNode DEF ShapeInv, StoredInv, Stored
  <1>9. LinkInv' /\ AboveInv'
    BY <1>1, <1>3 DEF ShapeInv, LinkInv, AboveInv, LinkedAt
  <1>10. RootInv' /\ WayInv'
    BY <1>1, <1>3 DEF ShapeInv, RootInv, WayInv
  <1>11. PhaseInv'
    <2>1. pc' = "Write" => \A p \in Path : nodes'[p] = NoNode
      BY <1>1, RootInMemory DEF ShapeInv, RootInv
    <2> QED BY <1>1, <1>5, <2>1 DEF PhaseInv
  <1>12. HashInv'
    BY <1>1, <1>2 DEF HashInv, NoHashes
  <1> QED BY <1>4, <1>7, <1>8, <1>9, <1>10, <1>11, <1>12 DEF ShapeInv

(***************************************************************************)
(* The traversal                                                           *)
(***************************************************************************)
\* What is known of the root between the steps of a call.
RootKnown ==
    /\ root_node \in {"None", "Empty", "Loaded"}
    /\ root_node = "Loaded" <=> nodes[<< >>] # NoNode
    /\ root_node = "Empty" => View[<< >>] = NoNode

\* load_root_node, whoever calls it.
LoadsRoot ==
    IF root_node = "None"
    THEN /\ root_node' = IF DbNode(<< >>) = NoNode THEN "Empty" ELSE "Loaded"
         /\ nodes' = [nodes EXCEPT ![<< >>] = DbNode(<< >>)]
    ELSE UNCHANGED <<root_node, nodes>>

LEMMA LoadedRoot ==
  ASSUME CoreInv, RootKnown, LoadsRoot, updates = NoUpdates, UNCHANGED <<trie_db, death_row, updates>>
  PROVE  /\ root_node' \in {"Empty", "Loaded"} /\ RootKnown'
         /\ \A p \in Path : p # << >> => nodes'[p] = nodes[p]
         /\ \/ nodes'[<< >>] = nodes[<< >>]
            \/ (\A p \in Path : nodes[p] = NoNode) /\ nodes'[<< >>] = DbNode(<< >>)
         /\ View' = View /\ LinkInv' /\ AboveInv'
  <1>1. /\ root_node' \in {"Empty", "Loaded"}
        /\ root_node' = "Loaded" <=> nodes'[<< >>] # NoNode
        /\ \A p \in Path : p # << >> => nodes'[p] = nodes[p]
        /\ \/ nodes'[<< >>] = nodes[<< >>]
           \/ (\A p \in Path : nodes[p] = NoNode) /\ nodes'[<< >>] = DbNode(<< >>)
    <2>1. DOMAIN nodes = Path /\ root_node \in {"None", "Empty", "Loaded"}
      BY DEF CoreInv, NodesTyped, IsNodeMap, RootKnown
    <2>2. root_node = "Loaded" <=> nodes[<< >>] # NoNode
      BY DEF RootKnown
    <2>3. CASE root_node = "None"
      <3>1. \A p \in Path : nodes[p] = NoNode
        BY <2>2, <2>3, CoreRoot
      <3>2. /\ root_node' = IF DbNode(<< >>) = NoNode THEN "Empty" ELSE "Loaded"
            /\ nodes' = [nodes EXCEPT ![<< >>] = DbNode(<< >>)]
        BY <2>3 DEF LoadsRoot
      <3> QED BY <2>1, <3>1, <3>2, RootInPath
    <2>4. CASE root_node # "None"
      <3>1. root_node' = root_node /\ nodes' = nodes
        BY <2>4 DEF LoadsRoot
      <3>2. root_node' \in {"Empty", "Loaded"}
        BY <2>1, <2>4, <3>1
      <3>3. root_node' = "Loaded" <=> nodes'[<< >>] # NoNode
        BY <2>2, <3>1, Zenon
      <3>4. nodes'[<< >>] = nodes[<< >>] /\ \A p \in Path : nodes'[p] = nodes[p]
        BY <3>1
      <3> QED BY <3>2, <3>3, <3>4, Zenon
    <2> QED BY <2>3, <2>4
  <1>2. View' = View
    <2>1. ASSUME NEW p \in Path PROVE View'[p] = View[p]
      BY <1>1 DEF View, DbNode, NoUpdates
    <2> QED BY <2>1 DEF View
  <1>3. AboveInv' /\ LinkInv'
    <2>1. CASE nodes'[<< >>] = nodes[<< >>]
      <3>1. \A p \in Path : nodes'[p] = nodes[p]
        BY <1>1, <2>1
      <3>2. AboveInv'
        BY <1>2, <3>1 DEF CoreInv, AboveInv
      <3>3. ASSUME NEW p \in Path, nodes'[p] # NoNode PROVE LinkedAt(p)'
        <4>1. LinkedAt(p) /\ IsNodeAt(nodes[p], p)
          BY <3>1, <3>3, CoreNodeInMemory DEF CoreInv, LinkInv
        <4>2. \A l \in DOMAIN nodes[p].next : p \o l \in Path
          BY <4>1 DEF IsNodeAt
        <4> QED BY <3>1, <4>1, <4>2 DEF LinkedAt
      <3> QED BY <3>2, <3>3 DEF LinkInv
    <2>2. CASE (\A p \in Path : nodes[p] = NoNode) /\ nodes'[<< >>] = DbNode(<< >>)
      <3>1. \A p \in Path : nodes'[p] # NoNode => p = << >>
        BY <1>1, <2>2
      <3>2. ASSUME NEW p \in Path, NEW q \in Path, nodes'[q] # NoNode, IsPrefixOf(p, q)
            PROVE  nodes'[p] # NoNode
        <4>1. q = << >>
          BY <3>1, <3>2
        <4>2. p = << >>
          <5>1. Len(<< >>) = 0 /\ Len(p) \in Nat /\ Len(p) <= 0
            BY <3>2, <4>1, PathSeq DEF IsPrefixOf
          <5>2. p \in Seq(Bit)
            BY PathSeq
          <5> QED BY <5>1, <5>2
        <4> QED BY <3>2, <4>1, <4>2
      <3>3. AboveInv'
        BY <3>2 DEF AboveInv
      <3>4. ASSUME nodes'[<< >>] # NoNode PROVE LinkedAt(<< >>)'
        <4>1. IsNodeAt(DbNode(<< >>), << >>) /\ DbNode(<< >>) = trie_db[<< >>]
          BY <2>2, <3>4, RootInPath DEF CoreInv, NodesTyped, IsNodeMap, DbNode
        <4>2. DbNode(<< >>) \notin {NoNode, NoChange}
          BY <4>1, NodeKind, RootInPath
        <4>3. \A l \in DOMAIN trie_db[<< >>].next : trie_db[<< >>].next[l] # InMemory
          BY <4>1, <4>2, RootInPath DEF CoreInv, StoredInv, Stored
        <4>4. ASSUME NEW l \in DOMAIN trie_db[<< >>].next PROVE nodes'[<< >> \o l] = NoNode
          <5>1. << >> \o l \in Path
            BY <4>1 DEF IsNodeAt
          <5>2. l # << >>
            <6>1. l \in Directions \/ l \in Path \ {<< >>}
              BY <4>1 DEF IsNodeAt
            <6>3. \A d \in Directions : d # << >>
              BY DEF Directions
            <6> QED BY <6>1, <6>3
          <5>3. l \in Seq(Bit)
            <6>1. l \in Directions \/ l \in Path
              BY <4>1 DEF IsNodeAt
            <6> QED BY <6>1, DirectionSeq, PathSeq
          <5>4. << >> \o l = l
            BY <5>3
          <5> QED BY <3>1, <5>1, <5>2, <5>4
        <4> QED BY <2>2, <4>1, <4>3, <4>4 DEF LinkedAt
      <3>5. LinkInv'
        BY <3>1, <3>4 DEF LinkInv
      <3> QED BY <3>3, <3>5
    <2> QED BY <1>1, <2>1, <2>2
  <1>4. root_node' = "Empty" => View'[<< >>] = NoNode
    BY <1>1, <1>2, ViewInCall, RootInPath DEF RootKnown, View, NoUpdates, LoadsRoot
  <1>5. RootKnown'
    BY <1>1, <1>4 DEF RootKnown
  <1> QED BY <1>1, <1>2, <1>3, <1>5

LEMMA LoadRootShape ==
  ASSUME ShapeInv, LoadRootNode
  PROVE  ShapeInv'
  <1>1. /\ pc = "LoadRoot" /\ current_path = << >> /\ current_nodes_heights = << >>
        /\ updates = NoUpdates /\ hashes = NoHashes
    BY DEF ShapeInv, TInv, IteratorOnKey, LoadRootNode, PhaseInv
  <1>2. /\ current_path' = << >> /\ current_nodes_heights' = << >> /\ args' = args
        /\ UNCHANGED <<trie_db, flat_db, death_row, cache_leaf_modified, hashes, updates, failed>>
        /\ pc' = IF root_node' = "Loaded" THEN "Traverse" ELSE "Finish"
    BY <1>1 DEF LoadRootNode, iter, db, commit
  <1>3. TInv' /\ ~failed'
    BY <1>2, LoadRootTInv DEF ShapeInv
  <1>4. Pending' = Pending /\ get(args.key)' = get(args.key) /\ (Removing' <=> Removing)
    BY <1>1, <1>2 DEF Pending, Removing, get
  <1>5. CoreInv /\ RootKnown /\ LoadsRoot
    <2>1. RootKnown
      BY <1>1 DEF ShapeInv, TInv, TypeOK, RootInv, RootKnown
    <2> QED BY <2>1, ShapeCore DEF LoadRootNode, LoadsRoot
  <1>6. root_node' \in {"Empty", "Loaded"} /\ RootKnown' /\ View' = View /\ LinkInv' /\ AboveInv'
    BY <1>1, <1>2, <1>5, LoadedRoot
  <1>7. HasShapeOf(View, Pending)' /\ HasShapeOf(trie_db, flat_db)'
    BY <1>2, <1>4, <1>6 DEF ShapeInv
  <1>8. StoredInv'
    BY <1>2 DEF ShapeInv, StoredInv, Stored
  <1>9. RootInv'
    BY <1>2, <1>6 DEF RootInv, RootKnown
  <1>10. PhaseInv' /\ HashInv'
    BY <1>1, <1>2, <1>4 DEF ShapeInv, PhaseInv, HashInv
  <1>11. WayInv'
    <2>1. CASE root_node' = "Loaded"
      <3>1. nodes'[<< >>] # NoNode /\ First(args.key, 0) = << >>
        <4>1. args.key \in Seq(Bit)
          BY KeySeq DEF ShapeInv, TInv, TypeOK
        <4> QED BY <1>6, <2>1, <4>1 DEF First, RootKnown
      <3>2. Append(<< >>, Len(<< >>)) = <<0>>
        OBVIOUS
      <3>3. Linked(<<0>>)'
        BY <1>2, <3>1 DEF Linked, NodeAtHeight
      <3> QED BY <1>2, <2>1, <3>2, <3>3 DEF WayInv, Linked
    <2>2. CASE root_node' = "Empty"
      <3>1. Linked(<< >>)'
        BY DEF Linked
      <3> QED BY <1>2, <1>6, <2>2, <3>1 DEF WayInv, Linked, RootKnown
    <2> QED BY <1>6, <2>1, <2>2
  <1> QED BY <1>3, <1>6, <1>7, <1>8, <1>9, <1>10, <1>11 DEF ShapeInv

LEMMA SamePending ==
  ASSUME UNCHANGED <<args, cache_leaf_modified, flat_db>>,
         pc \in {"LoadRoot", "Traverse", "Finish"}, pc' \in {"LoadRoot", "Traverse", "Finish"}
  PROVE  Pending' = Pending /\ get(args.key)' = get(args.key) /\ (Removing' <=> Removing)
  BY DEF Pending, Removing, get

\* The iterator is at a node in memory.
LEMMA AtNode ==
  ASSUME ShapeInv, pc = "Traverse"
  PROVE  /\ current_path \in Path /\ nodes[current_path] # NoNode
         /\ First(args.key, Len(current_path)) = current_path
         /\ Len(current_path) \in 0..(MaxHeight - 1)
         /\ ~BadNode(nodes[current_path])
  <1>1. /\ current_path \in Path /\ current_path \in Seq(Bit)
        /\ args.key \in Seq(Bit) /\ Len(args.key) = MaxHeight
        /\ Len(current_path) \in 0..(MaxHeight - 1)
        /\ \A i \in 1..Len(current_path) : current_path[i] = args.key[i]
        /\ current_nodes_heights \in Seq(0..(MaxHeight - 1))
    BY PathSeq, KeySeq DEF ShapeInv, TInv, TypeOK, IteratorOnKey
  <1>2. First(args.key, Len(current_path)) = current_path
    <2>1. /\ First(args.key, Len(current_path)) \in Seq(Bit)
          /\ Len(First(args.key, Len(current_path))) = Len(current_path)
          /\ \A i \in 1..Len(current_path) :
               First(args.key, Len(current_path))[i] = args.key[i]
      BY <1>1, FirstSeq, Len(current_path) \in 0..Len(args.key)
    <2> QED BY <1>1, <2>1, SameSeq
  <1>3. nodes[current_path] # NoNode
    <2>1. PICK hs : hs = Append(current_nodes_heights, Len(current_path))
      OBVIOUS
    <2>2. Len(hs) \in 1..Len(hs) /\ hs[Len(hs)] = Len(current_path)
      BY <1>1, <2>1, AppendHeight
    <2>3. Linked(hs)
      BY <2>1 DEF ShapeInv, WayInv
    <2> QED BY <1>2, <2>2, <2>3 DEF Linked, NodeAtHeight
  <1>4. ~BadNode(nodes[current_path])
    BY <1>1, <1>3, NodeInMemory DEF BadNode, IsNodeAt
  <1> QED BY <1>1, <1>2, <1>3, <1>4

\* The traversal never meets a dangling handle.
LEMMA TraversalHolds ==
  ASSUME ShapeInv, pc = "Traverse"
  PROVE  ~TraversalBroken(nodes[current_path])
  <1> DEFINE n == nodes[current_path]
             l == NextLabel(n)
  <1>1. current_path \in Path /\ n # NoNode /\ ~BadNode(n)
    BY AtNode
  <1>2. l \in DOMAIN n.next
    BY <1>1, NextArc DEF ShapeInv
  <1>3. ASSUME ~EndOfTraversal(n), n.next[l] # InMemory
        PROVE  DbNode(current_path \o l) # NoNode
    <2>1. /\ ArcOf(Pending, current_path, l) /\ nodes[current_path \o l] = NoNode
          /\ Len(current_path \o l) < MaxHeight => View[current_path \o l] # NoNode
      BY <1>1, <1>2, <1>3, ArcInMemory
    <2>2. current_path \o l \in Path /\ Len(current_path \o l) \in Nat
      BY <2>1, PathLen DEF ArcOf
    <2>3. Len(current_path \o l) < MaxHeight
      BY <1>3, <2>2 DEF EndOfTraversal
    <2>4. updates = NoUpdates
      BY DEF ShapeInv, PhaseInv
    <2> QED BY <2>1, <2>2, <2>3, <2>4, ViewInCall
  <1> QED BY <1>1, <1>3 DEF TraversalBroken, DanglingHandle

\* A child is loaded into its slot.
LEMMA LoadsChild ==
  ASSUME CoreInv, updates = NoUpdates, UNCHANGED <<trie_db, death_row, updates>>,
         NEW p \in Path, nodes[p] # NoNode, NEW l \in DOMAIN nodes[p].next,
         Len(p \o l) < MaxHeight, nodes' = LoadChild(p, l)
  PROVE  /\ p \o l \in Path /\ p \o l # p
         /\ nodes'[p \o l] = View[p \o l] /\ nodes'[p \o l] # NoNode
         /\ nodes'[p] = WithChild(nodes[p], l, InMemory)
         /\ nodes'[p] # NoNode /\ SameNode(nodes[p], nodes'[p])
         /\ \A q \in Path : q \notin {p, p \o l} => nodes'[q] = nodes[q]
         /\ \A q \in Path : SameNode(View[q], View'[q])
         /\ \A q \in Path : View'[q] # NoNode <=> View[q] # NoNode
  <1> DEFINE n == nodes[p]
             c == p \o l
  <1>1. /\ ArcOf(Pending, p, l)
        /\ Len(c) < MaxHeight => View[c] # NoNode
        /\ n.next[l] = InMemory <=> nodes[c] # NoNode
    BY CoreArc
  <1>2. c \in Path /\ Len(c) \in Nat /\ Len(c) > Len(p)
    BY <1>1, PathLen DEF ArcOf
  <1>3. View[c] # NoNode /\ c # p
    <2>1. c # p
      BY <1>2, PathLen
    <2> QED BY <1>1, <2>1
  <1>4. nodes'[p] = WithChild(n, l, InMemory) /\ \A q \in Path : q \notin {p, c} => nodes'[q] = nodes[q]
    BY <1>2, <1>3 DEF LoadChild, CoreInv, NodesTyped, IsNodeMap
  <1>5. nodes'[c] = View[c]
    <2>1. nodes'[c] = IF n.next[l] = InMemory THEN nodes[c] ELSE DbNode(c)
      BY <1>2, <1>3 DEF LoadChild, CoreInv, NodesTyped, IsNodeMap
    <2> QED BY <1>1, <1>2, <2>1, ViewInCall
  <1>6. nodes'[p] # NoNode /\ SameNode(nodes[p], nodes'[p])
    <2>1. IsNodeAt(n, p) /\ InMemory \in NodeHandle
      BY CoreNodeInMemory DEF NodeHandle
    <2>2. IsNodeAt(nodes'[p], p) /\ IsBinary(nodes'[p]) = IsBinary(n)
      BY <1>4, <2>1, WithChildNode
    <2>3. DOMAIN nodes'[p].next = DOMAIN n.next
      BY <1>4 DEF WithChild
    <2> QED BY <2>2, <2>3, NodeKind DEF SameNode
  <1>7. \A q \in Path : View'[q] = IF nodes'[q] # NoNode THEN nodes'[q] ELSE DbNode(q)
    BY DEF View, NoUpdates, DbNode
  <1>8. \A q \in Path : View[q] = IF nodes[q] # NoNode THEN nodes[q] ELSE DbNode(q)
    BY ViewInCall
  <1> HIDE DEF c
  <1>9. ASSUME NEW q \in Path PROVE SameNode(View[q], View'[q])
    <2>1. CASE q = p
      BY <1>6, <1>7, <1>8, <2>1
    <2>2. CASE q # p
      <3>1. View'[q] = View[q]
        BY <1>3, <1>4, <1>5, <1>7, <1>8, <2>2
      <3> QED BY <3>1 DEF SameNode
    <2> QED BY <2>1, <2>2
  <1>10. ASSUME NEW q \in Path PROVE View'[q] # NoNode <=> View[q] # NoNode
    BY <1>9 DEF SameNode
  <1> QED BY <1>2, <1>3, <1>4, <1>5, <1>6, <1>9, <1>10 DEF c

\* ...and its slot is linked.
LEMMA LoadsLinks ==
  ASSUME CoreInv, updates = NoUpdates, UNCHANGED <<trie_db, death_row, updates>>,
         NEW p \in Path, nodes[p] # NoNode, NEW l \in DOMAIN nodes[p].next,
         Len(p \o l) < MaxHeight, nodes' = LoadChild(p, l)
  PROVE  LinkInv' /\ AboveInv'
  <1>1. PICK n : n = nodes[p]
    OBVIOUS
  <1>2. PICK c : c = p \o l
    OBVIOUS
  <1>3. /\ c \in Path /\ c # p /\ nodes'[c] = View[c] /\ nodes'[c] # NoNode
        /\ nodes'[p] = WithChild(n, l, InMemory)
        /\ nodes'[p] # NoNode /\ SameNode(nodes[p], nodes'[p])
        /\ \A q \in Path : q \notin {p, c} => nodes'[q] = nodes[q]
        /\ \A q \in Path : View'[q] # NoNode <=> View[q] # NoNode
    BY <1>1, <1>2, LoadsChild
  <1>4. p \in Path /\ n # NoNode
    BY <1>1
  <1>5. l \in DOMAIN n.next
    BY <1>1
  <1>6. /\ HasNode(Pending, p) /\ l \in Labels(Pending, p) /\ ArcOf(Pending, p, l)
        /\ DOMAIN n.next = Labels(Pending, p)
    BY <1>1, <1>4, <1>5, CoreNodeInMemory, CoreArc
  <1>7. IsPrefixOf(p, c)
    BY <1>2, <1>6 DEF ArcOf
  <1>8. ASSUME NEW q \in Path, nodes[q] # NoNode, NEW j \in DOMAIN nodes[q].next, q # p
         PROVE  q \o j # c /\ q \o j \in Path
    <2>1. HasNode(Pending, q) /\ j \in Labels(Pending, q) /\ ArcOf(Pending, q, j)
      BY <1>8, CoreNodeInMemory, CoreArc
    <2>2. q \o j # c
      BY <1>2, <1>4, <1>6, <1>8, <2>1, ArcUnique
    <2> QED BY <2>1, <2>2 DEF ArcOf
  <1>9. ASSUME NEW q \in Path, q \notin {p, c}, nodes'[q] # NoNode PROVE LinkedAt(q)'
    <2>1. nodes'[q] = nodes[q] /\ LinkedAt(q)
      BY <1>3, <1>9 DEF CoreInv, LinkInv
    <2>2. ASSUME NEW j \in DOMAIN nodes[q].next
          PROVE  nodes'[q \o j] # NoNode <=> nodes[q \o j] # NoNode
      BY <1>1, <1>3, <1>4, <1>8, <1>9, <2>1
    <2> QED BY <2>1, <2>2 DEF LinkedAt
  <1>10. LinkedAt(p)'
    <2>1. /\ DOMAIN nodes'[p].next = DOMAIN n.next
          /\ \A j \in DOMAIN n.next : nodes'[p].next[j] = IF j = l THEN InMemory ELSE n.next[j]
      BY <1>3, <1>5 DEF WithChild
    <2>2. ASSUME NEW j \in DOMAIN n.next, j # l
          PROVE  n.next[j] = InMemory <=> nodes'[p \o j] # NoNode
      <3>1. n.next[j] = InMemory <=> nodes[p \o j] # NoNode
        BY <1>1, <1>4, <2>2, CoreArc
      <3>2. ArcOf(Pending, p, j)
        BY <1>1, <1>4, <2>2, CoreArc
      <3>3. p \o j \in Path /\ p \o j # p
        BY <3>2 DEF ArcOf
      <3>4. p \o j # c
        <4>1. j \in Path /\ l \in Path /\ p \o l \in Path
          BY <1>6, <3>2 DEF ArcOf
        <4>2. From(p \o j, Len(p)) = j /\ From(p \o l, Len(p)) = l
          BY <1>4, <3>3, <4>1, ConcatPath
        <4> QED BY <1>2, <2>2, <4>2
      <3> QED BY <1>3, <3>1, <3>3, <3>4
    <2>3. nodes'[p \o l] # NoNode
      BY <1>2, <1>3
    <2> QED BY <2>1, <2>2, <2>3 DEF LinkedAt
  <1>11. LinkedAt(c)'
    <2>1. View[c] # NoNode /\ IsNodeAt(View[c], c)
      BY <1>3, CoreNodeInView
    <2>2. ASSUME NEW j \in DOMAIN View[c].next PROVE c \o j \in Path \ {p, c}
      <3>1. HasNode(Pending, c) /\ j \in Labels(Pending, c)
        BY <1>3, <2>1, <2>2, CoreNodeInView
      <3>2. ArcOf(Pending, c, j)
        BY <1>3, <3>1, Arc
      <3>3. c \o j \in Path /\ Len(c \o j) > Len(c) /\ Len(c \o j) \in Nat
        BY <3>2, PathLen DEF ArcOf
      <3>4. Len(p) <= Len(c) /\ Len(p) \in Nat /\ Len(c) \in Nat
        BY <1>3, <1>4, <1>7, PrefixLen
      <3> QED BY <3>3, <3>4
    <2>3. CASE nodes[c] # NoNode
      <3>1. LinkedAt(c) /\ nodes[c] = View[c]
        BY <1>3, <2>3, CoreNodeInMemory DEF CoreInv, LinkInv
      <3>2. nodes'[c] = nodes[c]
        BY <1>3, <3>1
      <3>3. ASSUME NEW j \in DOMAIN nodes[c].next PROVE nodes'[c \o j] = nodes[c \o j]
        BY <1>3, <2>2, <3>1, <3>3
      <3> QED BY <3>1, <3>2, <3>3 DEF LinkedAt
    <2>4. CASE nodes[c] = NoNode
      <3>1. View[c] = trie_db[c]
        BY <1>3, <2>1, <2>4, ViewInCall DEF DbNode
      <3>2. \A j \in DOMAIN View[c].next : View[c].next[j] # InMemory
        BY <1>3, <2>1, <3>1, NodeKind DEF CoreInv, StoredInv, Stored
      <3>3. ASSUME NEW j \in DOMAIN View[c].next PROVE nodes'[c \o j] = NoNode
        <4>1. j \in Labels(Pending, c) /\ HasNode(Pending, c)
          BY <1>3, <2>1, CoreNodeInView
        <4>2. IsPrefixOf(c, c \o j) /\ c \o j \in Path
          BY <1>3, <4>1, Arc DEF ArcOf
        <4>3. nodes[c \o j] = NoNode
          BY <1>3, <2>1, <2>4, <4>2, CoreNothingBelow
        <4> QED BY <1>3, <2>2, <4>3
      <3> QED BY <1>3, <3>2, <3>3 DEF LinkedAt
    <2> QED BY <2>3, <2>4
  <1>12. LinkInv'
    BY <1>9, <1>10, <1>11 DEF LinkInv
  <1>13. ASSUME NEW x \in Path, NEW q \in Path, nodes'[q] # NoNode, IsPrefixOf(x, q),
                View'[x] # NoNode
         PROVE  nodes'[x] # NoNode
    <2>1. View[x] # NoNode
      BY <1>3, <1>13
    <2>2. CASE q # c
      <3>1. nodes[q] # NoNode
        BY <1>1, <1>3, <1>4, <1>13, <2>2
      <3>2. nodes[x] # NoNode
        BY <1>13, <2>1, <3>1 DEF CoreInv, AboveInv
      <3> QED BY <1>3, <3>2
    <2>3. CASE q = c
      <3>1. Len(x) \in Nat /\ Len(p) \in Nat
        BY <1>4, PathLen
      <3>2. CASE Len(x) <= Len(p)
        <4>1. IsPrefixOf(x, p)
          BY <1>3, <1>4, <1>7, <1>13, <2>3, <3>2, PrefixOfBoth
        <4>2. nodes[x] # NoNode
          BY <1>1, <1>4, <2>1, <4>1 DEF CoreInv, AboveInv
        <4> QED BY <1>3, <4>2
      <3>3. CASE Len(p) < Len(x)
        <4>1. IsPrefixOf(p, x) /\ p # x
          BY <1>3, <1>4, <1>7, <1>13, <2>3, <3>1, <3>3, PrefixOfBoth
        <4>2. HasNode(Pending, x)
          BY <2>1, CoreNodeInView
        <4>3. x = c
          BY <1>2, <1>4, <1>6, <1>13, <2>3, <4>1, <4>2, ArcOnly
        <4> QED BY <1>3, <4>3
      <3> QED BY <3>1, <3>2, <3>3
    <2> QED BY <2>2, <2>3
  <1>14. AboveInv'
    BY <1>13 DEF AboveInv
  <1> QED BY <1>12, <1>14

\* The traversal loads the child behind an arc of its node.
LoadsAt(p, l) ==
    /\ CoreInv /\ updates = NoUpdates /\ p \in Path /\ nodes[p] # NoNode
    /\ l \in DOMAIN nodes[p].next /\ Len(p \o l) < MaxHeight

LEMMA NextLoads ==
  ASSUME ShapeInv, pc = "Traverse", ~EndOfTraversal(nodes[current_path]),
         NEW p, NEW l, p = current_path, l = NextLabel(nodes[current_path])
  PROVE  LoadsAt(p, l)
  <1>1. p \in Path /\ nodes[p] # NoNode /\ ~BadNode(nodes[p])
    BY AtNode
  <1>2. l \in DOMAIN nodes[p].next /\ p \o l \in Path
    BY <1>1, NextArc DEF ShapeInv
  <1>3. Len(p \o l) \in Nat /\ ~(Len(p \o l) >= MaxHeight)
    BY <1>2, PathLen DEF EndOfTraversal
  <1>4. updates = NoUpdates
    BY DEF ShapeInv, PhaseInv
  <1> QED BY <1>1, <1>2, <1>3, <1>4, ShapeCore DEF LoadsAt

LEMMA LoadedChild ==
  ASSUME ShapeInv, pc = "Traverse", UNCHANGED <<trie_db, death_row, updates>>,
         ~EndOfTraversal(nodes[current_path]),
         nodes' = LoadChild(current_path, NextLabel(nodes[current_path]))
  PROVE  LET p == current_path
             n == nodes[current_path]
             c == current_path \o NextLabel(nodes[current_path])
         IN  /\ c \in Path /\ c # p /\ nodes'[c] = View[c] /\ nodes'[c] # NoNode
             /\ nodes'[p] = WithChild(n, NextLabel(n), InMemory)
             /\ nodes'[p] # NoNode /\ SameNode(nodes[p], nodes'[p])
             /\ \A q \in Path : q \notin {p, c} => nodes'[q] = nodes[q]
             /\ \A q \in Path : SameNode(View[q], View'[q])
             /\ \A q \in Path : View'[q] # NoNode <=> View[q] # NoNode
  <1>1. PICK p, l : p = current_path /\ l = NextLabel(nodes[current_path])
    OBVIOUS
  <1>2. LoadsAt(p, l)
    BY <1>1, NextLoads
  <1> QED BY <1>1, <1>2, LoadsChild DEF LoadsAt

LEMMA LoadedLinks ==
  ASSUME ShapeInv, pc = "Traverse", UNCHANGED <<trie_db, death_row, updates>>,
         ~EndOfTraversal(nodes[current_path]),
         nodes' = LoadChild(current_path, NextLabel(nodes[current_path]))
  PROVE  LinkInv' /\ AboveInv'
  <1>1. PICK p, l : p = current_path /\ l = NextLabel(nodes[current_path])
    OBVIOUS
  <1>2. LoadsAt(p, l)
    BY <1>1, NextLoads
  <1> QED BY <1>1, <1>2, LoadsLinks DEF LoadsAt

LEMMA TraverseShape ==
  ASSUME ShapeInv, TraverseOne
  PROVE  ShapeInv'
  <1> DEFINE n == nodes[current_path]
             l == NextLabel(n)
             hs == current_nodes_heights
             h == Len(current_path)
  <1>1. pc = "Traverse" /\ TInv' /\ updates = NoUpdates /\ hashes = NoHashes
    BY TraverseTInv DEF ShapeInv, TraverseOne, PhaseInv
  <1>2. Advance(n)
    BY <1>1, TraversalHolds DEF TraverseOne
  <1>3. /\ current_nodes_heights' = Append(hs, h) /\ current_path' = current_path \o l
        /\ UNCHANGED <<trie_db, flat_db, root_node, death_row, cache_leaf_modified, args,
                       hashes, updates, failed>>
        /\ pc' \in {"Traverse", "Finish"}
    BY <1>2 DEF Advance, db, commit
  <1>4. /\ current_path \in Path /\ n # NoNode /\ ~BadNode(n) /\ h \in 0..(MaxHeight - 1)
        /\ First(args.key, h) = current_path
    BY <1>1, AtNode
  <1>5. /\ IsNodeAt(n, current_path) /\ l \in Seq(Bit) /\ Len(l) >= 1
        /\ current_path \o l \in Path
        /\ Len(current_path \o l) = h + Len(l)
        /\ IsBinary(n) => Len(l) = 1
        /\ IsEdge(n) => l = EdgePath(n)
        /\ LabelMatches(n) =>
             \A i \in 1..Len(current_path \o l) : (current_path \o l)[i] = args.key[i]
    BY <1>1, <1>4, NextArc DEF ShapeInv
  <1>6. hs \in Seq(0..(MaxHeight - 1)) /\ Linked(Append(hs, h))
        /\ args.key \in Key /\ args.key \in Seq(Bit) /\ Len(args.key) = MaxHeight
        /\ \A i, j \in 1..Len(Append(hs, h)) : i < j => Append(hs, h)[i] < Append(hs, h)[j]
    BY <1>1, KeySeq DEF ShapeInv, TInv, TypeOK, WayInv, IteratorOnKey, Consecutive
  <1>7. Pending' = Pending /\ get(args.key)' = get(args.key) /\ (Removing' <=> Removing)
    BY <1>1, <1>3, SamePending
  <1>8. HasShapeOf(trie_db, flat_db)' /\ StoredInv' /\ PhaseInv' /\ HashInv' /\ ~failed'
    <2>1. HasShapeOf(trie_db, flat_db)' /\ ~failed'
      BY <1>3 DEF ShapeInv
    <2>2. StoredInv'
      BY <1>3 DEF ShapeInv, StoredInv, Stored
    <2>3. PhaseInv' /\ HashInv'
      BY <1>1, <1>3, <1>7 DEF ShapeInv, PhaseInv, HashInv
    <2> QED BY <2>1, <2>2, <2>3
  <1>9. root_node = "Loaded" /\ root_node' = "Loaded"
    BY <1>1, <1>3 DEF ShapeInv, RootInv
  <1>10. CASE EndOfTraversal(n)
    <2>1. pc' = "Finish" /\ nodes' = nodes
      BY <1>2, <1>10 DEF Advance
    <2>2. View' = View /\ LinkInv' /\ AboveInv'
      BY <1>3, <2>1, SameNodes
    <2>3. HasShapeOf(View, Pending)'
      BY <1>7, <2>2 DEF ShapeInv
    <2>4. RootInv'
      BY <1>1, <1>9, <2>1 DEF ShapeInv, RootInv
    <2>5. Linked(current_nodes_heights)'
      BY <1>3, <1>6, <2>1 DEF Linked, NodeAtHeight
    <2>6. LastHeight' = h /\ LastNode' = n /\ current_nodes_heights' # << >>
      <3>1. LastHeight' = h /\ current_nodes_heights' # << >>
        BY <1>3, <1>4, <1>6 DEF LastHeight
      <3> QED BY <1>3, <1>4, <2>1, <3>1 DEF LastNode, LastPath
    <2>7. ASSUME IsEdge(n)
          PROVE  h + Len(EdgePath(n)) = MaxHeight \/ ~PathMatches(EdgePath(n), args.key, h)
      <3>1. l = EdgePath(n) /\ ~IsBinary(n)
        BY <1>5, <2>7 DEF IsEdge, IsBinary
      <3>2. Len(current_path \o l) <= MaxHeight /\ Len(current_path \o l) \in Nat
        BY <1>5, PathLen
      <3> QED BY <1>5, <1>10, <3>1, <3>2 DEF EndOfTraversal, LabelMatches
    <2>8. WayInv'
      BY <1>3, <2>1, <2>5, <2>6, <2>7 DEF WayInv
    <2> QED BY <1>1, <1>8, <2>2, <2>3, <2>4, <2>8 DEF ShapeInv
  <1>11. CASE ~EndOfTraversal(n)
    <2>1. pc' = "Traverse" /\ nodes' = LoadChild(current_path, l)
      BY <1>2, <1>11 DEF Advance
    <2>2. LinkInv' /\ AboveInv'
      BY <1>1, <1>3, <1>11, <2>1, LoadedLinks
    <2>3. PICK p : p = current_path
      OBVIOUS
    <2>4. PICK c : c = current_path \o l
      OBVIOUS
    <2>5. /\ c \in Path /\ c # p /\ nodes'[c] # NoNode
          /\ nodes'[p] # NoNode /\ SameNode(nodes[p], nodes'[p])
          /\ \A q \in Path : q \notin {p, c} => nodes'[q] = nodes[q]
          /\ \A q \in Path : SameNode(View[q], View'[q])
          /\ \A q \in Path : View'[q] # NoNode <=> View[q] # NoNode
      BY <1>1, <1>3, <1>11, <2>1, <2>3, <2>4, LoadedChild
    <2>6. HasShapeOf(View, Pending)'
      <3>1. HasShapeOf(View', Pending)
        BY <2>5, ShapeOfNodes DEF ShapeInv
      <3> QED BY <1>7, <3>1
    <2>7. nodes'[<< >>] # NoNode
      <3>1. nodes[<< >>] # NoNode
        BY <1>1, <1>9 DEF ShapeInv, RootInv
      <3> QED BY <2>5, <3>1, RootInPath
    <2>8. RootInv'
      BY <1>9, <2>1, <2>7 DEF RootInv
    <2>9. Len(c) < MaxHeight /\ LabelMatches(n) /\ Len(c) = h + Len(l) /\ Len(c) \in Nat
      BY <1>5, <1>11, <2>4, <2>5, PathLen DEF EndOfTraversal
    <2>10. First(args.key, Len(c)) = c
      <3>1. c \in Seq(Bit) /\ \A i \in 1..Len(c) : c[i] = args.key[i]
        BY <1>5, <2>4, <2>5, <2>9, PathSeq
      <3>2. /\ First(args.key, Len(c)) \in Seq(Bit) /\ Len(First(args.key, Len(c))) = Len(c)
            /\ \A i \in 1..Len(c) : First(args.key, Len(c))[i] = args.key[i]
        BY <1>6, <2>9, FirstSeq, Len(c) \in 0..Len(args.key)
      <3> QED BY <3>1, <3>2, SameSeq
    <2>11. Linked(Append(current_nodes_heights, Len(current_path)))'
      <3>1. PICK old : old = Append(hs, h)
        OBVIOUS
      <3>2. PICK y : y = Len(c)
        OBVIOUS
      <3>3. PICK new : new = Append(old, y)
        OBVIOUS
      <3>4. /\ old \in Seq(0..(MaxHeight - 1)) /\ Len(old) \in Nat /\ Len(old) >= 1
            /\ old[Len(old)] = h
        BY <1>4, <1>6, <3>1, AppendHeight
      <3>5. y \in 0..(MaxHeight - 1) /\ h < y
        BY <1>4, <1>5, <2>9, <3>2
      <3>6. new \in Seq(0..(MaxHeight - 1)) /\ Len(new) = Len(old) + 1
            /\ (\A i \in 1..Len(old) : new[i] = old[i]) /\ new[Len(new)] = y
        BY <3>3, <3>4, <3>5, AppendHeight
      <3>7. ASSUME NEW i \in 1..Len(old)
            PROVE  /\ NodeAtHeight(old[i])' # NoNode
                   /\ IsBinary(NodeAtHeight(old[i])') = IsBinary(NodeAtHeight(old[i]))
        <4>1. old[i] \in 0..(MaxHeight - 1) /\ old[i] < y
          <5>1. old[i] \in 0..(MaxHeight - 1) /\ Len(old) \in 1..Len(old)
            BY <3>4
          <5>2. i = Len(old) \/ old[i] < old[Len(old)]
            BY <1>6, <3>1, <3>4, <5>1
          <5> QED BY <1>4, <3>4, <3>5, <5>1, <5>2
        <4>2. PICK x : x = First(args.key, old[i])
          OBVIOUS
        <4>3. x \in Path /\ Len(x) = old[i]
          BY <1>6, <4>1, <4>2, FirstOfKey
        <4>4. x # c
          BY <3>2, <4>1, <4>3
        <4>5. nodes[x] # NoNode
          BY <1>6, <3>1, <4>2 DEF Linked, NodeAtHeight
        <4>6. nodes'[x] # NoNode /\ IsBinary(nodes'[x]) = IsBinary(nodes[x])
          BY <2>5, <4>3, <4>4, <4>5 DEF SameNode
        <4> QED BY <1>3, <4>2, <4>6 DEF NodeAtHeight
      <3>8. NodeAtHeight(y)' # NoNode
        BY <1>3, <2>5, <2>10, <3>2 DEF NodeAtHeight
      <3>9. new # << >> /\ new[1] = 0
        <4>1. old # << >> /\ old[1] = 0 /\ 1 \in 1..Len(old)
          BY <1>6, <3>1, <3>4 DEF Linked
        <4> QED BY <3>6, <4>1
      <3>10. ASSUME NEW i \in 1..Len(new) PROVE NodeAtHeight(new[i])' # NoNode
        <4>1. CASE i = Len(new)
          BY <3>6, <3>8, <4>1 DEF NodeAtHeight
        <4>2. CASE i # Len(new)
          <5>1. i \in 1..Len(old) /\ new[i] = old[i]
            BY <3>4, <3>6, <4>2
          <5> QED BY <3>7, <5>1 DEF NodeAtHeight
        <4> QED BY <4>1, <4>2
      <3>11. ASSUME NEW i \in 1..(Len(new) - 1), IsBinary(NodeAtHeight(new[i])')
             PROVE  new[i] + 1 = new[i + 1]
        <4>1. i \in 1..Len(old) /\ new[i] = old[i]
          BY <3>4, <3>6
        <4>2. IsBinary(NodeAtHeight(old[i]))
          BY <3>7, <3>11, <4>1 DEF NodeAtHeight
        <4>3. CASE i = Len(old)
          <5>1. old[i] = h /\ NodeAtHeight(old[i]) = n
            BY <1>4, <3>4, <4>3 DEF NodeAtHeight
          <5>2. Len(l) = 1
            BY <1>5, <4>2, <5>1
          <5>3. new[i + 1] = y
            BY <3>6, <4>3
          <5> QED BY <1>4, <2>9, <3>2, <4>1, <5>1, <5>2, <5>3
        <4>4. CASE i # Len(old)
          <5>1. i \in 1..(Len(old) - 1) /\ i + 1 \in 1..Len(old)
            BY <3>4, <4>1, <4>4
          <5>2. old[i] + 1 = old[i + 1]
            BY <1>6, <3>1, <4>2, <5>1 DEF Linked
          <5>3. new[i + 1] = old[i + 1]
            BY <3>6, <5>1
          <5> QED BY <4>1, <5>2, <5>3
        <4> QED BY <4>3, <4>4
      <3>12. Linked(new)'
        BY <3>9, <3>10, <3>11 DEF Linked
      <3>13. Append(current_nodes_heights, Len(current_path))' = new
        BY <1>3, <2>4, <3>1, <3>2, <3>3
      <3> QED BY <3>12, <3>13 DEF Linked
    <2>12. WayInv'
      BY <2>1, <2>11 DEF WayInv
    <2> QED BY <1>1, <1>8, <2>2, <2>6, <2>8, <2>12 DEF ShapeInv
  <1> QED BY <1>10, <1>11

(***************************************************************************)
(* The ends of set                                                         *)
(***************************************************************************)
\* A call that ends leaves a tree of the right shape, its slots linked.
LEMMA FinishShape ==
  ASSUME ShapeInv, pc = "Finish", TInv', Return, UNCHANGED <<db, commit, failed>>,
         HasShapeOf(View, Pending)', LinkInv', AboveInv',
         root_node' = "Loaded" <=> nodes'[<< >>] # NoNode,
         root_node' = "Empty" => View'[<< >>] = NoNode
  PROVE  ShapeInv'
  <1>1. /\ pc' = "Idle" /\ updates = NoUpdates /\ hashes = NoHashes
        /\ UNCHANGED <<trie_db, flat_db, hashes, updates, failed>>
    BY DEF Return, db, commit, ShapeInv, PhaseInv
  <1>2. ~Removing'
    BY <1>1 DEF Removing
  <1>3. HasShapeOf(trie_db, flat_db)' /\ ~failed'
    BY <1>1 DEF ShapeInv
  <1>4. StoredInv'
    BY <1>1 DEF ShapeInv, StoredInv, Stored
  <1>5. RootInv' /\ PhaseInv' /\ WayInv' /\ HashInv'
    BY <1>1, <1>2 DEF RootInv, PhaseInv, WayInv, HashInv
  <1> QED BY <1>3, <1>4, <1>5 DEF ShapeInv

\* A set adds its key.
LEMMA SetKeys ==
  ASSUME ShapeInv, Setting, SetLeafInCache, flat_db' = flat_db, pc' = "Idle"
  PROVE  \A k \in Key : Pending'[k] # None <=> Pending[k] # None \/ k = args.key
  <1>1. ~Removing /\ ~Removing'
    BY DEF Setting, Removing
  <1>2. args.key \in Key /\ args.value \in Felt
        /\ cache_leaf_modified \in [Key -> Felt \cup {None, Remove}]
    BY DEF ShapeInv, TInv, TypeOK
  <1>3. \A k \in Key : Pending[k] = get(k) /\ Pending'[k] = get(k)'
    BY <1>1 DEF Pending
  <1>5. ASSUME NEW k \in Key, k = args.key PROVE Pending'[k] # None
    <2>1. cache_leaf_modified'[k] = args.value
      BY <1>2, <1>5 DEF SetLeafInCache
    <2> QED BY <1>2, <1>3, <2>1, RemoveAssumption DEF get
  <1>6. ASSUME NEW k \in Key, k # args.key PROVE Pending'[k] = Pending[k]
    <2>1. cache_leaf_modified'[k] = cache_leaf_modified[k]
      BY <1>2, <1>6 DEF SetLeafInCache
    <2> QED BY <1>3, <2>1 DEF get
  <1> QED BY <1>5, <1>6

LEMMA SetFirstLeafShape ==
  ASSUME ShapeInv, SetFirstLeaf
  PROVE  ShapeInv'
  <1>1. /\ Setting /\ current_nodes_heights = << >> /\ root_node' = "Loaded"
        /\ nodes' = [nodes EXCEPT ![<< >>] = EdgeNode(None, 0, args.key, args.value)]
        /\ SetLeafInCache /\ death_row' = death_row
        /\ Return /\ UNCHANGED <<db, commit, failed>>
    BY DEF SetFirstLeaf, FinishSetFrame
  <1>2. /\ pc = "Finish" /\ pc' = "Idle" /\ flat_db' = flat_db /\ updates' = updates
        /\ trie_db' = trie_db /\ updates = NoUpdates /\ ~Removing
    BY <1>1 DEF Setting, Return, db, commit, ShapeInv, PhaseInv, Removing
  <1>3. TInv'
    BY SetFirstLeafTInv DEF ShapeInv
  <1>4. args.key \in Key /\ args.value \in Felt /\ args.key \in Path /\ Len(args.key) = MaxHeight
        /\ args.key # << >> /\ DOMAIN nodes = Path
    <2>1. args.key \in Key /\ args.value \in Felt /\ DOMAIN nodes = Path
      BY DEF ShapeInv, TInv, TypeOK, IsNodeMap
    <2>2. args.key \in Path /\ Len(args.key) = MaxHeight
      BY <2>1, KeyInPath, KeySeq
    <2>3. args.key # << >>
      BY <2>2
    <2> QED BY <2>1, <2>2, <2>3
  <1>5. (\A k \in Key : Pending[k] = None) /\ (\A p \in Path : View[p] = NoNode)
    <2>1. View[<< >>] = NoNode /\ HasShapeOf(View, Pending)
      BY <1>1, <1>2 DEF ShapeInv, WayInv
    <2> QED BY <2>1, NoRoot
  <1>6. \A p \in Path : nodes[p] = NoNode /\ DbNode(p) = NoNode
    <2>1. ASSUME NEW p \in Path PROVE nodes[p] = NoNode /\ DbNode(p) = NoNode
      <3>1. View[p] = IF nodes[p] # NoNode THEN nodes[p] ELSE DbNode(p)
        BY <1>2, ViewInCall
      <3> QED BY <1>5, <3>1
    <2> QED BY <2>1
  <1>7. /\ nodes'[<< >>] = EdgeNode(None, 0, args.key, args.value)
        /\ \A p \in Path : p # << >> => nodes'[p] = NoNode
    BY <1>1, <1>4, <1>6, RootInPath
  <1>8. nodes'[<< >>] # NoNode /\ ~IsBinary(nodes'[<< >>]) /\ DOMAIN nodes'[<< >>].next = {args.key}
        /\ nodes'[<< >>].next[args.key] = args.value
    BY <1>7 DEF EdgeNode, NoNode, IsBinary
  <1>9. \A p \in Path : View'[p] = nodes'[p]
    <2>1. ASSUME NEW p \in Path PROVE View'[p] = nodes'[p]
      BY <1>1, <1>2, <1>6, <1>7 DEF View, NoUpdates, DbNode
    <2> QED BY <2>1
  <1>10. HasShapeOf(View, Pending)'
    <2>1. \A k \in Key : Pending'[k] # None <=> k = args.key
      BY <1>1, <1>2, <1>5, SetKeys
    <2>2. View'[<< >>] = nodes'[<< >>] /\ \A p \in Path : p # << >> => View'[p] = NoNode
      BY <1>7, <1>9, RootInPath
    <2> QED BY <1>4, <1>8, <2>1, <2>2, ShapeFirst
  <1>11. LinkInv'
    <2>1. << >> \o args.key = args.key
      BY <1>4, PathSeq
    <2>2. nodes'[<< >> \o args.key] = NoNode
      BY <1>4, <1>7, <2>1
    <2>3. LinkedAt(<< >>)'
      BY <1>4, <1>8, <2>2 DEF LinkedAt
    <2> QED BY <1>7, <2>3 DEF LinkInv
  <1>12. AboveInv'
    BY <1>7, <1>9 DEF AboveInv
  <1> QED BY <1>1, <1>2, <1>3, <1>8, <1>10, <1>11, <1>12, FinishShape

\* A set replaces the leaf its key already has.
LEMMA ReplaceLeafShape ==
  ASSUME ShapeInv, Setting, current_nodes_heights # << >>, NEW l \in DOMAIN LastNode.next,
         LastNode # NoNode, LastPath \o l = args.key,
         nodes' = [nodes EXCEPT ![LastPath] = WithChild(LastNode, l, args.value)],
         SetLeafInCache, FinishSetFrame, UNCHANGED <<root_node, death_row>>, TInv'
  PROVE  ShapeInv'
  <1>1. PICK p : p = LastPath
    OBVIOUS
  <1>2. /\ pc = "Finish" /\ pc' = "Idle" /\ flat_db' = flat_db /\ updates' = updates
        /\ trie_db' = trie_db /\ updates = NoUpdates
        /\ Return /\ UNCHANGED <<db, commit, failed>>
    BY DEF Setting, FinishSetFrame, Return, db, commit, ShapeInv, PhaseInv
  <1>3. p \in Path /\ nodes[p] = LastNode /\ nodes[p] # NoNode
        /\ args.value \in Felt /\ args.key \in Key /\ DOMAIN nodes = Path
    BY <1>1, LastPathType DEF LastNode, ShapeInv, TInv, TypeOK, IsNodeMap
  <1>4. /\ ArcOf(Pending, p, l) /\ IsNodeAt(nodes[p], p) /\ nodes[p \o l] = NoNode
    <2>1. Len(p \o l) = MaxHeight
      BY <1>1, <1>3, KeySeq
    <2> QED BY <1>3, <2>1, ArcInMemory, NodeInMemory
  <1>5. Pending[args.key] # None
    <2>1. Through(Pending, args.key) # {}
      BY <1>1, <1>4 DEF ArcOf
    <2>2. PICK k \in Key : Pending[k] # None /\ IsPrefixOf(args.key, k)
      BY <2>1 DEF Through
    <2>3. k = args.key
      <3>1. Len(k) = MaxHeight /\ Len(args.key) = MaxHeight /\ k \in Path /\ args.key \in Path
        BY <1>3, KeySeq, KeyInPath
      <3> QED BY <2>2, <3>1, PrefixSame
    <2> QED BY <2>2, <2>3
  <1>6. \A k \in Key : Pending[k] = None <=> Pending'[k] = None
    BY <1>2, <1>3, <1>5, SetKeys
  <1>7. /\ nodes'[p] = WithChild(nodes[p], l, args.value)
        /\ \A q \in Path : q # p => nodes'[q] = nodes[q]
    BY <1>1, <1>3
  <1>8. /\ nodes'[p] # NoNode /\ SameNode(nodes[p], nodes'[p])
        /\ DOMAIN nodes'[p].next = DOMAIN nodes[p].next
        /\ \A j \in DOMAIN nodes[p].next :
             nodes'[p].next[j] = IF j = l THEN args.value ELSE nodes[p].next[j]
    <2>1. args.value \in NodeHandle
      BY <1>3 DEF NodeHandle
    <2>2. IsNodeAt(nodes'[p], p) /\ IsBinary(nodes'[p]) = IsBinary(nodes[p])
      BY <1>3, <1>4, <1>7, <2>1, WithChildNode
    <2>3. /\ DOMAIN nodes'[p].next = DOMAIN nodes[p].next
          /\ \A j \in DOMAIN nodes[p].next :
               nodes'[p].next[j] = IF j = l THEN args.value ELSE nodes[p].next[j]
      BY <1>3, <1>7 DEF WithChild
    <2> QED BY <1>3, <2>2, <2>3, NodeKind DEF SameNode
  <1>9. ASSUME NEW q \in Path
        PROVE  nodes'[q] # NoNode <=> nodes[q] # NoNode
    BY <1>3, <1>7, <1>8
  <1>10. ASSUME NEW q \in Path PROVE SameNode(View[q], View'[q])
    <2>1. View[q] = IF nodes[q] # NoNode THEN nodes[q] ELSE DbNode(q)
      BY <1>2, ViewInCall
    <2>2. View'[q] = IF nodes'[q] # NoNode THEN nodes'[q] ELSE DbNode(q)
      BY <1>2 DEF View, NoUpdates, DbNode
    <2>3. CASE q = p
      BY <1>3, <1>8, <2>1, <2>2, <2>3
    <2>4. CASE q # p
      <3>1. View'[q] = View[q]
        BY <1>7, <2>1, <2>2, <2>4
      <3> QED BY <3>1 DEF SameNode
    <2> QED BY <2>3, <2>4
  <1>11. HasShapeOf(View, Pending)'
    <2>1. HasShapeOf(View', Pending)
      BY <1>10, ShapeOfNodes DEF ShapeInv
    <2> QED BY <1>6, <2>1, ShapeOfKeys
  <1>12. ASSUME NEW q \in Path, nodes'[q] # NoNode PROVE LinkedAt(q)'
    <2>1. nodes[q] # NoNode /\ IsNodeAt(nodes[q], q) /\ LinkedAt(q)
      BY <1>9, <1>12, NodeInMemory DEF ShapeInv, LinkInv
    <2>2. \A j \in DOMAIN nodes[q].next : q \o j \in Path
      BY <2>1 DEF IsNodeAt
    <2>3. CASE q = p
      <3>1. ASSUME NEW j \in DOMAIN nodes[p].next
            PROVE  nodes'[p].next[j] = InMemory <=> nodes'[p \o j] # NoNode
        <4>1. nodes[p].next[j] = InMemory <=> nodes[p \o j] # NoNode
          BY <2>1, <2>3 DEF LinkedAt
        <4>2. nodes'[p \o j] # NoNode <=> nodes[p \o j] # NoNode
          BY <1>9, <2>2, <2>3
        <4>3. nodes'[p].next[j] = IF j = l THEN args.value ELSE nodes[p].next[j]
          BY <1>8
        <4>4. args.value # InMemory
          BY <1>3
        <4> QED BY <1>4, <4>1, <4>2, <4>3, <4>4
      <3> QED BY <1>8, <2>3, <3>1 DEF LinkedAt
    <2>4. CASE q # p
      BY <1>7, <1>9, <2>1, <2>2, <2>4 DEF LinkedAt
    <2> QED BY <2>3, <2>4
  <1>13. LinkInv'
    BY <1>12 DEF LinkInv
  <1>14. AboveInv'
    BY <1>9, <1>10 DEF ShapeInv, AboveInv, SameNode
  <1>15. /\ root_node' = "Loaded" <=> nodes'[<< >>] # NoNode
         /\ root_node' = "Empty" => View'[<< >>] = NoNode
    BY <1>2, <1>9, <1>10, RootInPath DEF ShapeInv, RootInv, SameNode
  <1> QED BY <1>2, <1>11, <1>13, <1>14, <1>15, FinishShape

LEMMA WholeKey == \A k \in Key : First(k, MaxHeight) = k
  BY KeySeq DEF First

\* A label that agrees with the key leads along the key.
LEMMA AlongKey ==
  ASSUME NEW key \in Key, NEW h \in 0..MaxHeight, NEW e \in Seq(Bit), h + Len(e) <= MaxHeight,
         \A i \in 1..Len(e) : e[i] = key[h + i]
  PROVE  First(key, h) \o e = First(key, h + Len(e))
  <1>1. key \in Seq(Bit) /\ Len(key) = MaxHeight /\ Len(e) \in Nat
    BY KeySeq
  <1>2. PICK n : n = h + Len(e)
    OBVIOUS
  <1>3. n \in 0..Len(key) /\ h \in 0..Len(key)
    BY <1>1, <1>2
  <1>4. /\ First(key, n) \in Seq(Bit) /\ Len(First(key, n)) = n
        /\ \A i \in 1..n : First(key, n)[i] = key[i]
    BY <1>1, <1>3, FirstSeq
  <1>5. /\ First(key, h) \in Seq(Bit) /\ Len(First(key, h)) = h
        /\ \A i \in 1..h : First(key, h)[i] = key[i]
    BY <1>1, <1>3, FirstSeq
  <1>6. PICK f : f = First(key, h)
    OBVIOUS
  <1>7. /\ f \o e \in Seq(Bit) /\ Len(f \o e) = h + Len(e)
        /\ \A i \in 1..h : (f \o e)[i] = f[i]
        /\ \A i \in 1..Len(e) : (f \o e)[h + i] = e[i]
    BY <1>5, <1>6, ConcatSeq
  <1>8. ASSUME NEW i \in 1..n PROVE (f \o e)[i] = First(key, n)[i]
    <2>1. CASE i <= h
      <3>1. i \in 1..h
        BY <1>3, <2>1
      <3>2. (f \o e)[i] = f[i] /\ f[i] = key[i]
        BY <1>5, <1>6, <1>7, <3>1
      <3> QED BY <1>4, <3>2
    <2>2. CASE i > h
      <3>1. i - h \in 1..Len(e) /\ h + (i - h) = i
        BY <1>1, <1>2, <2>2
      <3>2. PICK j \in 1..Len(e) : h + j = i
        BY <3>1
      <3>3. (f \o e)[h + j] = e[j] /\ e[j] = key[h + j]
        BY <1>7, <3>2
      <3> QED BY <1>4, <3>2, <3>3
    <2>3. i \in Nat /\ h \in Nat
      BY <1>3
    <2>4. i <= h \/ i > h
      BY <2>3
    <2> QED BY <2>1, <2>2, <2>4
  <1> QED BY <1>2, <1>4, <1>6, <1>7, <1>8, SameSeq

\* The last node of the iterator.
LEMMA LastIs ==
  ASSUME ShapeInv, pc = "Finish", current_nodes_heights # << >>
  PROVE  /\ LastHeight \in 0..(MaxHeight - 1) /\ LastPath \in Path /\ Len(LastPath) = LastHeight
         /\ IsPrefixOf(LastPath, args.key) /\ args.key \in Key /\ args.key \in Path
         /\ Len(args.key) = MaxHeight /\ LastPath = First(args.key, LastHeight)
         /\ nodes[LastPath] = LastNode /\ LastNode # NoNode /\ IsNodeAt(LastNode, LastPath)
         /\ LastNode.height = LastHeight
  <1>1. LastHeight \in 0..(MaxHeight - 1) /\ LastPath \in Path /\ Len(LastPath) = LastHeight
    BY LastPathType DEF ShapeInv
  <1>2. args.key \in Key /\ args.key \in Path /\ Len(args.key) = MaxHeight
    BY KeyInPath, KeySeq DEF ShapeInv, TInv, TypeOK
  <1>3. LastPath = First(args.key, LastHeight) /\ nodes[LastPath] = LastNode
    BY DEF LastPath, LastNode
  <1>4. IsPrefixOf(LastPath, args.key)
    BY <1>1, <1>2, <1>3 DEF IsPrefixOf
  <1>5. LastNode # NoNode
    <2>1. Linked(current_nodes_heights) /\ current_nodes_heights \in Seq(0..(MaxHeight - 1))
      BY DEF ShapeInv, WayInv, TInv, TypeOK
    <2>2. Len(current_nodes_heights) \in 1..Len(current_nodes_heights)
      BY <2>1
    <2> QED BY <1>3, <2>1, <2>2 DEF Linked, NodeAtHeight, LastHeight
  <1>6. IsNodeAt(LastNode, LastPath)
    BY <1>1, <1>3, <1>5, NodeInMemory
  <1> QED BY <1>1, <1>2, <1>3, <1>4, <1>5, <1>6 DEF IsNodeAt

\* The last node leads to the key's leaf: its handle becomes the new value.
ReplacesLeaf(l) ==
    /\ Setting /\ current_nodes_heights # << >> /\ LastNode # NoNode
    /\ l \in DOMAIN LastNode.next /\ LastPath \o l = args.key
    /\ nodes' = [nodes EXCEPT ![LastPath] = WithChild(LastNode, l, args.value)]
    /\ SetLeafInCache /\ FinishSetFrame /\ UNCHANGED <<root_node, death_row>>

LEMMA SetLeafUnderBinaryIs ==
  ASSUME ShapeInv, SetLeafUnderBinary
  PROVE  \E l : ReplacesLeaf(l)
  <1>1. /\ Setting /\ current_nodes_heights # << >> /\ IsBinary(LastNode)
        /\ FinishSetFrame /\ UNCHANGED <<root_node, death_row>> /\ pc = "Finish"
    BY DEF SetLeafUnderBinary, Setting
  <1>2. /\ LastPath \in Path /\ IsNodeAt(LastNode, LastPath)
        /\ LastNode.height = LastHeight /\ LastNode.height + 1 = MaxHeight
    BY <1>1, UnderBinary DEF ShapeInv
  <1> DEFINE l == <<args.key[LastNode.height + 1]>>
  <1>3. /\ nodes' = [nodes EXCEPT ![LastPath] = WithChild(LastNode, l, args.value)]
        /\ SetLeafInCache
    BY <1>2 DEF SetLeafUnderBinary
  <1>4. LastHeight \in 0..(MaxHeight - 1) /\ LastPath = First(args.key, LastHeight) /\ LastNode # NoNode
        /\ args.key \in Key
    BY <1>1, LastIs
  <1>5. args.key \in [1..MaxHeight -> Bit] /\ args.key[LastNode.height + 1] \in Bit
    BY <1>2, <1>4 DEF Key
  <1>6. l \in Seq(Bit) /\ Len(l) = 1 /\ l[1] = args.key[LastHeight + 1] /\ l \in DOMAIN LastNode.next
    BY <1>1, <1>2, <1>5, BitsInDirections, BinaryLabels, DirectionSeq
  <1>7. LastPath \o l = args.key
    <2>1. LastHeight + Len(l) = MaxHeight /\ \A i \in 1..Len(l) : l[i] = args.key[LastHeight + i]
      BY <1>2, <1>4, <1>6
    <2>2. LastHeight \in 0..MaxHeight /\ LastHeight + Len(l) <= MaxHeight
      BY <1>4, <2>1
    <2> HIDE DEF l
    <2>3. First(args.key, LastHeight) \o l = First(args.key, LastHeight + Len(l))
      BY <1>4, <1>6, <2>1, <2>2, AlongKey
    <2> QED BY <1>4, <2>1, <2>3, WholeKey
  <1>8. ReplacesLeaf(l)
    BY <1>1, <1>3, <1>4, <1>6, <1>7 DEF ReplacesLeaf
  <1> QED BY <1>8

LEMMA SetLeafUnderBinaryShape ==
  ASSUME ShapeInv, SetLeafUnderBinary
  PROVE  ShapeInv'
  <1>1. PICK l : ReplacesLeaf(l)
    BY SetLeafUnderBinaryIs
  <1>2. TInv'
    BY SetLeafUnderBinaryTInv DEF ShapeInv
  <1> QED BY <1>1, <1>2, ReplaceLeafShape DEF ReplacesLeaf

LEMMA SetLeafUnderEdgeIs ==
  ASSUME ShapeInv, SetLeafUnderEdge
  PROVE  \E l : ReplacesLeaf(l)
  <1>1. /\ Setting /\ current_nodes_heights # << >> /\ IsEdge(LastNode)
        /\ FinishSetFrame /\ UNCHANGED <<root_node, death_row>> /\ pc = "Finish"
        /\ BranchHeight(LastNode) = MaxHeight
        /\ nodes' = [nodes EXCEPT
                        ![LastPath] = WithChild(LastNode, EdgePath(LastNode), args.value)]
        /\ SetLeafInCache
    BY DEF SetLeafUnderEdge, Setting
  <1>2. /\ LastHeight \in 0..(MaxHeight - 1) /\ LastPath \in Path /\ Len(LastPath) = LastHeight
        /\ args.key \in Key /\ LastPath = First(args.key, LastHeight) /\ LastNode # NoNode
        /\ IsNodeAt(LastNode, LastPath) /\ LastNode.height = LastHeight
    BY <1>1, LastIs
  <1>3. PICK l : l = EdgePath(LastNode)
    OBVIOUS
  <1>4. l \in Path /\ l \in Seq(Bit) /\ l \in DOMAIN LastNode.next /\ LastPath \o l \in Path
        /\ LastPath \in Seq(Bit)
    BY <1>1, <1>2, <1>3, EdgeLabel, PathSeq
  <1>5. PICK c : c = CommonLength(l, args.key, LastHeight)
    OBVIOUS
  <1>6. c \in 0..Len(l) /\ \A i \in 1..c : BitMatches(l, args.key, LastHeight, i)
    BY <1>4, <1>5, CommonLengthIs
  <1>7. LastHeight + c = MaxHeight
    BY <1>1, <1>2, <1>3, <1>5 DEF BranchHeight
  <1>8. LastHeight + Len(l) <= MaxHeight
    BY <1>2, <1>4, PathConcat
  <1>9. c = Len(l) /\ LastHeight + Len(l) = MaxHeight
    BY <1>2, <1>4, <1>6, <1>7, <1>8
  <1>10. \A i \in 1..Len(l) : l[i] = args.key[LastHeight + i]
    BY <1>6, <1>9 DEF BitMatches
  <1>11. LastPath \o l = args.key
    <2>1. First(args.key, LastHeight) \o l = First(args.key, LastHeight + Len(l))
      BY <1>2, <1>4, <1>8, <1>10, AlongKey, LastHeight \in 0..MaxHeight
    <2> QED BY <1>2, <1>9, <2>1, WholeKey
  <1>12. ReplacesLeaf(l)
    BY <1>1, <1>2, <1>3, <1>4, <1>11 DEF ReplacesLeaf
  <1> QED BY <1>12

LEMMA SetLeafUnderEdgeShape ==
  ASSUME ShapeInv, SetLeafUnderEdge
  PROVE  ShapeInv'
  <1>1. PICK l : ReplacesLeaf(l)
    BY SetLeafUnderEdgeIs
  <1>2. TInv'
    BY SetLeafUnderEdgeTInv DEF ShapeInv
  <1> QED BY <1>1, <1>2, ReplaceLeafShape DEF ReplacesLeaf

\* The edge at p = LastPath, which ends at e, leaves the key at b.
SplitAt(p, b, e) ==
    /\ p \in Path /\ b \in Path /\ e \in Path /\ args.key \in Key
    /\ Len(p) \in Nat /\ Len(b) \in Nat /\ Len(e) \in Nat
    /\ Len(b) < MaxHeight /\ Len(b) < Len(e)
    /\ IsPrefixOf(p, b) /\ IsPrefixOf(b, e) /\ IsPrefixOf(b, args.key)
    /\ ~IsPrefixOf(Toward(args.key, b), e)
    /\ b = p \o CommonPath(EdgePath(LastNode), args.key, LastNode.height)
    /\ Len(b) = BranchHeight(LastNode)
    /\ Len(p) = LastNode.height

LEMMA SplitPlace ==
  ASSUME ShapeInv, Setting, current_nodes_heights # << >>, IsEdge(LastNode),
         BranchHeight(LastNode) # MaxHeight
  PROVE  SplitAt(LastPath, First(args.key, BranchHeight(LastNode)),
                 LastPath \o EdgePath(LastNode))
  <1>1. pc = "Finish"
    BY DEF Setting
  <1>2. PICK p : p = LastPath
    OBVIOUS
  <1>3. PICK h : h = LastHeight
    OBVIOUS
  <1>4. PICK key : key = args.key
    OBVIOUS
  <1>5. PICK l : l = EdgePath(LastNode)
    OBVIOUS
  <1>6. PICK c : c = CommonLength(l, key, h)
    OBVIOUS
  <1>7. PICK e : e = p \o l
    OBVIOUS
  <1>8. /\ h \in 0..(MaxHeight - 1) /\ p \in Path /\ Len(p) = h
        /\ key \in Key /\ p = First(key, h) /\ Len(key) = MaxHeight /\ key \in Path
        /\ IsNodeAt(LastNode, p) /\ LastNode.height = h
    BY <1>1, <1>2, <1>3, <1>4, LastIs
  <1>9. /\ l \in Path /\ e \in Path /\ p \in Seq(Bit) /\ l \in Seq(Bit) /\ key \in Seq(Bit)
        /\ e \in Seq(Bit)
    BY <1>5, <1>7, <1>8, EdgeLabel, PathSeq, KeySeq
  <1>10. Len(l) \in Nat /\ h \in Nat /\ Len(e) = h + Len(l) /\ h + Len(l) <= MaxHeight
    BY <1>7, <1>8, <1>9, ConcatSeq, PathConcat
  <1>11. /\ c \in 0..Len(l) /\ \A i \in 1..c : BitMatches(l, key, h, i)
         /\ ~BitMatches(l, key, h, c + 1)
    BY <1>6, <1>9, CommonLengthIs
  <1>12. BranchHeight(LastNode) = h + c /\ h + c # MaxHeight
    BY <1>4, <1>5, <1>6, <1>8 DEF BranchHeight
  <1>13. c < Len(l)
    <2> SUFFICES ASSUME c = Len(l) PROVE FALSE
      BY <1>10, <1>11
    <2>1. PathMatches(l, key, h)
      BY <1>11 DEF PathMatches
    <2>2. h + Len(l) = MaxHeight
      BY <1>1, <1>3, <1>4, <1>5, <2>1 DEF ShapeInv, WayInv
    <2> QED BY <1>12, <2>2
  <1>14. c \in Nat /\ h + c < MaxHeight /\ h + c \in 0..MaxHeight /\ c + 1 \in 1..Len(l)
         /\ h + (c + 1) <= MaxHeight /\ (h + c) + 1 = h + (c + 1)
    BY <1>8, <1>10, <1>11, <1>13
  <1>15. l[c + 1] # key[h + (c + 1)]
    BY <1>8, <1>11, <1>14 DEF BitMatches
  <1>16. PICK b : b = First(key, h + c)
    OBVIOUS
  <1>17. b \in Path /\ b \in Seq(Bit) /\ Len(b) = h + c
    BY <1>8, <1>14, <1>16, FirstOfKey, PathSeq
  <1>18. PICK common : common = First(l, c)
    OBVIOUS
  <1>19. /\ common \in Seq(Bit) /\ Len(common) = c
         /\ \A i \in 1..c : common[i] = l[i] /\ common[i] = key[h + i]
    <2>1. common \in Seq(Bit) /\ Len(common) = c /\ \A i \in 1..c : common[i] = l[i]
      BY <1>9, <1>11, <1>18, FirstSeq
    <2>2. \A i \in 1..c : l[i] = key[h + i]
      BY <1>11 DEF BitMatches
    <2> QED BY <2>1, <2>2
  <1>20. b = p \o common
    <2>1. h \in 0..MaxHeight /\ h + Len(common) <= MaxHeight /\ h + Len(common) = h + c
      BY <1>8, <1>14, <1>19
    <2>2. First(key, h) \o common = First(key, h + Len(common))
      BY <1>8, <1>19, <2>1, AlongKey
    <2> QED BY <1>8, <1>16, <2>1, <2>2
  <1>21. CommonPath(EdgePath(LastNode), args.key, LastNode.height) = common
    BY <1>4, <1>5, <1>6, <1>8, <1>18 DEF CommonPath
  <1>22. IsPrefixOf(p, b) /\ IsPrefixOf(b, key)
    <2>1. IsPrefixOf(p, b)
      BY <1>9, <1>19, <1>20, PrefixConcat
    <2>2. IsPrefixOf(b, key)
      BY <1>8, <1>14, <1>16, <1>17 DEF IsPrefixOf
    <2> QED BY <2>1, <2>2
  <1>23. IsPrefixOf(b, e)
    <2>1. /\ \A i \in 1..h : e[i] = p[i] /\ b[i] = p[i]
          /\ \A i \in 1..Len(l) : e[h + i] = l[i]
          /\ \A i \in 1..c : b[h + i] = common[i]
      <3>1. /\ \A i \in 1..Len(p) : (p \o l)[i] = p[i]
            /\ \A i \in 1..Len(l) : (p \o l)[Len(p) + i] = l[i]
        BY <1>9, ConcatSeq
      <3>2. /\ \A i \in 1..Len(p) : (p \o common)[i] = p[i]
            /\ \A i \in 1..Len(common) : (p \o common)[Len(p) + i] = common[i]
        BY <1>9, <1>19, ConcatSeq
      <3> QED BY <1>7, <1>8, <1>19, <1>20, <3>1, <3>2
    <2>2. ASSUME NEW i \in 1..Len(b) PROVE b[i] = e[i]
      <3>1. CASE i <= h
        <4>1. i \in 1..h
          BY <1>10, <1>14, <1>17, <3>1
        <4> QED BY <2>1, <4>1
      <3>2. CASE i > h
        <4>1. i - h \in 1..c /\ i - h \in 1..Len(l) /\ h + (i - h) = i
          BY <1>10, <1>13, <1>14, <1>17, <3>2
        <4>2. PICK j : j \in 1..c /\ j \in 1..Len(l) /\ h + j = i
          BY <4>1
        <4> QED BY <1>19, <2>1, <4>2
      <3>3. i \in Nat /\ (i <= h \/ i > h)
        BY <1>10, <1>14, <1>17
      <3> QED BY <3>1, <3>2, <3>3
    <2>3. Len(b) <= Len(e)
      BY <1>10, <1>13, <1>14, <1>17
    <2> QED BY <1>9, <1>17, <2>2, <2>3, PrefixIs
  <1>24. ~IsPrefixOf(Toward(key, b), e)
    <2>1. Len(b) + 1 = h + (c + 1) /\ Len(b) < MaxHeight /\ key[h + (c + 1)] \in Bit
      BY <1>8, <1>9, <1>14, <1>17
    <2>2. PICK t : t = Toward(key, b)
      OBVIOUS
    <2>3. t \in Path /\ t[h + (c + 1)] = key[h + (c + 1)] /\ Len(t) = h + (c + 1)
      <3>1. t = Append(b, key[h + (c + 1)])
        BY <2>1, <2>2 DEF Toward
      <3>2. t \in Path /\ Len(t) = Len(b) + 1 /\ t[Len(b) + 1] = key[h + (c + 1)]
        BY <1>17, <2>1, <3>1, AppendPath
      <3> QED BY <2>1, <3>2
    <2>4. e[h + (c + 1)] = l[c + 1]
      BY <1>7, <1>8, <1>9, <1>14, ConcatSeq
    <2>5. t \in Seq(Bit) /\ h + (c + 1) \in 1..Len(t)
      BY <1>10, <1>14, <2>3, PathSeq
    <2>6. ASSUME IsPrefixOf(t, e) PROVE FALSE
      <3>1. \A i \in 1..Len(t) : t[i] = e[i]
        BY <1>9, <2>5, <2>6, PrefixIs
      <3>2. t[h + (c + 1)] = e[h + (c + 1)]
        BY <2>5, <3>1
      <3> QED BY <1>15, <2>3, <2>4, <3>2
    <2> QED BY <2>2, <2>6
  <1>25. Len(b) < MaxHeight /\ Len(b) < Len(e) /\ Len(b) \in Nat /\ Len(p) \in Nat /\ Len(e) \in Nat
    BY <1>8, <1>10, <1>13, <1>14, <1>17
  <1>26. SplitAt(p, b, e)
    BY <1>4, <1>8, <1>9, <1>12, <1>17, <1>20, <1>21, <1>22, <1>23, <1>24, <1>25 DEF SplitAt
  <1> QED BY <1>2, <1>4, <1>5, <1>7, <1>12, <1>16, <1>26

\* An edge in memory is an edge of the trie.
LEMMA EdgeInMemory ==
  ASSUME ShapeInv, NEW p \in Path, View[p] # NoNode, IsEdge(View[p])
  PROVE  /\ HasNode(Pending, p) /\ ~Branches(Pending, p) /\ Through(Pending, p) # {}
         /\ Len(p) < MaxHeight /\ EdgePath(View[p]) \in Labels(Pending, p)
         /\ EdgeTo(Pending, p, p \o EdgePath(View[p]))
  <1>1. /\ HasNode(Pending, p) /\ IsNodeAt(View[p], p)
        /\ DOMAIN View[p].next = Labels(Pending, p)
        /\ IsBinary(View[p]) = Branches(Pending, p)
    BY NodeInView
  <1>2. ~Branches(Pending, p)
    BY <1>1, NodeKind
  <1>3. DOMAIN View[p].next = {EdgePath(View[p])}
    BY <1>1, EdgeDomain
  <1>4. EdgePath(View[p]) = SharedPath(Pending, p)
    BY <1>1, <1>2, <1>3 DEF Labels
  <1>5. Len(p) < MaxHeight /\ Through(Pending, p) # {}
    BY <1>1 DEF HasNode
  <1>6. EdgeTo(Pending, p, p \o SharedPath(Pending, p))
    BY <1>2, <1>5, SharedPathEnds
  <1> QED BY <1>1, <1>2, <1>3, <1>4, <1>5, <1>6

LEMMA SplitParting ==
  ASSUME ShapeInv, pc = "Finish", current_nodes_heights # << >>, IsEdge(LastNode),
         NEW b, NEW e, e = LastPath \o EdgePath(LastNode), SplitAt(LastPath, b, e),
         NEW m, \A k \in Key : m[k] # None <=> Pending[k] # None \/ k = args.key
  PROVE  Parting(Pending, m, args.key, b) /\ Passes(Pending, b, LastPath, e)
  <1>1. PICK p : p = LastPath
    OBVIOUS
  <1>2. p \in Path /\ nodes[p] = LastNode /\ nodes[p] # NoNode
    BY <1>1, LastIs
  <1>3. View[p] = LastNode
    BY <1>2, NodeInMemory
  <1>4. /\ HasNode(Pending, p) /\ ~Branches(Pending, p) /\ Through(Pending, p) # {}
        /\ EdgeTo(Pending, p, e)
    BY <1>1, <1>2, <1>3, EdgeInMemory
  <1>5. Through(Pending, e) = Through(Pending, p)
    BY <1>4 DEF EdgeTo
  <1>6. /\ b \in Path /\ e \in Path /\ args.key \in Key /\ Len(b) < MaxHeight
        /\ IsPrefixOf(p, b) /\ IsPrefixOf(b, e) /\ IsPrefixOf(b, args.key)
        /\ ~IsPrefixOf(Toward(args.key, b), e) /\ Len(b) < Len(e)
        /\ Len(b) \in Nat /\ Len(e) \in Nat
    BY <1>1 DEF SplitAt
  <1>7. Through(Pending, b) # {}
    <2>1. Through(Pending, e) \subseteq Through(Pending, b)
      BY <1>6, ThroughPrefix
    <2> QED BY <1>4, <1>5, <2>1
  <1>8. Through(Pending, Toward(args.key, b)) = {}
    <2> SUFFICES ASSUME NEW k \in Through(Pending, Toward(args.key, b)) PROVE FALSE
      OBVIOUS
    <2>1. args.key[Len(b) + 1] \in Bit
      <3>1. args.key \in [1..MaxHeight -> Bit] /\ Len(b) + 1 \in 1..MaxHeight
        BY <1>6 DEF Key
      <3> QED BY <3>1
    <2>2. PICK t : t = Toward(args.key, b)
      OBVIOUS
    <2>3. t \in Path /\ Len(t) = Len(b) + 1 /\ IsPrefixOf(b, t)
      BY <1>6, <2>1, <2>2, AppendPath DEF Toward
    <2>4. k \in Through(Pending, t)
      BY <2>2
    <2>5. IsPrefixOf(p, t)
      BY <1>2, <1>6, <2>3, PathPrefixTrans
    <2>6. k \in Through(Pending, e)
      BY <1>2, <1>5, <2>3, <2>4, <2>5, ThroughPrefix
    <2>7. Len(t) <= Len(e)
      BY <1>6, <2>3
    <2>8. IsPrefixOf(t, e)
      BY <1>6, <2>3, <2>4, <2>6, <2>7, ThroughBoth
    <2> QED BY <1>6, <2>2, <2>8
  <1>9. Parting(Pending, m, args.key, b)
    BY <1>6, <1>7, <1>8 DEF Parting
  <1>10. Passes(Pending, b, p, e)
    BY <1>2, <1>4, <1>6 DEF Passes
  <1> QED BY <1>1, <1>9, <1>10

\* A node's arcs are a function, so that its record is known from its fields.
Proper(n) == n.next = [l \in DOMAIN n.next |-> n.next[l]]

IsEdgeWith(n, l, child) ==
    /\ n # NoNode /\ ~IsBinary(n) /\ DOMAIN n.next = {l} /\ n.next[l] = child
    /\ Proper(n)

LEMMA NewEdgeIs == \A hash, height, l, child : IsEdgeWith(EdgeNode(hash, height, l, child), l, child)
  <1> SUFFICES ASSUME NEW hash, NEW height, NEW l, NEW child
               PROVE  IsEdgeWith(EdgeNode(hash, height, l, child), l, child)
    OBVIOUS
  <1>1. EdgeNode(hash, height, l, child).next = [x \in {l} |-> child]
    BY DEF EdgeNode
  <1>2. Proper(EdgeNode(hash, height, l, child))
    BY <1>1 DEF Proper
  <1> QED BY <1>1, <1>2 DEF IsEdgeWith, EdgeNode, NoNode, IsBinary

LEMMA FromConcat ==
  ASSUME NEW s \in Seq(Bit), NEW t \in Seq(Bit), NEW n \in 0..Len(t)
  PROVE  From(s \o t, Len(s) + n) = From(t, n)
  <1>1. /\ s \o t \in Seq(Bit) /\ Len(s \o t) = Len(s) + Len(t)
        /\ \A i \in 1..Len(t) : (s \o t)[Len(s) + i] = t[i]
        /\ Len(s) \in Nat /\ Len(t) \in Nat
    BY ConcatSeq
  <1>2. PICK u : u = s \o t
    OBVIOUS
  <1>3. PICK m : m = Len(s) + n
    OBVIOUS
  <1>4. m \in 0..Len(u) /\ Len(u) - m = Len(t) - n
    BY <1>1, <1>2, <1>3
  <1>5. From(u, m) \in Seq(Bit) /\ Len(From(u, m)) = Len(t) - n
    BY <1>1, <1>2, <1>4, FromSeq
  <1>6. From(t, n) \in Seq(Bit) /\ Len(From(t, n)) = Len(t) - n
    BY FromSeq
  <1>7. ASSUME NEW i \in 1..(Len(t) - n) PROVE From(u, m)[i] = From(t, n)[i]
    <2>1. From(t, n)[i] = t[n + i]
      BY <1>1 DEF From
    <2>2. From(u, m)[i] = u[m + i]
      BY <1>1, <1>2, <1>4 DEF From
    <2>3. n + i \in 1..Len(t) /\ Len(s) + (n + i) = m + i
      BY <1>1, <1>3
    <2>4. u[Len(s) + (n + i)] = t[n + i]
      BY <1>1, <1>2, <2>3
    <2> QED BY <2>1, <2>2, <2>3, <2>4
  <1> QED BY <1>2, <1>3, <1>5, <1>6, <1>7, SameSeq

\* What the split leaves in the slots.
SplitInto(p, b, e) ==
    /\ nodes'[b] # NoNode /\ IsBinary(nodes'[b]) /\ DOMAIN nodes'[b].next = Directions
    /\ Proper(nodes'[b])
    /\ nodes'[b].next[<<args.key[Len(b) + 1]>>] =
         IF Len(Toward(args.key, b)) = MaxHeight THEN args.value ELSE InMemory
    /\ nodes'[b].next[<<Invert(args.key[Len(b) + 1])>>] =
         IF Away(args.key, b) = e THEN EdgeChild(LastNode) ELSE InMemory
    /\ p # b => IsEdgeWith(nodes'[p], From(b, Len(p)), InMemory)
    /\ Len(Toward(args.key, b)) < MaxHeight =>
         IsEdgeWith(nodes'[Toward(args.key, b)],
                    From(args.key, Len(Toward(args.key, b))), args.value)
    /\ Away(args.key, b) # e =>
         IsEdgeWith(nodes'[Away(args.key, b)], From(e, Len(Away(args.key, b))),
                    EdgeChild(LastNode))
    /\ \A x \in Path : /\ x # p /\ x # b
                       /\ x = Toward(args.key, b) => Len(x) = MaxHeight
                       /\ x = Away(args.key, b) => x = e
                       => nodes'[x] = nodes[x]

LEMMA SplitNodes ==
  ASSUME NEW m, NEW b, Parting(Pending, m, args.key, b), NEW p, NEW e, Passes(Pending, b, p, e),
         SplitAt(p, b, e), e = p \o EdgePath(LastNode), EdgePath(LastNode) \in Path,
         nodes' = SplitEdge(LastNode, p, args.key, args.value)
  PROVE  SplitInto(p, b, e)
  <1>1. PICK key : key = args.key
    OBVIOUS
  <1>2. PICK t : t = Toward(key, b)
    OBVIOUS
  <1>3. PICK a : a = Away(key, b)
    OBVIOUS
  <1>4. PICK bit : bit = key[Len(b) + 1]
    OBVIOUS
  <1>5. PICK l : l = EdgePath(LastNode)
    OBVIOUS
  <1>6. PICK g : g = EdgeChild(LastNode)
    OBVIOUS
  <1>7. PICK common : common = CommonPath(l, key, LastNode.height)
    OBVIOUS
  <1>8. /\ key \in Path /\ b \in Path /\ Len(key) = MaxHeight /\ Len(b) \in Nat /\ Len(b) < MaxHeight
        /\ bit \in Bit /\ Invert(bit) \in Bit
        /\ t \in Path /\ Len(t) = Len(b) + 1 /\ IsPrefixOf(t, key)
        /\ a \in Path /\ Len(a) = Len(b) + 1 /\ ~IsPrefixOf(a, key)
    BY <1>1, <1>2, <1>3, <1>4, Turns
  <1>9. /\ p \in Path /\ e \in Path /\ Len(p) \in Nat /\ Len(e) \in Nat
        /\ IsPrefixOf(p, b) /\ Len(b) = BranchHeight(LastNode) /\ Len(p) = LastNode.height
        /\ b = p \o common /\ e = p \o l /\ l \in Path
    BY <1>1, <1>5, <1>7 DEF SplitAt
  <1>10. Len(p) <= Len(b) /\ IsPrefixOf(a, e)
    BY <1>1, <1>3, PassingEdge
  <1>11. t = b \o <<bit>> /\ a = b \o <<Invert(bit)>> /\ t = Append(b, bit)
    BY <1>2, <1>3, <1>4, <1>8, AppendPath DEF Toward, Away
  <1>12. t # a
    BY <1>8
  <1>13. common = From(b, Len(p)) /\ (common = << >> <=> p = b)
    <2>1. From(b, Len(p)) \in Path /\ Len(From(b, Len(p))) = Len(b) - Len(p)
      BY <1>8, <1>9, PathRest
    <2>2. common = CommonPath(EdgePath(LastNode), key, LastNode.height)
      BY <1>5, <1>7
    <2>3. common \in Path
      <3>1. CommonLength(l, key, LastNode.height) \in 0..Len(l) /\ l \in Seq(Bit)
        BY <1>9, PathSeq, CommonLengthIs
      <3>2. common \in Seq(Bit) /\ Len(common) <= Len(l) /\ Len(common) \in Nat
        BY <1>7, <3>1, FirstSeq DEF CommonPath
      <3>3. Len(common) <= MaxHeight
        BY <1>9, <3>1, <3>2, PathSeq
      <3> QED BY <3>2, <3>3, PathSeq
    <2>4. common = From(b, Len(p)) /\ Len(b) = Len(p) + Len(common)
      BY <1>8, <1>9, <2>3, ConcatPath
    <2>5. common = << >> => p = b
      <3>1. ASSUME common = << >> PROVE p = b
        <4>1. Len(common) = 0
          BY <3>1
        <4>2. Len(p) >= Len(b)
          BY <1>8, <1>9, <2>4, <4>1
        <4> QED BY <1>8, <1>9, <4>2, PrefixSame
      <3> QED BY <3>1
    <2>6. p = b => common = << >>
      <3>1. ASSUME p = b PROVE common = << >>
        <4>1. Len(common) = 0 /\ common \in Seq(Bit)
          BY <1>8, <2>1, <2>4, <3>1, PathSeq
        <4> QED BY <4>1
      <3> QED BY <3>1
    <2> QED BY <2>4, <2>5, <2>6
  <1>14. PICK new_path : new_path = From(key, Len(t))
    OBVIOUS
  <1>15. new_path = << >> <=> Len(t) = MaxHeight
    <2>1. new_path \in Path /\ Len(new_path) = MaxHeight - Len(t)
      BY <1>8, <1>14, PathRest
    <2>2. new_path \in Seq(Bit) /\ Len(new_path) \in Nat
      BY <2>1, PathSeq
    <2>3. new_path = << >> <=> Len(new_path) = 0
      BY <2>2
    <2> QED BY <1>8, <2>1, <2>3
  <1>16. PICK old_path : old_path = From(e, Len(a))
    OBVIOUS
  <1>17. old_path = << >> <=> a = e
    <2>1. old_path \in Path /\ Len(old_path) = Len(e) - Len(a) /\ Len(a) <= Len(e)
      BY <1>8, <1>9, <1>10, <1>16, PathRest, PrefixLen
    <2>2. old_path \in Seq(Bit) /\ Len(old_path) \in Nat
      BY <2>1, PathSeq
    <2>3. old_path = << >> <=> Len(old_path) = 0
      BY <2>2
    <2>4. Len(old_path) = 0 => a = e
      <3>1. ASSUME Len(old_path) = 0 PROVE a = e
        <4>1. Len(a) \in Nat /\ Len(a) >= Len(e)
          <5>1. Len(a) \in Nat /\ Len(e) \in Nat
            BY <1>8, <1>9
          <5>2. Len(e) - Len(a) = 0
            BY <2>1, <3>1
          <5> QED BY <5>1, <5>2
        <4> QED BY <1>8, <1>9, <1>10, <4>1, PrefixSame
      <3> QED BY <3>1
    <2>5. a = e => Len(old_path) = 0
      BY <1>9, <2>1
    <2> QED BY <2>3, <2>4, <2>5
  <1>18. old_path = From(l, Len(common) + 1)
    <2>1. p \in Seq(Bit) /\ l \in Seq(Bit) /\ common \in Seq(Bit) /\ Len(common) \in Nat
      <3>1. p \in Seq(Bit) /\ l \in Seq(Bit) /\ common \in Path
        <4>1. From(b, Len(p)) \in Path
          BY <1>8, <1>9, PathRest
        <4> QED BY <1>9, <1>13, <4>1, PathSeq
      <3> QED BY <3>1, PathSeq
    <2>2. Len(b) = Len(p) + Len(common) /\ Len(e) = Len(p) + Len(l) /\ Len(l) \in Nat
      <3>1. Len(p \o common) = Len(p) + Len(common)
        BY <2>1, ConcatSeq
      <3>2. Len(p \o l) = Len(p) + Len(l)
        BY <2>1, ConcatSeq
      <3> QED BY <1>9, <2>1, <3>1, <3>2
    <2>3. Len(a) <= Len(e)
      BY <1>8, <1>9, <1>10, PrefixLen
    <2>4. Len(common) + 1 \in 0..Len(l) /\ Len(p) + (Len(common) + 1) = Len(a)
      <3>1. Len(a) = Len(b) + 1 /\ Len(p) \in Nat /\ Len(b) \in Nat /\ Len(e) \in Nat
        BY <1>8, <1>9
      <3> QED BY <2>1, <2>2, <2>3, <3>1
    <2>5. PICK n : n = Len(common) + 1
      OBVIOUS
    <2>6. From(p \o l, Len(p) + n) = From(l, n)
      BY <2>1, <2>4, <2>5, FromConcat
    <2> QED BY <1>9, <1>16, <2>4, <2>5, <2>6
  <1> DEFINE C == CommonPath(EdgePath(LastNode), args.key, LastNode.height)
             H == BranchHeight(LastNode)
             D == args.key[H + 1]
             N == From(args.key, H + 1)
             O == From(EdgePath(LastNode), Len(C) + 1)
             X == IF N = << >> THEN args.value ELSE InMemory
             Y == IF O = << >> THEN EdgeChild(LastNode) ELSE InMemory
             branch == BinaryNode(None, H, [d \in Directions |-> IF d = <<D>> THEN X ELSE Y])
  <1>19. nodes' = [q \in Path |->
            CASE q = (p \o C) \o <<D>> /\ N # << >> -> EdgeNode(None, H + 1, N, args.value)
              [] q = (p \o C) \o <<Invert(D)>> /\ O # << >> ->
                     EdgeNode(None, H + 1, O, EdgeChild(LastNode))
              [] q = p \o C -> branch
              [] q = p /\ C # << >> -> EdgeNode(None, LastNode.height, C, InMemory)
              [] OTHER -> nodes[q]]
    BY DEF SplitEdge
  <1>20. /\ C = common /\ H = Len(b) /\ D = bit /\ N = new_path /\ O = old_path
         /\ (p \o C) \o <<D>> = t /\ (p \o C) \o <<Invert(D)>> = a /\ p \o C = b
         /\ LastNode.height = Len(p)
    <2>1. C = common /\ H = Len(b) /\ LastNode.height = Len(p)
      BY <1>1, <1>5, <1>7, <1>9
    <2>2. D = bit /\ N = new_path
      BY <1>1, <1>4, <1>8, <1>14, <2>1
    <2>3. O = old_path
      BY <1>5, <1>18, <2>1
    <2> HIDE DEF C, H, D, N, O
    <2> QED BY <1>9, <1>11, <2>1, <2>2, <2>3
  <1>23. /\ branch # NoNode /\ IsBinary(branch) /\ DOMAIN branch.next = Directions
         /\ \A d \in Directions : branch.next[d] = IF d = <<D>> THEN X ELSE Y
         /\ Proper(branch)
    <2> HIDE DEF X, Y, D, H
    <2>1. branch.next = [d \in Directions |-> IF d = <<D>> THEN X ELSE Y]
      BY DEF BinaryNode
    <2>2. Proper(branch)
      BY <2>1 DEF Proper
    <2> QED BY <2>2 DEF BinaryNode, NoNode, IsBinary
  <1>30. /\ X = (IF new_path = << >> THEN args.value ELSE InMemory)
         /\ Y = (IF old_path = << >> THEN g ELSE InMemory)
    <2> HIDE DEF N, O
    <2> QED BY <1>6, <1>20
  <1> HIDE DEF C, H, D, N, O, X, Y, branch
  <1>21. t # b /\ t # p /\ a # b /\ a # p
    <2>1. Len(t) # Len(b) /\ Len(a) # Len(b)
      BY <1>8
    <2>2. Len(t) # Len(p) /\ Len(a) # Len(p)
      BY <1>8, <1>9, <1>10
    <2> QED BY <2>1, <2>2
  <1>31. ASSUME NEW x \in Path
         PROVE  /\ x = t /\ new_path # << >> =>
                     nodes'[x] = EdgeNode(None, Len(b) + 1, new_path, args.value)
                /\ x = a /\ old_path # << >> =>
                     nodes'[x] = EdgeNode(None, Len(b) + 1, old_path, g)
                /\ x = b => nodes'[x] = branch
                /\ x = p /\ x # b /\ common # << >> =>
                     nodes'[x] = EdgeNode(None, Len(p), common, InMemory)
                /\ /\ ~(x = t /\ new_path # << >>) /\ ~(x = a /\ old_path # << >>)
                   /\ x # b /\ ~(x = p /\ common # << >>)
                   => nodes'[x] = nodes[x]
    <2>1. nodes'[x] =
            CASE x = (p \o C) \o <<D>> /\ N # << >> -> EdgeNode(None, H + 1, N, args.value)
              [] x = (p \o C) \o <<Invert(D)>> /\ O # << >> ->
                     EdgeNode(None, H + 1, O, EdgeChild(LastNode))
              [] x = p \o C -> branch
              [] x = p /\ C # << >> -> EdgeNode(None, LastNode.height, C, InMemory)
              [] OTHER -> nodes[x]
      BY <1>19
    <2>2. PICK u, v, w : /\ u = EdgeNode(None, H + 1, N, args.value)
                         /\ v = EdgeNode(None, H + 1, O, EdgeChild(LastNode))
                         /\ w = EdgeNode(None, LastNode.height, C, InMemory)
      OBVIOUS
    <2>3. nodes'[x] =
            CASE x = t /\ new_path # << >> -> u
              [] x = a /\ old_path # << >> -> v
              [] x = b -> branch
              [] x = p /\ common # << >> -> w
              [] OTHER -> nodes[x]
      BY <1>20, <2>1, <2>2
    <2>4. /\ u = EdgeNode(None, Len(b) + 1, new_path, args.value)
          /\ v = EdgeNode(None, Len(b) + 1, old_path, g)
          /\ w = EdgeNode(None, Len(p), common, InMemory)
      BY <1>6, <1>20, <2>2
    <2> QED BY <1>12, <1>13, <1>21, <2>3, <2>4
  <1>22. nodes'[b] = branch
    BY <1>8, <1>21, <1>31
  <1>24. <<bit>> \in Directions /\ <<Invert(bit)>> \in Directions /\ <<Invert(bit)>> # <<bit>>
    BY <1>8 DEF Bit, Invert, Directions
  <1>25. /\ branch.next[<<bit>>] = IF Len(t) = MaxHeight THEN args.value ELSE InMemory
         /\ branch.next[<<Invert(bit)>>] = IF a = e THEN g ELSE InMemory
    BY <1>15, <1>17, <1>20, <1>23, <1>24, <1>30
  <1>26. p # b => IsEdgeWith(nodes'[p], From(b, Len(p)), InMemory)
    <2>1. p # b => nodes'[p] = EdgeNode(None, Len(p), common, InMemory)
      BY <1>9, <1>13, <1>31, <1>21
    <2> QED BY <1>13, <2>1, NewEdgeIs
  <1>27. Len(t) < MaxHeight => IsEdgeWith(nodes'[t], new_path, args.value)
    <2>1. Len(t) < MaxHeight => nodes'[t] = EdgeNode(None, Len(b) + 1, new_path, args.value)
      BY <1>8, <1>12, <1>15, <1>31, <1>21
    <2> QED BY <2>1, NewEdgeIs
  <1>28. a # e => IsEdgeWith(nodes'[a], old_path, g)
    <2>1. a # e => nodes'[a] = EdgeNode(None, Len(b) + 1, old_path, g)
      BY <1>8, <1>12, <1>17, <1>31, <1>21
    <2> QED BY <2>1, NewEdgeIs
  <1>29. ASSUME NEW x \in Path, x # p, x # b, x = t => Len(x) = MaxHeight, x = a => x = e
         PROVE  nodes'[x] = nodes[x]
    BY <1>15, <1>17, <1>31, <1>29
  <1> QED BY <1>1, <1>2, <1>3, <1>4, <1>6, <1>14, <1>16, <1>22, <1>23, <1>25, <1>26, <1>27, <1>28,
             <1>29 DEF SplitInto

\* The split of the edge at p: t is where the new leaf branches off, a where
\* the old child does.
SplitStep(p, b, e, t, a) ==
    /\ ShapeInv /\ SplitInto(p, b, e)
    /\ Parting(Pending, Pending', args.key, b) /\ Passes(Pending, b, p, e)
    /\ t = Toward(args.key, b) /\ a = Away(args.key, b)
    /\ nodes[p] = LastNode /\ nodes[p] # NoNode /\ IsEdge(LastNode)
    /\ e = p \o EdgePath(LastNode) /\ args.value \in Felt

LEMMA SplitGeometry ==
  ASSUME NEW p, NEW b, NEW e, NEW t, NEW a, SplitStep(p, b, e, t, a)
  PROVE  /\ p \in Path /\ b \in Path /\ e \in Path /\ t \in Path /\ a \in Path
         /\ args.key \in Path /\ Len(args.key) = MaxHeight
         /\ Len(p) \in Nat /\ Len(b) \in Nat /\ Len(e) \in Nat /\ Len(e) <= MaxHeight
         /\ Len(p) <= Len(b) /\ Len(b) < Len(e) /\ Len(b) < MaxHeight
         /\ Len(t) = Len(b) + 1 /\ Len(a) = Len(b) + 1
         /\ IsPrefixOf(p, b) /\ IsPrefixOf(b, e) /\ IsPrefixOf(b, t) /\ IsPrefixOf(b, a)
         /\ IsPrefixOf(a, e) /\ IsPrefixOf(p, a)
         /\ IsPrefixOf(t, args.key) /\ ~IsPrefixOf(a, args.key)
         /\ t # a /\ t # b /\ t # p /\ a # b /\ a # p /\ e # b /\ e # p /\ e # t
  <1>1. PICK key : key = args.key
    OBVIOUS
  <1>2. /\ Parting(Pending, Pending', key, b) /\ Passes(Pending, b, p, e)
        /\ t = Toward(key, b) /\ a = Away(key, b)
    BY <1>1 DEF SplitStep
  <1>3. /\ key \in Path /\ b \in Path /\ Len(key) = MaxHeight /\ Len(b) \in Nat /\ Len(b) < MaxHeight
        /\ t \in Path /\ Len(t) = Len(b) + 1 /\ IsPrefixOf(b, t) /\ IsPrefixOf(t, key)
        /\ a \in Path /\ Len(a) = Len(b) + 1 /\ IsPrefixOf(b, a) /\ ~IsPrefixOf(a, key)
    BY <1>2, Turns
  <1>4. /\ p \in Path /\ e \in Path /\ Len(p) \in Nat /\ Len(e) \in Nat
        /\ Len(p) <= Len(b) /\ Len(b) < Len(e)
        /\ IsPrefixOf(p, a) /\ IsPrefixOf(a, e)
    BY <1>2, PassingEdge
  <1>5. IsPrefixOf(p, b) /\ IsPrefixOf(b, e)
    BY <1>2 DEF Passes
  <1>6. Len(e) <= MaxHeight
    BY <1>4, PathLen
  <1>7. t # a
    BY <1>3
  <1>8. t # b /\ a # b /\ e # b
    <2>1. Len(t) # Len(b) /\ Len(a) # Len(b) /\ Len(e) # Len(b)
      BY <1>3, <1>4
    <2> QED BY <2>1
  <1>9. t # p /\ a # p /\ e # p
    <2>1. Len(t) # Len(p) /\ Len(a) # Len(p) /\ Len(e) # Len(p)
      BY <1>3, <1>4
    <2> QED BY <2>1
  <1>10. e # t
    <2>1. ASSUME e = t PROVE FALSE
      <3>1. Len(a) >= Len(t)
        BY <1>3
      <3>2. IsPrefixOf(a, t)
        BY <1>4, <2>1
      <3>3. a = t
        BY <1>3, <3>1, <3>2, PrefixSame
      <3> QED BY <1>7, <3>3
    <2> QED BY <2>1
  <1> QED BY <1>1, <1>3, <1>4, <1>5, <1>6, <1>7, <1>8, <1>9, <1>10

\* Which slots the split fills: none where the trie had a node or a leaf.
LEMMA SplitPresence ==
  ASSUME NEW p, NEW b, NEW e, NEW t, NEW a, SplitStep(p, b, e, t, a)
  PROVE  /\ EdgePath(LastNode) \in Labels(Pending, p) /\ HasNode(Pending, p)
         /\ EdgePath(LastNode) \in DOMAIN LastNode.next
         /\ \A y \in Path : HasNode(Pending, y) /\ IsPrefixOf(p, y) /\ p # y /\ IsPrefixOf(y, e) => y = e
         /\ \A y \in Path : HasNode(Pending, y) \/ Len(y) = MaxHeight =>
                              (nodes'[y] # NoNode <=> nodes[y] # NoNode)
         /\ nodes'[e] = nodes[e] /\ (EdgeChild(LastNode) = InMemory <=> nodes[e] # NoNode)
         /\ Len(e) = MaxHeight \/ HasNode(Pending, e)
         /\ nodes'[p] # NoNode /\ nodes'[b] # NoNode
         /\ Len(t) < MaxHeight => nodes'[t] # NoNode
         /\ a # e => nodes'[a] # NoNode
  <1> USE SplitGeometry
  <1>0. ShapeInv /\ nodes[p] # NoNode /\ nodes[p] = LastNode /\ IsEdge(LastNode)
        /\ e = p \o EdgePath(LastNode)
    BY DEF SplitStep
  <1>1. View[p] = LastNode
    BY <1>0, NodeInMemory
  <1>2. /\ HasNode(Pending, p) /\ EdgePath(LastNode) \in Labels(Pending, p)
        /\ EdgeTo(Pending, p, e) /\ ~Branches(Pending, p)
    BY <1>0, <1>1, EdgeInMemory
  <1>3. DOMAIN nodes[p].next = Labels(Pending, p)
    BY <1>0, NodeInMemory
  <1>4. /\ ArcOf(Pending, p, EdgePath(LastNode))
        /\ EdgeChild(LastNode) = InMemory <=> nodes[e] # NoNode
    BY <1>0, <1>2, <1>3, ArcInMemory DEF EdgeChild
  <1>5. Len(e) = MaxHeight \/ HasNode(Pending, e)
    <2>1. Len(e) < MaxHeight => HasNode(Pending, e)
      BY <1>0, <1>4 DEF ArcOf
    <2> QED BY <2>1
  <1>6. ASSUME NEW y \in Path, HasNode(Pending, y), IsPrefixOf(p, y), p # y, IsPrefixOf(y, e)
        PROVE  y = e
    BY <1>0, <1>2, <1>6, ArcOnly
  <1>7. /\ nodes'[b] # NoNode
        /\ Len(t) < MaxHeight => nodes'[t] # NoNode
        /\ a # e => nodes'[a] # NoNode
        /\ p # b => nodes'[p] # NoNode
    BY DEF SplitStep, SplitInto, IsEdgeWith
  <1>8. ASSUME NEW x \in Path, x # p, x # b, x = t => Len(x) = MaxHeight, x = a => x = e
        PROVE  nodes'[x] = nodes[x]
    BY <1>8 DEF SplitStep, SplitInto
  <1>9. nodes'[e] = nodes[e]
    BY <1>8
  <1>10. ~HasNode(Pending, t)
    <2>1. PICK key : key = args.key
      OBVIOUS
    <2>2. Parting(Pending, Pending', key, b) /\ t = Toward(key, b)
      BY <2>1 DEF SplitStep
    <2> QED BY <2>2, HasNodeMore
  <1>11. ASSUME NEW y \in Path, HasNode(Pending, y) \/ Len(y) = MaxHeight
         PROVE  nodes'[y] # NoNode <=> nodes[y] # NoNode
    <2>1. CASE y = p
      BY <1>0, <1>7, <2>1
    <2>2. CASE y # p /\ y = b
      <3>1. Len(y) < MaxHeight /\ HasNode(Pending, y)
        BY <1>11, <2>2
      <3>2. y = e
        BY <1>6, <2>2, <3>1
      <3> QED BY <2>2, <3>2
    <2>3. CASE y = t /\ Len(y) # MaxHeight
      BY <1>10, <1>11, <2>3
    <2>4. CASE y = a /\ a # e
      <3>1. Len(a) # MaxHeight
        <4>1. ASSUME Len(a) = MaxHeight PROVE FALSE
          <5>1. Len(a) >= Len(e)
            BY <4>1
          <5> QED BY <2>4, <5>1, PrefixSame
        <4> QED BY <4>1
      <3>2. HasNode(Pending, a)
        BY <1>11, <2>4, <3>1
      <3>3. a = e
        BY <1>6, <3>2
      <3> QED BY <2>4, <3>3
    <2>5. CASE y # p /\ y # b /\ ~(y = t /\ Len(y) # MaxHeight) /\ ~(y = a /\ a # e)
      BY <1>8, <2>5
    <2> QED BY <2>1, <2>2, <2>3, <2>4, <2>5
  <1> QED BY <1>2, <1>0, <1>3, <1>4, <1>5, <1>6, <1>7, <1>9, <1>11

\* A handle is InMemory exactly if its slot is occupied.
LEMMA SplitLinks ==
  ASSUME NEW p, NEW b, NEW e, NEW t, NEW a, SplitStep(p, b, e, t, a)
  PROVE  LinkInv'
  <1>1. PICK key : key = args.key
    OBVIOUS
  <1>2. PICK bit : bit = key[Len(b) + 1]
    OBVIOUS
  <1>3. ShapeInv /\ Parting(Pending, Pending', key, b) /\ t = Toward(key, b) /\ a = Away(key, b)
    BY <1>1 DEF SplitStep
  <1>4. bit \in Bit /\ Invert(bit) \in Bit
    BY <1>2, <1>3, Turns
  <1>5. t = b \o <<bit>> /\ a = b \o <<Invert(bit)>>
    BY <1>2, <1>3, <1>4, SplitGeometry, AppendPath DEF Toward, Away
  <1>6. args.value # InMemory
    BY DEF SplitStep
  <1>7. nodes'[key] = NoNode
    <2>1. key \in Path /\ Len(key) = MaxHeight
      BY <1>1, SplitGeometry
    <2>2. nodes[key] = NoNode
      BY <1>3, <2>1, NotInView
    <2> QED BY <2>1, <2>2, SplitPresence
  <1>9. /\ nodes'[b] # NoNode /\ (Len(t) < MaxHeight => nodes'[t] # NoNode)
        /\ a # e => nodes'[a] # NoNode
        /\ EdgeChild(LastNode) = InMemory <=> nodes'[e] # NoNode
    BY SplitPresence
  <1>8. ASSUME NEW x \in Path, nodes'[x] # NoNode, NEW l \in DOMAIN nodes'[x].next
        PROVE  nodes'[x].next[l] = InMemory <=> nodes'[x \o l] # NoNode
    <2>1. CASE x = b
      <3>1. /\ DOMAIN nodes'[b].next = Directions
            /\ nodes'[b].next[<<bit>>] = IF Len(t) = MaxHeight THEN args.value ELSE InMemory
            /\ nodes'[b].next[<<Invert(bit)>>] = IF a = e THEN EdgeChild(LastNode) ELSE InMemory
        BY <1>1, <1>2, <1>3 DEF SplitStep, SplitInto
      <3>2. l = <<bit>> \/ l = <<Invert(bit)>>
        BY <1>4, <1>8, <2>1, <3>1 DEF Bit, Invert, Directions
      <3>3. CASE l = <<bit>>
        <4>1. CASE Len(t) = MaxHeight
          <5>1. Len(t) >= Len(key) /\ t \in Path /\ key \in Path /\ IsPrefixOf(t, key)
            BY <1>1, <4>1, SplitGeometry
          <5>2. t = key
            BY <5>1, PrefixSame
          <5> QED BY <1>5, <1>6, <1>7, <2>1, <3>1, <3>3, <4>1, <5>2
        <4>2. CASE Len(t) # MaxHeight
          <5>1. Len(t) < MaxHeight
            BY <4>2, SplitGeometry
          <5> QED BY <1>5, <1>9, <2>1, <3>1, <3>3, <4>2, <5>1
        <4> QED BY <4>1, <4>2
      <3>4. CASE l = <<Invert(bit)>>
        BY <1>5, <1>9, <2>1, <3>1, <3>4
      <3> QED BY <3>2, <3>3, <3>4
    <2>2. CASE x = p /\ p # b
      <3>1. IsEdgeWith(nodes'[p], From(b, Len(p)), InMemory)
        BY <2>2 DEF SplitStep, SplitInto
      <3>2. p \o From(b, Len(p)) = b
        BY SplitGeometry, PathRest
      <3> QED BY <1>8, <1>9, <2>2, <3>1, <3>2 DEF IsEdgeWith
    <2>3. CASE x = t /\ Len(t) # MaxHeight
      <3>0. Len(t) < MaxHeight
        BY <2>3, SplitGeometry
      <3>1. IsEdgeWith(nodes'[t], From(key, Len(t)), args.value)
        BY <1>1, <1>3, <3>0 DEF SplitStep, SplitInto
      <3>2. t \o From(key, Len(t)) = key
        BY <1>1, SplitGeometry, PathRest
      <3> QED BY <1>6, <1>7, <1>8, <2>3, <3>1, <3>2 DEF IsEdgeWith
    <2>4. CASE x = a /\ a # e
      <3>1. IsEdgeWith(nodes'[a], From(e, Len(a)), EdgeChild(LastNode))
        BY <1>1, <1>3, <2>4 DEF SplitStep, SplitInto
      <3>2. a \o From(e, Len(a)) = e
        BY SplitGeometry, PathRest
      <3> QED BY <1>8, <1>9, <2>4, <3>1, <3>2 DEF IsEdgeWith
    <2>5. CASE x # p /\ x # b /\ ~(x = t /\ Len(t) # MaxHeight) /\ ~(x = a /\ a # e)
      <3>1. nodes'[x] = nodes[x]
        BY <1>1, <1>3, <2>5 DEF SplitStep, SplitInto
      <3>2. l \in DOMAIN nodes[x].next /\ nodes[x] # NoNode
        BY <1>8, <3>1
      <3>3. /\ ArcOf(Pending, x, l)
            /\ nodes[x].next[l] = InMemory <=> nodes[x \o l] # NoNode
        BY <1>3, <3>2, ArcInMemory
      <3>4. x \o l \in Path /\ (Len(x \o l) < MaxHeight => HasNode(Pending, x \o l))
        BY <3>3 DEF ArcOf
      <3>5. HasNode(Pending, x \o l) \/ Len(x \o l) = MaxHeight
        <4>1. Len(x \o l) \in Nat /\ Len(x \o l) <= MaxHeight
          BY <3>4, PathLen
        <4>2. Len(x \o l) < MaxHeight \/ Len(x \o l) = MaxHeight
          BY <4>1
        <4> QED BY <3>4, <4>2
      <3>6. nodes'[x \o l] # NoNode <=> nodes[x \o l] # NoNode
        BY <3>4, <3>5, SplitPresence
      <3> QED BY <3>1, <3>3, <3>6
    <2> QED BY <2>1, <2>2, <2>3, <2>4, <2>5
  <1> QED BY <1>8 DEF LinkInv, LinkedAt

\* The nodes in memory stay closed upwards.
LEMMA SplitAbove ==
  ASSUME NEW p, NEW b, NEW e, NEW t, NEW a, SplitStep(p, b, e, t, a), HasShapeOf(View, Pending)'
  PROVE  AboveInv'
  <1> SUFFICES ASSUME NEW x \in Path, NEW q \in Path, nodes'[q] # NoNode, IsPrefixOf(x, q),
                      View'[x] # NoNode
               PROVE  nodes'[x] # NoNode
    BY DEF AboveInv
  <1>1. PICK key : key = args.key
    OBVIOUS
  <1>2. ShapeInv /\ Parting(Pending, Pending', key, b) /\ t = Toward(key, b) /\ a = Away(key, b)
    BY <1>1 DEF SplitStep
  <1>3. HasNode(Pending', x)
    <2>1. Looks(View', Pending', x)
      BY ShapeIs
    <2> QED BY <2>1 DEF Looks
  <1>4. \/ HasNode(Pending, x) \/ x = b
        \/ (x = t \/ x = a) /\ Len(x) < MaxHeight
    <2>1. \/ HasNode(Pending, x) \/ x = b
          \/ x \in {Toward(key, b), Away(key, b)} /\ Len(x) < MaxHeight
      BY <1>2, <1>3, HasNodeMore
    <2> QED BY <1>2, <2>1
  <1>5. ASSUME ~HasNode(Pending, x) PROVE nodes'[x] # NoNode
    <2>1. x = e => Len(x) = MaxHeight
      BY <1>5, SplitPresence
    <2>2. x = b \/ (x = t /\ Len(t) < MaxHeight) \/ (x = a /\ a # e)
      BY <1>4, <1>5, <2>1
    <2> QED BY <2>2, SplitPresence
  <1>6. ASSUME HasNode(Pending, x) PROVE nodes'[x] # NoNode
    <2>1. View[x] # NoNode
      BY <1>2, <1>6, NotInView
    <2>2. ASSUME nodes[x] # NoNode PROVE nodes'[x] # NoNode
      BY <1>6, <2>2, SplitPresence
    <2>3. CASE nodes[q] # NoNode
      <3>1. nodes[x] # NoNode
        BY <1>2, <2>1, <2>3 DEF ShapeInv, AboveInv
      <3> QED BY <2>2, <3>1
    <2>4. CASE nodes[q] = NoNode /\ x # q
      <3>1. q = b \/ q = t \/ q = a
        <4>1. q # p
          BY <2>4 DEF SplitStep
        <4>2. ASSUME q # b, q # t, q # a PROVE nodes'[q] = nodes[q]
          BY <1>1, <1>2, <4>1, <4>2 DEF SplitStep, SplitInto
        <4> QED BY <2>4, <4>2
      <3>2. Len(x) \in Nat /\ Len(q) \in Nat /\ Len(x) <= Len(q)
        BY PrefixLen
      <3>3. Len(x) < Len(q)
        <4>1. Len(x) >= Len(q) => x = q
          BY PrefixSame
        <4> QED BY <2>4, <3>2, <4>1
      <3>4. IsPrefixOf(x, b)
        <4>1. CASE q = b
          BY <4>1
        <4>2. CASE q = t \/ q = a
          <5>1. Len(x) <= Len(b) /\ IsPrefixOf(b, q)
            BY <3>2, <3>3, <4>2, SplitGeometry
          <5>2. b \in Path
            BY SplitGeometry
          <5> QED BY <5>1, <5>2, PrefixOfBoth
        <4> QED BY <3>1, <4>1, <4>2
      <3>5. p \in Path /\ b \in Path /\ e \in Path /\ IsPrefixOf(p, b) /\ IsPrefixOf(b, e)
            /\ Len(p) \in Nat /\ Len(b) \in Nat /\ Len(b) < Len(e) /\ Len(e) \in Nat
        BY SplitGeometry
      <3>6. CASE Len(x) <= Len(p)
        <4>1. IsPrefixOf(x, p)
          BY <3>4, <3>5, <3>6, PrefixOfBoth
        <4>2. nodes[p] # NoNode
          BY DEF SplitStep
        <4>3. nodes[x] # NoNode
          BY <1>2, <2>1, <3>5, <4>1, <4>2 DEF ShapeInv, AboveInv
        <4> QED BY <2>2, <4>3
      <3>7. CASE Len(x) > Len(p)
        <4>1. Len(p) <= Len(x)
          BY <3>2, <3>5, <3>7
        <4>2. IsPrefixOf(p, x)
          BY <3>4, <3>5, <4>1, PrefixOfBoth
        <4>3. IsPrefixOf(x, e) /\ p # x
          BY <3>2, <3>4, <3>5, <3>7, PathPrefixTrans
        <4>4. x = e
          BY <1>6, <4>2, <4>3, SplitPresence
        <4>5. Len(x) <= Len(b)
          BY <3>4, <3>5, PrefixLen
        <4> QED BY <3>5, <4>4, <4>5
      <3> QED BY <3>2, <3>5, <3>6, <3>7
    <2> QED BY <2>3, <2>4
  <1> QED BY <1>5, <1>6

\* Where the split leaves a slot alone, the view stays the same.
LEMMA SplitView ==
  ASSUME NEW p, NEW b, NEW e, NEW t, NEW a, SplitStep(p, b, e, t, a),
         UNCHANGED <<trie_db, updates>>, updates = NoUpdates,
         death_row' \subseteq death_row \cup {p}, death_row \subseteq death_row'
  PROVE  HasShapeOf(View, Pending)'
  <1>1. PICK key : key = args.key
    OBVIOUS
  <1>2. /\ ShapeInv /\ Parting(Pending, Pending', key, b) /\ Passes(Pending, b, p, e)
        /\ t = Toward(key, b) /\ a = Away(key, b)
    BY <1>1 DEF SplitStep
  <1>3. \A x \in Path : nodes'[x] # NoNode => View'[x] = nodes'[x]
    BY DEF View
  <1>4. ASSUME NEW x \in Path, x # p, x # b, x = t => Len(x) = MaxHeight, x = a => x = e
        PROVE  View'[x] = View[x]
    <2>1. nodes'[x] = nodes[x]
      BY <1>1, <1>2, <1>4 DEF SplitStep, SplitInto
    <2>2. x \in death_row' <=> x \in death_row
      BY <1>4
    <2> QED BY <2>1, <2>2 DEF View, DbNode
  <1>5. View'[b] # NoNode /\ IsBinary(View'[b]) /\ DOMAIN View'[b].next = Directions
    <2>1. nodes'[b] # NoNode /\ IsBinary(nodes'[b]) /\ DOMAIN nodes'[b].next = Directions
      BY DEF SplitStep, SplitInto
    <2> QED BY <1>3, <2>1, SplitGeometry
  <1>6. p # b => View'[p] # NoNode /\ ~IsBinary(View'[p]) /\ DOMAIN View'[p].next = {From(b, Len(p))}
    <2>1. p # b => IsEdgeWith(nodes'[p], From(b, Len(p)), InMemory)
      BY DEF SplitStep, SplitInto
    <2> QED BY <1>3, <2>1, SplitGeometry DEF IsEdgeWith
  <1>7. Len(t) < MaxHeight => View'[t] # NoNode /\ ~IsBinary(View'[t])
                              /\ DOMAIN View'[t].next = {From(key, Len(t))}
    <2>1. Len(t) < MaxHeight => IsEdgeWith(nodes'[t], From(key, Len(t)), args.value)
      BY <1>1, <1>2 DEF SplitStep, SplitInto
    <2> QED BY <1>3, <2>1, SplitGeometry DEF IsEdgeWith
  <1>8. a # e => View'[a] # NoNode /\ ~IsBinary(View'[a]) /\ DOMAIN View'[a].next = {From(e, Len(a))}
    <2>1. a # e => IsEdgeWith(nodes'[a], From(e, Len(a)), EdgeChild(LastNode))
      BY <1>1, <1>2 DEF SplitStep, SplitInto
    <2> QED BY <1>3, <2>1, SplitGeometry DEF IsEdgeWith
  <1>9. HasShapeOf(View, Pending)
    BY <1>2 DEF ShapeInv
  <1>10. PICK u, m : u = View' /\ m = Pending'
    OBVIOUS
  <1>11. HasShapeOf(u, m)
    <2>1. Parting(Pending, m, key, b)
      BY <1>2, <1>10
    <2>2. \A x \in Path : /\ x # p /\ x # b
                          /\ x = Toward(key, b) => Len(x) = MaxHeight
                          /\ x = Away(key, b) => x = e
                          => u[x] = View[x]
      BY <1>2, <1>4, <1>10
    <2>3. /\ u[b] # NoNode /\ IsBinary(u[b]) /\ DOMAIN u[b].next = Directions
          /\ p # b => u[p] # NoNode /\ ~IsBinary(u[p]) /\ DOMAIN u[p].next = {From(b, Len(p))}
      BY <1>5, <1>6, <1>10
    <2>4. /\ Len(Toward(key, b)) < MaxHeight =>
               /\ u[Toward(key, b)] # NoNode /\ ~IsBinary(u[Toward(key, b)])
               /\ DOMAIN u[Toward(key, b)].next = {From(key, Len(Toward(key, b)))}
          /\ Away(key, b) # e =>
               /\ u[Away(key, b)] # NoNode /\ ~IsBinary(u[Away(key, b)])
               /\ DOMAIN u[Away(key, b)].next = {From(e, Len(Away(key, b)))}
      BY <1>2, <1>7, <1>8, <1>10
    <2> QED BY <1>2, <1>9, <2>1, <2>2, <2>3, <2>4, ShapeSplit
  <1> QED BY <1>10, <1>11

LEMMA SetSplitsEdgeIs ==
  ASSUME ShapeInv, SetSplitsEdge
  PROVE  \E p, b, e, t, a : SplitStep(p, b, e, t, a) /\ p = LastPath
  <1>1. /\ Setting /\ current_nodes_heights # << >> /\ IsEdge(LastNode) /\ pc = "Finish"
        /\ BranchHeight(LastNode) # MaxHeight
        /\ nodes' = SplitEdge(LastNode, LastPath, args.key, args.value)
        /\ death_row' = death_row \cup SplitDeathRow(LastPath)
        /\ SetLeafInCache /\ UNCHANGED root_node
        /\ Return /\ UNCHANGED <<db, commit, failed>>
    BY DEF SetSplitsEdge, FinishSetFrame, Setting
  <1>2. PICK p : p = LastPath
    OBVIOUS
  <1>3. PICK b : b = First(args.key, BranchHeight(LastNode))
    OBVIOUS
  <1>4. PICK e : e = LastPath \o EdgePath(LastNode)
    OBVIOUS
  <1>5. SplitAt(p, b, e)
    BY <1>1, <1>2, <1>3, <1>4, SplitPlace
  <1>6. \A k \in Key : Pending'[k] # None <=> Pending[k] # None \/ k = args.key
    <2>1. flat_db' = flat_db /\ pc' = "Idle"
      BY <1>1 DEF Return, db
    <2> QED BY <1>1, <2>1, SetKeys
  <1>7. Parting(Pending, Pending', args.key, b) /\ Passes(Pending, b, p, e)
    BY <1>1, <1>2, <1>4, <1>5, <1>6, SplitParting
  <1>8. /\ nodes[p] = LastNode /\ LastNode # NoNode /\ IsNodeAt(LastNode, p) /\ p \in Path
    BY <1>1, <1>2, LastIs
  <1>9. EdgePath(LastNode) \in Path
    BY <1>1, <1>8, EdgeLabel
  <1>10. SplitInto(p, b, e)
    BY <1>1, <1>2, <1>4, <1>5, <1>7, <1>9, SplitNodes
  <1>11. PICK t, a : t = Toward(args.key, b) /\ a = Away(args.key, b)
    OBVIOUS
  <1>12. args.value \in Felt
    BY DEF ShapeInv, TInv, TypeOK
  <1>13. SplitStep(p, b, e, t, a)
    BY <1>1, <1>2, <1>4, <1>7, <1>8, <1>10, <1>11, <1>12 DEF SplitStep
  <1> QED BY <1>2, <1>13

LEMMA SetSplitsEdgeShape ==
  ASSUME ShapeInv, SetSplitsEdge
  PROVE  ShapeInv'
  <1>1. /\ pc = "Finish" /\ death_row' = death_row \cup SplitDeathRow(LastPath)
        /\ UNCHANGED root_node /\ Return /\ UNCHANGED <<db, commit, failed>>
    BY DEF SetSplitsEdge, FinishSetFrame, Setting
  <1>2. PICK p, b, e, t, a : SplitStep(p, b, e, t, a) /\ p = LastPath
    BY SetSplitsEdgeIs
  <1>8. p \in Path /\ nodes[p] # NoNode
    BY <1>2, SplitGeometry DEF SplitStep
  <1>13. SplitStep(p, b, e, t, a)
    BY <1>2
  <1>14. HasShapeOf(View, Pending)'
    <2>1. UNCHANGED <<trie_db, updates>> /\ updates = NoUpdates
      BY <1>1 DEF ShapeInv, PhaseInv, db, commit
    <2>2. death_row' \subseteq death_row \cup {p} /\ death_row \subseteq death_row'
      BY <1>1, <1>2 DEF SplitDeathRow
    <2> QED BY <1>13, <2>1, <2>2, SplitView
  <1>15. LinkInv' /\ AboveInv'
    BY <1>13, <1>14, SplitLinks, SplitAbove
  <1>16. TInv'
    BY SetSplitsEdgeTInv DEF ShapeInv
  <1>17. nodes[<< >>] # NoNode /\ nodes'[<< >>] # NoNode /\ root_node = "Loaded"
    <2>1. nodes[<< >>] # NoNode
      BY <1>8, RootInMemory
    <2>2. HasNode(Pending, << >>)
      BY <2>1, RootInPath, NodeInMemory
    <2>3. nodes'[<< >>] # NoNode
      BY <1>13, <2>1, <2>2, RootInPath, SplitPresence
    <2>4. root_node = "Loaded"
      BY <1>1, <2>1 DEF ShapeInv, RootInv
    <2> QED BY <2>1, <2>3, <2>4
  <1> QED BY <1>1, <1>14, <1>15, <1>16, <1>17, FinishShape

(***************************************************************************)
(* The steps that take a leaf out                                          *)
(***************************************************************************)
LEMMA DeleteKeys ==
  ASSUME ShapeInv, Deleting
  PROVE  /\ Removing /\ Pending[args.key] # None /\ args.key \in Key
         /\ UNCHANGED <<flat_db, cache_leaf_modified>> /\ pc' = "Idle" =>
              /\ \A k \in Key : Pending[k] # None <=> Pending'[k] # None \/ k = args.key
              /\ Pending'[args.key] = None
  <1>1. Removing
    BY DEF Deleting, Removing
  <1>2. args.key \in Key /\ ZERO # None
    <2>1. args.key \in Key
      BY DEF ShapeInv, TInv, TypeOK
    <2>2. ZERO \in Felt
      BY DEF ZERO, Felt
    <2> QED BY <2>1, <2>2
  <1>3. Pending[args.key] = ZERO
    BY <1>1, <1>2 DEF Pending
  <1>4. ASSUME UNCHANGED <<flat_db, cache_leaf_modified>>, pc' = "Idle"
        PROVE  \A k \in Key : Pending'[k] = get(k)
    <2>1. ~Removing'
      BY <1>4 DEF Removing
    <2>2. \A k \in Key : get(k)' = get(k)
      BY <1>4 DEF get
    <2> QED BY <2>1, <2>2 DEF Pending
  <1>5. \A k \in Key : k # args.key => Pending[k] = get(k)
    BY DEF Pending
  <1>6. get(args.key) = None
    BY <1>1 DEF ShapeInv, PhaseInv
  <1> QED BY <1>1, <1>2, <1>3, <1>4, <1>5, <1>6

\* A leaf that is to be removed was found.
LEMMA DeleteSeeks ==
  ASSUME ShapeInv, Deleting
  PROVE  current_nodes_heights # << >>
  <1>1. ASSUME current_nodes_heights = << >> PROVE FALSE
    <2>1. View[<< >>] = NoNode
      BY <1>1 DEF ShapeInv, WayInv, Deleting
    <2>2. Pending[args.key] = None
      BY <2>1, DeleteKeys, NoRoot DEF ShapeInv
    <2> QED BY <2>2, DeleteKeys
  <1> QED BY <1>1

\* The key passes through every node the iterator went through.
LEMMA KeyThrough ==
  ASSUME ShapeInv, Deleting, NEW h \in 0..(MaxHeight - 1), NEW p, p = First(args.key, h)
  PROVE  /\ p \in Path /\ Len(p) = h /\ IsPrefixOf(p, args.key) /\ args.key \in Through(Pending, p)
         /\ nodes[p] # NoNode /\ IsEdge(nodes[p]) =>
               /\ IsPrefixOf(p \o EdgePath(nodes[p]), args.key)
               /\ p \o EdgePath(nodes[p]) = First(args.key, h + Len(EdgePath(nodes[p])))
               /\ h + Len(EdgePath(nodes[p])) <= MaxHeight
               /\ EdgePath(nodes[p]) \in Labels(Pending, p)
               /\ EdgeTo(Pending, p, p \o EdgePath(nodes[p]))
               /\ PathMatches(EdgePath(nodes[p]), args.key, h)
  <1>1. PICK key : key = args.key
    OBVIOUS
  <1>2. key \in Key /\ Pending[key] # None /\ key \in Path /\ Len(key) = MaxHeight /\ key \in Seq(Bit)
    BY <1>1, DeleteKeys, KeyInPath, KeySeq
  <1>3. h \in 0..MaxHeight /\ h \in Nat
    OBVIOUS
  <1>4. p \in Path /\ Len(p) = h /\ p = First(key, h)
    BY <1>1, <1>2, <1>3, FirstOfKey
  <1>5. IsPrefixOf(p, key)
    BY <1>2, <1>4 DEF IsPrefixOf
  <1>6. key \in Through(Pending, p)
    BY <1>2, <1>5 DEF Through
  <1>7. ASSUME nodes[p] # NoNode, IsEdge(nodes[p])
        PROVE  /\ IsPrefixOf(p \o EdgePath(nodes[p]), key)
               /\ p \o EdgePath(nodes[p]) = First(key, h + Len(EdgePath(nodes[p])))
               /\ h + Len(EdgePath(nodes[p])) <= MaxHeight
               /\ EdgePath(nodes[p]) \in Labels(Pending, p)
               /\ EdgeTo(Pending, p, p \o EdgePath(nodes[p]))
               /\ PathMatches(EdgePath(nodes[p]), key, h)
    <2>1. PICK l : l = EdgePath(nodes[p])
      OBVIOUS
    <2>2. PICK e : e = p \o l
      OBVIOUS
    <2>3. View[p] = nodes[p] /\ IsNodeAt(nodes[p], p)
      BY <1>4, <1>7, NodeInMemory
    <2>4. l \in Labels(Pending, p) /\ EdgeTo(Pending, p, e)
      BY <1>4, <1>7, <2>1, <2>2, <2>3, EdgeInMemory
    <2>5. e \in Path /\ Through(Pending, e) = Through(Pending, p)
      BY <2>4 DEF EdgeTo
    <2>6. IsPrefixOf(e, key)
      BY <1>6, <2>5 DEF Through
    <2>7. l \in Path /\ l \in Seq(Bit) /\ p \in Seq(Bit) /\ e \in Seq(Bit)
      BY <1>4, <1>7, <2>1, <2>3, <2>5, EdgeLabel, PathSeq
    <2>8. Len(l) \in Nat /\ Len(e) = h + Len(l) /\ Len(e) <= MaxHeight
          /\ \A i \in 1..Len(l) : e[h + i] = l[i]
      <3>1. /\ Len(p \o l) = Len(p) + Len(l)
            /\ \A i \in 1..Len(l) : (p \o l)[Len(p) + i] = l[i]
        BY <2>7, ConcatSeq
      <3>2. Len(l) \in Nat /\ Len(e) <= MaxHeight
        BY <2>5, <2>7, PathSeq
      <3> QED BY <1>4, <2>2, <3>1, <3>2
    <2>9. e = First(key, h + Len(l))
      BY <2>6, <2>8 DEF IsPrefixOf
    <2>10. \A i \in 1..Len(e) : e[i] = key[i]
      BY <1>2, <2>6, <2>7, PrefixIs
    <2>11. PathMatches(l, key, h)
      <3> SUFFICES ASSUME NEW i \in 1..Len(l), h + i <= Len(key)
                   PROVE  BitMatches(l, key, h, i)
        BY DEF PathMatches
      <3>1. h + i \in 1..Len(e)
        BY <1>3, <2>8
      <3>2. l[i] = key[h + i]
        BY <2>8, <2>10, <3>1
      <3> QED BY <2>8, <3>2 DEF BitMatches
    <2> QED BY <2>1, <2>2, <2>4, <2>6, <2>8, <2>9, <2>11
  <1> QED BY <1>1, <1>4, <1>5, <1>6, <1>7

\* A last edge ends at the leaf that is removed.
LEMMA FinalEdgeIs ==
  ASSUME ShapeInv, Deleting, FinalEdge
  PROVE  /\ FinalEdgePath = LastPath /\ LastPath \o EdgePath(LastNode) = args.key
         /\ EdgeTo(Pending, LastPath, args.key) /\ ~Branches(Pending, LastPath)
  <1>1. current_nodes_heights # << >> /\ IsEdge(LastNode) /\ pc = "Finish"
    BY DEF FinalEdge, Deleting
  <1>2. PICK p : p = LastPath
    OBVIOUS
  <1>3. PICK h : h = LastHeight
    OBVIOUS
  <1>4. /\ h \in 0..(MaxHeight - 1) /\ p = First(args.key, h) /\ nodes[p] = LastNode
        /\ LastNode # NoNode /\ args.key \in Key /\ p \in Path
    BY <1>1, <1>2, <1>3, LastIs
  <1>5. PICK l : l = EdgePath(LastNode)
    OBVIOUS
  <1>6. /\ p \o l = First(args.key, h + Len(l)) /\ h + Len(l) <= MaxHeight
        /\ EdgeTo(Pending, p, p \o l) /\ PathMatches(l, args.key, h)
    BY <1>1, <1>4, <1>5, KeyThrough
  <1>7. h + Len(l) = MaxHeight
    BY <1>1, <1>3, <1>5, <1>6 DEF ShapeInv, WayInv
  <1>8. p \o l = args.key
    BY <1>4, <1>6, <1>7, WholeKey
  <1>9. View[p] = LastNode
    BY <1>4, NodeInMemory
  <1>10. ~Branches(Pending, p)
    BY <1>1, <1>4, <1>9, EdgeInMemory
  <1>11. MaxHeight - Len(l) = h
    <2>1. l \in Seq(Bit)
      BY <1>1, <1>4, <1>5, NodeInMemory, EdgeLabel, PathSeq
    <2>2. Len(l) \in Nat
      BY <2>1
    <2> QED BY <1>4, <1>7, <2>2
  <1>12. FinalEdgePath = p
    BY <1>4, <1>5, <1>11 DEF FinalEdgePath
  <1> QED BY <1>2, <1>5, <1>6, <1>8, <1>10, <1>12

\* No binary node above the leaf: it was the only one.
LEMMA DeleteLastLeafShape ==
  ASSUME ShapeInv, DeleteLastLeaf
  PROVE  ShapeInv'
  <1>1. /\ Deleting /\ BranchHeights = << >> /\ pc = "Finish" /\ root_node' = "Empty"
        /\ Return /\ UNCHANGED <<db, commit, failed>> /\ UNCHANGED cache_leaf_modified
        /\ nodes' = [p \in Path |->
             IF (FinalEdge /\ p = LastPath) \/ (root_node = "Loaded" /\ p = << >>)
             THEN NoNode ELSE nodes[p]]
        /\ << >> \in death_row' /\ death_row \subseteq death_row'
    BY DEF DeleteLastLeaf, FinishDeleteFrame, Deleting
  <1>2. current_nodes_heights # << >>
    BY <1>1, DeleteSeeks
  <1>3. FinalEdge /\ Len(current_nodes_heights) = 1
    <2>1. FinalEdge
      BY <1>1, <1>2 DEF BranchHeights
    <2>2. Len(BranchHeights) + 1 = Len(current_nodes_heights)
      BY <1>1, <2>1, BranchHeightsType DEF ShapeInv
    <2> QED BY <1>1, <2>1, <2>2
  <1>4. LastHeight = 0 /\ LastPath = << >>
    <2>1. current_nodes_heights[1] = 0
      BY <1>1, <1>2 DEF ShapeInv, WayInv, Linked
    <2>2. LastHeight = 0
      BY <1>3, <2>1 DEF LastHeight
    <2>3. LastPath \in Path /\ Len(LastPath) = 0
      BY <1>1, <1>2, <2>2, LastIs
    <2>4. LastPath \in Seq(Bit)
      BY <2>3, PathSeq
    <2> QED BY <2>2, <2>3, <2>4
  <1>5. EdgeTo(Pending, << >>, args.key)
    BY <1>1, <1>3, <1>4, FinalEdgeIs
  <1>6. /\ args.key \in Key /\ Pending[args.key] # None /\ Len(args.key) = MaxHeight
        /\ \A k \in Key : Pending[k] # None <=> Pending'[k] # None \/ k = args.key
        /\ Pending'[args.key] = None
    <2>1. UNCHANGED <<flat_db, cache_leaf_modified>> /\ pc' = "Idle"
      BY <1>1 DEF db, Return
    <2> QED BY <1>1, <2>1, DeleteKeys, KeySeq
  <1>7. \A k \in Key : Pending[k] # None => k = args.key
    BY <1>5, <1>6, RootEdgeToLeaf
  <1>8. \A k \in Key : Pending[k] # None <=> k = args.key
    BY <1>6, <1>7
  <1>9. \A k \in Key : Pending'[k] = None
    BY <1>6, <1>7
  <1>10. \A p \in Path : p # << >> => View[p] = NoNode
    <2>1. \A p \in Path : ~Branches(Pending, p)
      BY <1>6, <1>8, OnlyKey
    <2>2. ASSUME NEW p \in Path, p # << >> PROVE ~HasNode(Pending, p)
      <3>1. Parent(p) \in Path
        BY <2>2, ParentPathIs
      <3> QED BY <2>1, <2>2, <3>1, HasNodeIs
    <2> QED BY <2>2, NotInView
  <1>11. \A p \in Path : nodes'[p] = NoNode
    <2>1. \A p \in Path : p # << >> => nodes[p] = NoNode
      BY <1>10, NodeInMemory
    <2> QED BY <1>1, <1>3, <1>4, <2>1
  <1>12. \A p \in Path : View'[p] = NoNode
    <2>1. updates' = NoUpdates /\ updates = NoUpdates /\ trie_db' = trie_db
      BY <1>1 DEF ShapeInv, PhaseInv, db, commit
    <2>2. \A p \in Path : View'[p] = DbNode(p)'
      BY <1>11, <2>1 DEF View, NoUpdates
    <2>3. DbNode(<< >>)' = NoNode
      BY <1>1 DEF DbNode
    <2>4. ASSUME NEW p \in Path, p # << >> PROVE DbNode(p)' = NoNode
      <3>1. nodes[p] = NoNode /\ View[p] = NoNode
        BY <1>10, <2>4, NodeInMemory
      <3>2. DbNode(p) = NoNode
        BY <2>1, <3>1, ViewInCall
      <3> QED BY <1>1, <2>1, <3>2 DEF DbNode
    <2> QED BY <2>2, <2>3, <2>4
  <1>13. HasShapeOf(View, Pending)'
    <2>1. PICK m, u : m = Pending' /\ u = View'
      OBVIOUS
    <2>2. HasShapeOf(u, m)
      BY <1>9, <1>12, <2>1, ShapeEmpty
    <2> QED BY <2>1, <2>2
  <1>14. LinkInv' /\ AboveInv'
    BY <1>11 DEF LinkInv, AboveInv
  <1>15. TInv'
    BY DeleteLastLeafTInv DEF ShapeInv
  <1> QED BY <1>1, <1>11, <1>12, <1>13, <1>14, <1>15, RootInPath, FinishShape

LEMMA FirstNext ==
  ASSUME NEW k \in Key, NEW h \in 0..(MaxHeight - 1)
  PROVE  /\ First(k, h) \in Path /\ Len(First(k, h)) = h /\ k[h + 1] \in Bit
         /\ First(k, h + 1) = Append(First(k, h), k[h + 1])
  <1>1. /\ k \in Seq(Bit) /\ Len(k) = MaxHeight /\ h \in 0..MaxHeight /\ h + 1 \in 0..MaxHeight
        /\ h \in Nat /\ h + 1 \in 1..MaxHeight /\ h < MaxHeight
    BY KeySeq
  <1>2. First(k, h) \in Path /\ Len(First(k, h)) = h /\ \A i \in 1..h : First(k, h)[i] = k[i]
    BY <1>1, FirstSeq, FirstOfKey
  <1>3. k[h + 1] \in Bit
    BY <1>1
  <1>4. PICK s : s = Append(First(k, h), k[h + 1])
    OBVIOUS
  <1>5. /\ s \in Path /\ Len(s) = h + 1 /\ s[h + 1] = k[h + 1]
        /\ \A i \in 1..h : s[i] = k[i]
    <2>1. PICK r : r = First(k, h)
      OBVIOUS
    <2>2. r \in Path /\ Len(r) = h /\ Len(r) < MaxHeight /\ \A i \in 1..h : r[i] = k[i]
      BY <1>1, <1>2, <2>1
    <2>3. s = Append(r, k[h + 1])
      BY <1>4, <2>1
    <2>4. /\ s \in Path /\ Len(s) = Len(r) + 1 /\ s[Len(r) + 1] = k[h + 1]
          /\ \A i \in 1..Len(r) : s[i] = r[i]
      BY <1>3, <2>2, <2>3, AppendPath
    <2> QED BY <2>2, <2>4
  <1>6. PICK f : f = First(k, h + 1)
    OBVIOUS
  <1>7. f \in Seq(Bit) /\ Len(f) = h + 1 /\ \A i \in 1..(h + 1) : f[i] = k[i]
    BY <1>1, <1>6, FirstSeq
  <1>8. \A i \in 1..(h + 1) : f[i] = s[i]
    <2> SUFFICES ASSUME NEW i \in 1..(h + 1) PROVE f[i] = s[i]
      OBVIOUS
    <2>1. i \in 1..h \/ i = h + 1
      BY <1>1
    <2> QED BY <1>5, <1>7, <2>1
  <1>9. s \in Seq(Bit)
    BY <1>5, PathSeq
  <1> QED BY <1>2, <1>3, <1>4, <1>5, <1>6, <1>7, <1>8, <1>9, SameSeq

\* The node above the removed leaf, and above its edge, is binary; the way to
\* the leaf turns right below it.
LEMMA BranchIs ==
  ASSUME ShapeInv, Deleting, BranchHeights # << >>
  PROVE  LET k == Len(BranchHeights)
             h == current_nodes_heights[k]
             t == Toward(args.key, BranchPath)
         IN  /\ k \in Nat /\ k >= 1 /\ k <= Len(current_nodes_heights)
             /\ Len(current_nodes_heights) \in Nat
             /\ BranchPath = First(args.key, h) /\ h \in 0..(MaxHeight - 1)
             /\ nodes[BranchPath] # NoNode /\ IsBinary(Branch)
             /\ FinalEdge => LastPath = t /\ FinalEdgePath = t
             /\ ~FinalEdge => t = args.key
  <1>1. PICK hs : hs = current_nodes_heights
    OBVIOUS
  <1>2. PICK k : k = Len(BranchHeights)
    OBVIOUS
  <1>3. /\ BranchHeights \in Seq(0..(MaxHeight - 1)) /\ k <= Len(hs)
        /\ FinalEdge => k + 1 = Len(hs)
        /\ \A i \in 1..k : BranchHeights[i] = hs[i]
    BY <1>1, <1>2, BranchHeightsType DEF ShapeInv
  <1>4. k \in Nat /\ k >= 1
    BY <1>2, <1>3
  <1>5. hs \in Seq(0..(MaxHeight - 1)) /\ Len(hs) \in Nat
    BY <1>1 DEF ShapeInv, TInv, TypeOK
  <1>6. PICK h : h = hs[k]
    OBVIOUS
  <1>7. h \in 0..(MaxHeight - 1) /\ BranchPath = First(args.key, h)
    BY <1>2, <1>3, <1>4, <1>5, <1>6 DEF BranchPath
  <1>8. PICK key : key = args.key
    OBVIOUS
  <1>9. key \in Key
    BY <1>8, DeleteKeys
  <1>10. PICK b : b = First(key, h)
    OBVIOUS
  <1>11. b \in Path /\ Len(b) = h /\ key[h + 1] \in Bit /\ Toward(key, b) = First(key, h + 1)
    BY <1>7, <1>9, <1>10, FirstNext DEF Toward
  <1>12. Linked(hs) /\ Consecutive(hs)
    BY <1>1 DEF ShapeInv, WayInv, TInv, IteratorOnKey, Deleting
  <1>13. nodes[b] # NoNode
    <2>1. NodeAtHeight(hs[k]) # NoNode
      BY <1>3, <1>4, <1>5, <1>12 DEF Linked
    <2> QED BY <1>6, <1>8, <1>10, <2>1 DEF NodeAtHeight
  <1>14. nodes[b] = Branch /\ BranchPath = b /\ IsNodeAt(nodes[b], b)
    BY <1>7, <1>8, <1>10, <1>11, <1>13, NodeInMemory DEF Branch
  <1>15. CASE FinalEdge
    <2>1. LastHeight = hs[k + 1] /\ k \in 1..(Len(hs) - 1)
      BY <1>1, <1>3, <1>4, <1>5, <1>15 DEF LastHeight
    <2>2. LastHeight \in 0..(MaxHeight - 1) /\ LastPath = First(key, LastHeight) /\ LastPath \in Path
          /\ Len(LastPath) = LastHeight
      BY <1>8, <1>15, LastIs DEF FinalEdge, Deleting
    <2>3. FinalEdgePath = LastPath /\ ~Branches(Pending, LastPath)
      BY <1>15, FinalEdgeIs
    <2>4. IsBinary(nodes[b])
      <3> SUFFICES ASSUME IsEdge(nodes[b]) PROVE FALSE
        BY <1>11, <1>14, NodeKind
      <3>1. h + Len(EdgePath(nodes[b])) = LastHeight
        <4>1. IsEdge(NodeAtHeight(hs[k]))
          BY <1>6, <1>8, <1>10 DEF NodeAtHeight
        <4>2. hs[k] + Len(EdgePath(NodeAtHeight(hs[k]))) = hs[k + 1]
          BY <1>12, <2>1, <4>1 DEF Consecutive
        <4> QED BY <1>6, <1>8, <1>10, <2>1, <4>2 DEF NodeAtHeight
      <3>2. /\ b \o EdgePath(nodes[b]) = First(key, h + Len(EdgePath(nodes[b])))
            /\ EdgeTo(Pending, b, b \o EdgePath(nodes[b]))
        BY <1>7, <1>8, <1>10, <1>13, KeyThrough
      <3>3. EdgeTo(Pending, b, LastPath)
        BY <2>2, <3>1, <3>2
      <3>4. Len(LastPath) = MaxHeight
        BY <2>3, <3>3 DEF EdgeTo
      <3> QED BY <2>2, <3>4
    <2>5. LastHeight = h + 1
      <3>1. IsBinary(NodeAtHeight(hs[k]))
        BY <1>6, <1>8, <1>10, <2>4 DEF NodeAtHeight
      <3> QED BY <1>6, <1>12, <2>1, <3>1 DEF Linked
    <2> QED BY <1>1, <1>2, <1>3, <1>4, <1>5, <1>6, <1>7, <1>8, <1>11, <1>13, <1>14, <1>15, <2>2, <2>3, <2>4, <2>5
  <1>16. CASE ~FinalEdge
    <2>1. BranchHeights = hs /\ k = Len(hs) /\ hs # << >>
      BY <1>1, <1>2, <1>16 DEF BranchHeights
    <2>2. ~IsEdge(LastNode) /\ LastHeight = h
      BY <1>1, <1>6, <1>16, <2>1 DEF FinalEdge, LastHeight
    <2>3. LastNode = nodes[b]
      BY <1>8, <1>10, <2>2 DEF LastNode, LastPath
    <2>4. IsBinary(nodes[b])
      BY <1>11, <1>14, <2>2, <2>3, NodeKind
    <2>5. h + 1 = MaxHeight
      BY <1>1, <2>1, <2>2, <2>3, <2>4 DEF ShapeInv, TInv, IteratorOnKey, Deleting
    <2>6. Toward(key, b) = key
      BY <1>9, <1>11, <2>5, WholeKey
    <2> QED BY <1>1, <1>2, <1>3, <1>4, <1>5, <1>6, <1>7, <1>8, <1>13, <1>14, <1>16, <2>4, <2>6
  <1> QED BY <1>15, <1>16

\* The leaf hangs below t; once it is gone the branch at b goes on to a alone.
DeletesAt(n, b, t, a) ==
    /\ ShapeInv /\ Deleting /\ b = BranchPath
    /\ t = Toward(args.key, b) /\ a = Away(args.key, b)
    /\ Parting(n, Pending, args.key, b)
    /\ nodes[b] = Branch /\ Branch # NoNode /\ IsBinary(Branch)
    /\ DOMAIN Branch.next = Directions /\ Branch.height = Len(b)
    /\ SiblingBit = Invert(args.key[Len(b) + 1]) /\ SiblingPath = a
    /\ SiblingHandle = InMemory <=> nodes[a] # NoNode
    /\ Sibling = View[a]
    /\ FinalEdge => FinalEdgePath = t /\ LastPath = t
    /\ ~FinalEdge => Len(t) = MaxHeight

LEMMA DeletePlace ==
  ASSUME ShapeInv, Deleting, BranchHeights # << >>, NEW n,
         \A k \in Key : Pending[k] # None <=> n[k] # None \/ k = args.key,
         n[args.key] = None
  PROVE  DeletesAt(n, BranchPath, Toward(args.key, BranchPath), Away(args.key, BranchPath))
  <1>1. PICK key : key = args.key
    OBVIOUS
  <1>2. PICK b : b = BranchPath
    OBVIOUS
  <1>3. PICK t : t = Toward(key, b)
    OBVIOUS
  <1>4. PICK a : a = Away(key, b)
    OBVIOUS
  <1>5. PICK bit : bit = key[Len(b) + 1]
    OBVIOUS
  <1>6. PICK h : h = current_nodes_heights[Len(BranchHeights)]
    OBVIOUS
  <1>7. /\ b = First(key, h) /\ h \in 0..(MaxHeight - 1)
        /\ nodes[b] # NoNode /\ IsBinary(Branch)
        /\ FinalEdge => LastPath = t /\ FinalEdgePath = t
        /\ ~FinalEdge => t = key
    BY <1>1, <1>2, <1>3, <1>6, BranchIs
  <1>8. key \in Key /\ key \in Path /\ Len(key) = MaxHeight
    BY <1>1, DeleteKeys, KeyInPath, KeySeq
  <1>9. b \in Path /\ Len(b) = h /\ bit \in Bit /\ IsPrefixOf(b, key)
    BY <1>1, <1>5, <1>7, <1>8, FirstNext, KeyThrough
  <1>10. Len(b) \in Nat /\ Len(b) < MaxHeight /\ Len(b) < Len(key)
    <2>1. h \in 0..(MaxHeight - 1)
      BY <1>7
    <2>2. Len(b) = h
      BY <1>9
    <2> QED BY <1>8, <2>1, <2>2
  <1>11. Invert(bit) \in Bit /\ Invert(bit) # bit
    BY <1>9 DEF Invert, Bit
  <1>12. /\ t \in Path /\ t = b \o <<bit>> /\ IsPrefixOf(b, t) /\ Len(t) = Len(b) + 1
         /\ t = Append(b, bit)
    BY <1>3, <1>5, <1>9, <1>10, AppendPath DEF Toward
  <1>13. /\ a \in Path /\ a = b \o <<Invert(bit)>> /\ IsPrefixOf(b, a) /\ Len(a) = Len(b) + 1
         /\ a = Append(b, Invert(bit))
    BY <1>4, <1>5, <1>9, <1>10, <1>11, AppendPath DEF Away
  <1>14. ~IsPrefixOf(a, key)
    <2>1. \A c \in Bit : IsPrefixOf(Append(b, c), key) => c = bit
      BY <1>5, <1>8, <1>9, <1>10, NextBit
    <2> QED BY <1>11, <1>13, <2>1
  <1>15. nodes[b] = Branch /\ Branch # NoNode
    BY <1>2, <1>7 DEF Branch
  <1>16. /\ HasNode(Pending, b) /\ IsNodeAt(nodes[b], b) /\ Branches(Pending, b)
    BY <1>7, <1>9, <1>15, NodeInMemory
  <1>17. DOMAIN Branch.next = Directions /\ Branch.height = Len(b)
    BY <1>7, <1>9, <1>15, <1>16, BinaryLabels, NodeKind
  <1>18. Through(Pending, a) # {}
    BY <1>9, <1>11, <1>13, <1>16, BranchesIs
  <1>19. Through(n, b) # {}
    <2>1. PICK k : k \in Through(Pending, a)
      BY <1>18
    <2>2. k \in Key /\ Pending[k] # None /\ IsPrefixOf(a, k)
      BY <2>1 DEF Through
    <2>3. k # key /\ n[k] # None
      BY <1>1, <1>14, <2>2
    <2>4. IsPrefixOf(b, k)
      BY <1>9, <1>13, <2>2, KeyInPath, PathPrefixTrans
    <2> QED BY <2>2, <2>3, <2>4 DEF Through
  <1>20. Through(n, t) = {}
    <2> SUFFICES ASSUME NEW k, k \in Through(n, t) PROVE FALSE
      OBVIOUS
    <2>1. k \in Key /\ n[k] # None /\ IsPrefixOf(t, k)
      BY DEF Through
    <2>2. k \in Through(Pending, t) /\ k # key /\ k \in Path /\ Len(k) = MaxHeight
      BY <1>1, <2>1, KeyInPath, KeySeq DEF Through
    <2>3. IsPrefixOf(key, k)
      <3>1. CASE FinalEdge
        <4>1. EdgeTo(Pending, t, key)
          BY <1>1, <1>7, <3>1, FinalEdgeIs
        <4>2. k \in Through(Pending, key)
          BY <2>2, <4>1 DEF EdgeTo
        <4> QED BY <4>2 DEF Through
      <3>2. CASE ~FinalEdge
        BY <1>7, <2>1, <3>2
      <3> QED BY <3>1, <3>2
    <2>4. Len(key) >= Len(k)
      BY <1>8, <2>2
    <2>5. key = k
      BY <1>8, <2>2, <2>3, <2>4, PrefixSame
    <2> QED BY <2>2, <2>5
  <1>21. Parting(n, Pending, key, b)
    BY <1>1, <1>3, <1>8, <1>9, <1>10, <1>19, <1>20 DEF Parting
  <1>22. SiblingBit = Invert(bit)
    BY <1>1, <1>5, <1>17 DEF SiblingBit
  <1>23. SiblingPath = a
    <2>1. (IF FinalEdge THEN FinalEdgePath ELSE args.key) = t
      BY <1>1, <1>7
    <2>2. First(t, Len(t) - 1) = b
      BY <1>9, <1>10, <1>12, ParentAppend DEF Parent
    <2>3. SiblingPath = Append(First(t, Len(t) - 1), SiblingBit)
      BY <2>1 DEF SiblingPath
    <2> QED BY <1>13, <1>22, <2>2, <2>3
  <1>24. SiblingHandle = InMemory <=> nodes[a] # NoNode
    <2>1. <<Invert(bit)>> \in DOMAIN nodes[b].next
      BY <1>11, <1>15, <1>17, BitsInDirections
    <2>2. nodes[b].next[<<Invert(bit)>>] = InMemory <=> nodes[a] # NoNode
      BY <1>7, <1>9, <1>13, <2>1, ArcInMemory
    <2> QED BY <1>15, <1>22, <2>2 DEF SiblingHandle
  <1>25. Sibling = View[a]
    <2>1. updates = NoUpdates
      BY DEF ShapeInv, PhaseInv, Deleting
    <2>2. View[a] = IF nodes[a] # NoNode THEN nodes[a] ELSE DbNode(a)
      BY <1>13, <2>1, ViewInCall
    <2> QED BY <1>23, <1>24, <2>2 DEF Sibling
  <1>26. ~FinalEdge => Len(t) = MaxHeight
    BY <1>7, <1>8
  <1>27. DeletesAt(n, b, t, a)
    BY <1>1, <1>2, <1>3, <1>4, <1>5, <1>7, <1>15, <1>17, <1>21, <1>22, <1>23, <1>24, <1>25, <1>26 DEF DeletesAt
  <1> QED BY <1>1, <1>2, <1>3, <1>4, <1>27

\* Where the edge that replaces the branch ends, and what it points to.
SiblingEnd == IF IsEdge(Sibling) THEN SiblingPath \o EdgePath(Sibling) ELSE SiblingPath

LEMMA DeleteMerges ==
  ASSUME NEW n, NEW b, NEW t, NEW a, DeletesAt(n, b, t, a), NEW e, e = SiblingEnd
  PROVE  /\ ~BranchBroken /\ EdgeTo(n, b, e)
         /\ b \in Path /\ t \in Path /\ a \in Path /\ e \in Path
         /\ IsPrefixOf(b, e) /\ IsPrefixOf(b, a) /\ IsPrefixOf(a, e)
         /\ MergedPath \in Path /\ b \o MergedPath = e
         /\ MergedChild = InMemory <=> nodes[e] # NoNode
         /\ IsEdge(Sibling) <=> a # e
  <1>1. PICK key : key = args.key
    OBVIOUS
  <1>2. PICK bit : bit = Invert(key[Len(b) + 1])
    OBVIOUS
  <1>3. /\ ShapeInv /\ t = Toward(key, b) /\ a = Away(key, b)
        /\ Parting(n, Pending, key, b) /\ nodes[b] = Branch /\ Branch # NoNode
        /\ IsBinary(Branch) /\ DOMAIN Branch.next = Directions
        /\ SiblingBit = bit /\ SiblingPath = a
        /\ SiblingHandle = InMemory <=> nodes[a] # NoNode
        /\ Sibling = View[a]
    BY <1>1, <1>2 DEF DeletesAt
  <1>4. /\ b \in Path /\ Len(b) \in Nat /\ Len(b) < MaxHeight /\ bit \in Bit
        /\ t \in Path /\ a \in Path /\ Len(a) = Len(b) + 1 /\ IsPrefixOf(b, a)
    BY <1>2, <1>3, Turns
  <1>5. a = b \o <<bit>>
    BY <1>2, <1>3, <1>4, AppendPath DEF Away
  <1>6. /\ <<bit>> \in Labels(Pending, b) /\ HasNode(Pending, b) /\ Branches(Pending, b)
        /\ <<bit>> \in Directions
    BY <1>3, <1>4, NodeInMemory, DirectionIs
  <1>7. Len(a) = MaxHeight \/ HasNode(Pending, a)
    <2>1. ArcOf(Pending, b, <<bit>>)
      BY <1>4, <1>6, Arc
    <2>2. Len(a) < MaxHeight => HasNode(Pending, a)
      BY <1>5, <2>1 DEF ArcOf
    <2>3. Len(a) \in Nat /\ Len(a) <= MaxHeight
      BY <1>4, PathLen
    <2>4. Len(a) < MaxHeight \/ Len(a) = MaxHeight
      BY <2>3
    <2> QED BY <2>2, <2>4
  <1>8. ~BranchBroken
    <2>1. nodes[a] # NoNode => View[a] # NoNode
      BY <1>3, <1>4, NodeInMemory
    <2> QED BY <1>3, <2>1 DEF BranchBroken
  <1>9. CASE IsEdge(Sibling)
    <2>1. View[a] # NoNode /\ IsEdge(View[a])
      BY <1>3, <1>9, NotNode
    <2>2. PICK l : l = EdgePath(Sibling)
      OBVIOUS
    <2>3. e = a \o l
      BY <1>3, <1>9, <2>2 DEF SiblingEnd
    <2>4. EdgeTo(Pending, a, e)
      BY <1>3, <1>4, <2>1, <2>2, <2>3, EdgeInMemory
    <2>5. EdgeTo(n, b, e)
      BY <1>3, <2>4, EdgeLess
    <2>6. e \in Path /\ IsPrefixOf(a, e)
      BY <2>4 DEF EdgeTo
    <2>7. IsPrefixOf(b, e)
      BY <1>4, <2>6, PathPrefixTrans
    <2>8. IsNodeAt(Sibling, a)
      BY <1>3, <1>4, <2>1, NodeInView
    <2>9. l \in Path /\ l # << >> /\ l \in DOMAIN Sibling.next
      BY <1>4, <1>9, <2>2, <2>8, EdgeLabel
    <2>10. MergedPath = <<bit>> \o l
      BY <1>3, <1>9, <2>2 DEF MergedPath
    <2>11. /\ b \in Seq(Bit) /\ <<bit>> \in Seq(Bit) /\ l \in Seq(Bit) /\ Len(<<bit>>) = 1
           /\ Len(l) \in Nat
      BY <1>4, <1>6, <2>9, PathSeq, DirectionSeq
    <2>12. MergedPath \in Seq(Bit) /\ b \o MergedPath = e
      <3>1. (b \o <<bit>>) \o l = b \o (<<bit>> \o l)
        BY <2>11, ConcatAssociative
      <3>2. <<bit>> \o l \in Seq(Bit)
        BY <2>11
      <3> QED BY <1>5, <2>3, <2>10, <3>1, <3>2
    <2>13. MergedPath \in Path
      <3>1. Len(b \o MergedPath) = Len(b) + Len(MergedPath) /\ Len(MergedPath) \in Nat
        BY <2>11, <2>12, ConcatSeq
      <3>2. Len(e) \in Nat /\ Len(e) <= MaxHeight
        BY <2>6, PathLen
      <3>3. Len(MergedPath) <= MaxHeight
        BY <1>4, <2>12, <3>1, <3>2
      <3> QED BY <2>12, <3>3, PathSeq
    <2>14. a # e
      <3>1. Len(e) = Len(a) + Len(l) /\ Len(l) # 0
        <4>1. Len(a \o l) = Len(a) + Len(l)
          BY <1>4, <2>11, ConcatSeq, PathSeq
        <4> QED BY <2>3, <2>9, <2>11, <4>1
      <3>2. Len(a) \in Nat
        BY <1>4
      <3> QED BY <2>11, <3>1, <3>2
    <2>15. MergedChild = Sibling.next[l]
      BY <1>9, <2>2 DEF MergedChild, EdgeChild
    <2>16. MergedChild = InMemory <=> nodes[e] # NoNode
      <3>1. CASE nodes[a] # NoNode
        <4>1. View[a] = nodes[a]
          BY <1>3, <1>4, <3>1, NodeInMemory
        <4>2. l \in DOMAIN nodes[a].next
          BY <1>3, <2>9, <4>1
        <4>3. nodes[a].next[l] = InMemory <=> nodes[a \o l] # NoNode
          BY <1>3, <1>4, <3>1, <4>2, ArcInMemory
        <4> QED BY <1>3, <2>3, <2>15, <4>1, <4>3
      <3>2. CASE nodes[a] = NoNode
        <4>1. nodes[e] = NoNode
          BY <1>3, <1>4, <2>1, <2>6, <3>2, NothingBelow
        <4>2. updates = NoUpdates
          BY <1>3 DEF DeletesAt, ShapeInv, PhaseInv, Deleting
        <4>3. View[a] = DbNode(a)
          BY <1>4, <3>2, <4>2, ViewInCall
        <4>4. Sibling = trie_db[a]
          BY <1>3, <2>1, <4>3 DEF DbNode
        <4>5. Sibling \notin {NoNode, NoChange}
          BY <1>4, <2>8, NodeKind
        <4>6. Sibling.next[l] # InMemory
          BY <1>3, <1>4, <2>9, <4>4, <4>5 DEF ShapeInv, StoredInv, Stored
        <4> QED BY <2>15, <4>1, <4>6
      <3> QED BY <3>1, <3>2
    <2> QED BY <1>4, <1>8, <1>9, <2>5, <2>6, <2>7, <2>12, <2>13, <2>14, <2>16
  <1>10. CASE ~IsEdge(Sibling)
    <2>1. e = a
      BY <1>3, <1>10 DEF SiblingEnd
    <2>2. Len(a) = MaxHeight \/ Branches(Pending, a)
      <3>1. ASSUME HasNode(Pending, a) PROVE Branches(Pending, a)
        <4>1. View[a] # NoNode
          BY <1>3, <1>4, <3>1, NotInView
        <4>2. IsNodeAt(View[a], a) /\ IsBinary(View[a]) = Branches(Pending, a)
          BY <1>3, <1>4, <4>1, NodeInView
        <4> QED BY <1>3, <1>4, <1>10, <4>2, NodeKind
      <3> QED BY <1>7, <3>1
    <2>3. EdgeTo(n, b, a)
      BY <1>3, <2>2, EdgeLess
    <2>4. <<bit>> \o << >> = <<bit>>
      BY <1>6, DirectionSeq
    <2>5. MergedPath = <<bit>> /\ MergedChild = SiblingHandle
      BY <1>3, <1>10, <2>4 DEF MergedPath, MergedChild
    <2>6. <<bit>> \in Path
      <3>1. <<bit>> \in Seq(Bit) /\ Len(<<bit>>) = 1
        BY <1>6, DirectionSeq
      <3>2. Len(<<bit>>) <= MaxHeight
        BY <3>1
      <3> QED BY <3>1, <3>2, PathSeq
    <2>7. IsPrefixOf(a, a)
      BY <1>4, PrefixRefl
    <2> QED BY <1>3, <1>4, <1>5, <1>8, <1>10, <2>1, <2>3, <2>5, <2>6, <2>7
  <1> QED BY <1>9, <1>10

\* The edge at p (the branch itself, or the edge above it) is made to end at e.
MergeStep(n, p, b, e, t, a) ==
    /\ ShapeInv /\ Parting(n, Pending, args.key, b) /\ Passes(n, b, p, e)
    /\ t = Toward(args.key, b) /\ a = Away(args.key, b)
    /\ nodes[b] # NoNode /\ nodes[p] # NoNode
    /\ p # b => \E l \in Labels(Pending, p) : p \o l = b
    /\ MergedChild = InMemory <=> nodes[e] # NoNode
    /\ IsEdgeWith(nodes'[p], From(e, Len(p)), MergedChild)
    /\ p # b => nodes'[b] = NoNode /\ b \in death_row'
    /\ nodes'[t] = NoNode /\ (Len(t) = MaxHeight \/ t \in death_row')
    /\ a # e => nodes'[a] = NoNode /\ a \in death_row'
    /\ \A x \in Path : /\ x # p /\ x # b /\ x # t /\ (x = a => x = e)
                       => nodes'[x] = nodes[x] /\ (x \in death_row' <=> x \in death_row)
    /\ updates = NoUpdates /\ updates' = NoUpdates /\ trie_db' = trie_db

LEMMA MergeGeometry ==
  ASSUME NEW n, NEW p, NEW b, NEW e, NEW t, NEW a, MergeStep(n, p, b, e, t, a)
  PROVE  /\ p \in Path /\ b \in Path /\ e \in Path /\ t \in Path /\ a \in Path
         /\ IsPrefixOf(p, e) /\ IsPrefixOf(p, b) /\ IsPrefixOf(b, t) /\ IsPrefixOf(b, a)
         /\ t # a /\ t # b /\ t # p /\ a # b /\ a # p /\ e # b /\ e # p /\ e # t
         /\ HasNode(Pending, b)
         /\ \E l \in Labels(Pending, b) : b \o l = t
         /\ \E l \in Labels(Pending, b) : b \o l = a
  <1>1. PICK key : key = args.key
    OBVIOUS
  <1>2. /\ Parting(n, Pending, key, b) /\ Passes(n, b, p, e)
        /\ t = Toward(key, b) /\ a = Away(key, b)
    BY <1>1 DEF MergeStep
  <1>3. /\ key \in Path /\ b \in Path /\ Len(b) \in Nat /\ Len(b) < MaxHeight
        /\ key[Len(b) + 1] \in Bit /\ Invert(key[Len(b) + 1]) \in Bit
        /\ t \in Path /\ Len(t) = Len(b) + 1 /\ IsPrefixOf(b, t) /\ IsPrefixOf(t, key)
        /\ a \in Path /\ Len(a) = Len(b) + 1 /\ IsPrefixOf(b, a) /\ ~IsPrefixOf(a, key)
    BY <1>2, Turns
  <1>4. /\ p \in Path /\ e \in Path /\ Len(p) \in Nat /\ Len(e) \in Nat
        /\ Len(p) <= Len(b) /\ Len(b) < Len(e)
        /\ IsPrefixOf(p, a) /\ IsPrefixOf(a, e)
    BY <1>2, PassingEdge
  <1>5. IsPrefixOf(p, b) /\ IsPrefixOf(p, e)
    BY <1>2, <1>3, <1>4, PathPrefixTrans DEF Passes
  <1>7. t # a
    BY <1>3
  <1>8. t # b /\ a # b /\ e # b
    <2>1. Len(t) # Len(b) /\ Len(a) # Len(b) /\ Len(e) # Len(b)
      BY <1>3, <1>4
    <2> QED BY <2>1
  <1>9. t # p /\ a # p /\ e # p
    <2>1. Len(t) # Len(p) /\ Len(a) # Len(p) /\ Len(e) # Len(p)
      BY <1>3, <1>4
    <2> QED BY <2>1
  <1>10. e # t
    <2>1. ASSUME e = t PROVE FALSE
      <3>1. Len(a) >= Len(t)
        BY <1>3
      <3>2. IsPrefixOf(a, t)
        BY <1>4, <2>1
      <3>3. a = t
        BY <1>3, <3>1, <3>2, PrefixSame
      <3> QED BY <1>7, <3>3
    <2> QED BY <2>1
  <1>11. Branches(Pending, b) /\ HasNode(Pending, b)
    BY <1>2, <1>3, BranchesMore, HasNodeMore
  <1>12. PICK c, d : c = key[Len(b) + 1] /\ d = Invert(key[Len(b) + 1])
    OBVIOUS
  <1>15. <<c>> \in Directions /\ <<d>> \in Directions
    BY <1>3, <1>12 DEF Bit, Directions
  <1>16. t = b \o <<c>> /\ a = b \o <<d>>
    BY <1>2, <1>3, <1>12, AppendPath DEF Toward, Away
  <1>17. Labels(Pending, b) = Directions
    BY <1>11 DEF Labels
  <1>13. \E l \in Labels(Pending, b) : b \o l = t
    BY <1>15, <1>16, <1>17
  <1>14. \E l \in Labels(Pending, b) : b \o l = a
    BY <1>15, <1>16, <1>17
  <1> QED BY <1>3, <1>4, <1>5, <1>7, <1>8, <1>9, <1>10, <1>11, <1>13, <1>14

LEMMA MergeView ==
  ASSUME NEW n, NEW p, NEW b, NEW e, NEW t, NEW a, MergeStep(n, p, b, e, t, a)
  PROVE  /\ HasShapeOf(View', n)
         /\ p # b => View'[b] = NoNode
         /\ View'[t] = NoNode
         /\ a # e => View'[a] = NoNode
  <1>1. PICK key : key = args.key
    OBVIOUS
  <1>2. /\ Parting(n, Pending, key, b) /\ Passes(n, b, p, e) /\ HasShapeOf(View, Pending)
        /\ t = Toward(key, b) /\ a = Away(key, b) /\ ShapeInv
    BY <1>1 DEF MergeStep, ShapeInv
  <1>3. p \in Path /\ b \in Path /\ e \in Path /\ t \in Path /\ a \in Path
    BY MergeGeometry
  <1>4. \A x \in Path : View'[x] = IF nodes'[x] # NoNode THEN nodes'[x] ELSE DbNode(x)'
    BY DEF MergeStep, View, NoUpdates
  <1>5. \A x \in Path : nodes'[x] = NoNode /\ x \in death_row' => View'[x] = NoNode
    BY <1>4 DEF DbNode
  <1>6. /\ p # b => nodes'[b] = NoNode /\ b \in death_row'
        /\ a # e => nodes'[a] = NoNode /\ a \in death_row'
        /\ nodes'[t] = NoNode /\ (Len(t) = MaxHeight \/ t \in death_row')
        /\ trie_db' = trie_db
    BY DEF MergeStep
  <1>7. p # b => View'[b] = NoNode
    BY <1>3, <1>5, <1>6
  <1>8. View'[t] = NoNode
    <2>1. CASE t \in death_row'
      BY <1>3, <1>5, <1>6, <2>1
    <2>2. CASE Len(t) = MaxHeight
      <3>1. Looks(trie_db, flat_db, t)
        BY <1>2, <1>3, ShapeIs DEF ShapeInv
      <3>2. trie_db[t] = NoNode
        BY <1>3, <2>2, <3>1, HasNodeIs DEF Looks
      <3> QED BY <1>3, <1>4, <1>6, <3>2 DEF DbNode
    <2> QED BY <1>6, <2>1, <2>2
  <1>9. a # e => View'[a] = NoNode
    BY <1>3, <1>5, <1>6
  <1>10. ASSUME NEW x \in Path, x # p, x # b, x # t, x = a => x = e
        PROVE  View'[x] = View[x]
    <2>1. nodes'[x] = nodes[x] /\ (x \in death_row' <=> x \in death_row)
      BY <1>10 DEF MergeStep
    <2>2. View[x] = IF nodes[x] # NoNode THEN nodes[x] ELSE DbNode(x)
      BY ViewInCall DEF MergeStep
    <2> QED BY <1>4, <1>6, <2>1, <2>2 DEF DbNode
  <1>11. View'[p] # NoNode /\ ~IsBinary(View'[p]) /\ DOMAIN View'[p].next = {From(e, Len(p))}
    <2>1. IsEdgeWith(nodes'[p], From(e, Len(p)), MergedChild)
      BY DEF MergeStep
    <2> QED BY <1>4, <1>3, <2>1 DEF IsEdgeWith
  <1>12. PICK u : u = View'
    OBVIOUS
  <1>13. \A x \in Path : /\ x # p /\ x # b /\ x # Toward(key, b)
                         /\ x = Away(key, b) => x = e
                         => u[x] = View[x]
    BY <1>2, <1>10, <1>12
  <1>14. /\ u[p] # NoNode /\ ~IsBinary(u[p]) /\ DOMAIN u[p].next = {From(e, Len(p))}
         /\ p # b => u[b] = NoNode
         /\ u[Toward(key, b)] = NoNode
         /\ Away(key, b) # e => u[Away(key, b)] = NoNode
    BY <1>2, <1>7, <1>8, <1>9, <1>11, <1>12
  <1>15. HasShapeOf(u, n)
    BY <1>2, <1>13, <1>14, <1>3, ShapeMerge
  <1> QED BY <1>7, <1>8, <1>9, <1>12, <1>15

LEMMA MergeLinks ==
  ASSUME NEW n, NEW p, NEW b, NEW e, NEW t, NEW a, MergeStep(n, p, b, e, t, a)
  PROVE  LinkInv'
  <1>1. /\ p \in Path /\ b \in Path /\ e \in Path /\ t \in Path /\ a \in Path
        /\ e # b /\ e # p /\ e # t /\ IsPrefixOf(p, e)
    BY MergeGeometry
  <1>2. nodes'[e] = nodes[e]
    BY <1>1 DEF MergeStep
  <1>3. ASSUME NEW x \in Path, nodes'[x] # NoNode, NEW l \in DOMAIN nodes'[x].next
        PROVE  nodes'[x].next[l] = InMemory <=> nodes'[x \o l] # NoNode
    <2>1. CASE x = p
      <3>1. IsEdgeWith(nodes'[p], From(e, Len(p)), MergedChild)
        BY DEF MergeStep
      <3>2. p \o From(e, Len(p)) = e
        BY <1>1, PathRest
      <3>3. l = From(e, Len(p)) /\ nodes'[x].next[l] = MergedChild
        BY <1>3, <2>1, <3>1 DEF IsEdgeWith
      <3>4. MergedChild = InMemory <=> nodes[e] # NoNode
        BY DEF MergeStep
      <3> QED BY <1>2, <2>1, <3>2, <3>3, <3>4
    <2>2. CASE x # p
      <3>1. x # b /\ x # t /\ (x = a => x = e)
        BY <1>3, <2>2 DEF MergeStep
      <3>2. nodes'[x] = nodes[x]
        BY <2>2, <3>1 DEF MergeStep
      <3>3. nodes[x] # NoNode /\ l \in DOMAIN nodes[x].next /\ ShapeInv
        BY <1>3, <3>2 DEF MergeStep
      <3>4. /\ ArcOf(Pending, x, l) /\ HasNode(Pending, x) /\ l \in Labels(Pending, x)
            /\ nodes[x].next[l] = InMemory <=> nodes[x \o l] # NoNode
        BY <3>3, ArcInMemory, NodeInMemory
      <3>5. PICK y : y = x \o l
        OBVIOUS
      <3>6. y \in Path
        BY <3>4, <3>5 DEF ArcOf
      <3>7. y # t
        <4>1. ASSUME y = t PROVE FALSE
          <5>1. PICK j \in Labels(Pending, b) : b \o j = t
            BY MergeGeometry
          <5>2. HasNode(Pending, b)
            BY MergeGeometry
          <5>3. b \o j = x \o l
            BY <3>5, <4>1, <5>1
          <5>4. b = x
            BY <1>1, <3>4, <5>2, <5>3, ArcUnique
          <5> QED BY <3>1, <5>4
        <4> QED BY <4>1
      <3>8. y # a
        <4>1. ASSUME y = a PROVE FALSE
          <5>1. PICK j \in Labels(Pending, b) : b \o j = a
            BY MergeGeometry
          <5>2. HasNode(Pending, b)
            BY MergeGeometry
          <5>3. b \o j = x \o l
            BY <3>5, <4>1, <5>1
          <5>4. b = x
            BY <1>1, <3>4, <5>2, <5>3, ArcUnique
          <5> QED BY <3>1, <5>4
        <4> QED BY <4>1
      <3>9. y = b => p = b
        <4>1. ASSUME y = b, p # b PROVE FALSE
          <5>1. PICK j \in Labels(Pending, p) : p \o j = b
            BY <4>1 DEF MergeStep
          <5>2. HasNode(Pending, p)
            BY <1>1, <3>3, NodeInMemory DEF MergeStep
          <5>3. p \o j = x \o l
            BY <3>5, <4>1, <5>1
          <5>4. p = x
            BY <1>1, <3>4, <5>2, <5>3, ArcUnique
          <5> QED BY <2>2, <5>4
        <4> QED BY <4>1
      <3>10. nodes'[y] # NoNode <=> nodes[y] # NoNode
        <4>1. CASE y = p
          BY <4>1 DEF MergeStep, IsEdgeWith
        <4>2. CASE y # p
          BY <3>6, <3>7, <3>8, <3>9, <4>2 DEF MergeStep
        <4> QED BY <4>1, <4>2
      <3> QED BY <3>2, <3>4, <3>5, <3>10
    <2> QED BY <2>1, <2>2
  <1> QED BY <1>3 DEF LinkInv, LinkedAt

LEMMA MergeAbove ==
  ASSUME NEW n, NEW p, NEW b, NEW e, NEW t, NEW a, MergeStep(n, p, b, e, t, a)
  PROVE  AboveInv' /\ nodes'[<< >>] # NoNode
  <1> USE MergeGeometry
  <1>1. nodes'[p] # NoNode /\ nodes[p] # NoNode /\ ShapeInv
    BY DEF MergeStep, IsEdgeWith
  <1>2. ASSUME NEW x \in Path, NEW q \in Path, nodes'[q] # NoNode, IsPrefixOf(x, q),
               View'[x] # NoNode
        PROVE  nodes'[x] # NoNode
    <2>1. HasNode(n, x)
      <3>1. HasShapeOf(View', n)
        BY MergeView
      <3>2. Looks(View', n, x)
        BY <3>1, ShapeIs
      <3> QED BY <1>2, <3>2 DEF Looks
    <2>2. HasNode(Pending, x)
      <3>1. PICK key : key = args.key
        OBVIOUS
      <3>2. Parting(n, Pending, key, b)
        BY <3>1 DEF MergeStep
      <3> QED BY <2>1, <3>2, HasNodeMore
    <2>3. View[x] # NoNode
      BY <1>1, <2>2, NotInView
    <2>4. nodes[q] # NoNode
      <3>1. CASE q = p
        BY <1>1, <3>1
      <3>2. CASE q # p
        <4>1. q # b /\ q # t /\ (q = a => q = e)
          BY <1>2, <3>2 DEF MergeStep
        <4>2. nodes'[q] = nodes[q]
          BY <3>2, <4>1 DEF MergeStep
        <4> QED BY <1>2, <4>2
      <3> QED BY <3>1, <3>2
    <2>5. nodes[x] # NoNode
      BY <1>1, <1>2, <2>3, <2>4 DEF ShapeInv, AboveInv
    <2>6. CASE x = p
      BY <1>1, <2>6
    <2>7. CASE x # p
      <3>1. x # b /\ x # t /\ (x = a => x = e)
        BY <1>2, <2>7, MergeView
      <3>2. nodes'[x] = nodes[x]
        BY <2>7, <3>1 DEF MergeStep
      <3> QED BY <2>5, <3>2
    <2> QED BY <2>6, <2>7
  <1>3. nodes'[<< >>] # NoNode
    <2>1. HasNode(n, p)
      BY DEF MergeStep, Passes
    <2>2. HasNode(n, << >>)
      BY <2>1, RootNode DEF HasNode
    <2>3. HasShapeOf(View', n)
      BY MergeView
    <2>4. Looks(View', n, << >>)
      BY <2>3, ShapeIs, RootInPath
    <2>5. View'[<< >>] # NoNode
      BY <2>2, <2>4 DEF Looks
    <2>6. IsPrefixOf(<< >>, p)
      BY EmptyPrefix, PathSeq
    <2> QED BY <1>1, <1>2, <2>5, <2>6, RootInPath
  <1> QED BY <1>2, <1>3 DEF AboveInv

\* What is above the branch: nothing, a binary node, or an edge that ends there.
LEMMA ParentIs ==
  ASSUME NEW n, NEW b, NEW t, NEW a, DeletesAt(n, b, t, a), BranchHeights # << >>
  PROVE  /\ ~MergeIntoParent => HasNode(n, b)
         /\ MergeIntoParent =>
              /\ ParentPath \in Path /\ nodes[ParentPath] # NoNode
              /\ EdgePath(nodes[ParentPath]) \in Labels(Pending, ParentPath)
              /\ EdgePath(nodes[ParentPath]) \in Path
              /\ ParentPath \o EdgePath(nodes[ParentPath]) = b
              /\ EdgeTo(Pending, ParentPath, b) /\ ParentPath # b
              /\ HasNode(n, ParentPath) /\ ~Branches(n, ParentPath)
  <1>1. PICK key : key = args.key
    OBVIOUS
  <1>2. /\ ShapeInv /\ Deleting /\ Parting(n, Pending, key, b) /\ b = BranchPath
        /\ t = Toward(key, b) /\ a = Away(key, b)
    BY <1>1 DEF DeletesAt
  <1>3. PICK hs : hs = current_nodes_heights
    OBVIOUS
  <1>4. PICK k : k = Len(BranchHeights)
    OBVIOUS
  <1>5. PICK h : h = hs[k]
    OBVIOUS
  <1>6. /\ k \in Nat /\ k >= 1 /\ k <= Len(hs) /\ Len(hs) \in Nat
        /\ b = First(key, h) /\ h \in 0..(MaxHeight - 1)
    BY <1>1, <1>2, <1>3, <1>4, <1>5, BranchIs
  <1>7. key \in Key /\ b \in Path /\ Len(b) = h
    BY <1>1, <1>2, <1>6, DeleteKeys, FirstNext
  <1>8. Linked(hs) /\ Consecutive(hs) /\ hs \in Seq(0..(MaxHeight - 1))
    BY <1>2, <1>3 DEF ShapeInv, WayInv, TInv, IteratorOnKey, Deleting, TypeOK
  <1>9. CASE k = 1
    <2>1. ~MergeIntoParent
      BY <1>4, <1>9 DEF MergeIntoParent
    <2>2. hs # << >>
      BY <1>6, <1>8
    <2>3. h = 0
      BY <1>5, <1>8, <1>9, <2>2 DEF Linked
    <2>4. b \in Seq(Bit) /\ Len(b) = 0
      BY <1>7, <2>3, PathSeq
    <2>5. b = << >>
      BY <2>4
    <2>6. HasNode(n, b)
      BY <1>2, <1>7, <2>5, HasNodeMore
    <2> QED BY <2>1, <2>6
  <1>10. CASE k > 1
    <2>1. PICK i : i = k - 1
      OBVIOUS
    <2>2. i \in 1..k /\ i \in 1..(Len(hs) - 1) /\ i + 1 = k /\ i \in 1..Len(hs)
      BY <1>6, <1>10, <2>1
    <2>3. PICK g : g = hs[i]
      OBVIOUS
    <2>4. g \in 0..(MaxHeight - 1)
      BY <1>8, <2>2, <2>3
    <2>5. PICK p : p = First(key, g)
      OBVIOUS
    <2>6. ParentPath = p
      <3>1. BranchHeights[i] = hs[i]
        BY <1>2, <1>3, <1>4, <2>2, BranchHeightsType DEF ShapeInv
      <3> QED BY <1>1, <1>4, <2>1, <2>3, <2>5, <3>1 DEF ParentPath
    <2>7. p \in Path /\ Len(p) = g
      BY <1>7, <2>4, <2>5, FirstNext
    <2>8. NodeAtHeight(hs[i]) = nodes[p] /\ nodes[p] # NoNode
      BY <1>1, <1>8, <2>2, <2>3, <2>5 DEF Linked, NodeAtHeight
    <2>9. g < h
      BY <1>5, <1>6, <1>8, <2>2, <2>3 DEF Consecutive
    <2>10. Len(p) \in Nat /\ Len(p) < Len(b) /\ Len(b) \in Nat /\ p # b
      BY <1>6, <1>7, <2>4, <2>7, <2>9
    <2>11. MergeIntoParent <=> IsEdge(nodes[p])
      BY <1>4, <1>6, <1>10, <2>6 DEF MergeIntoParent
    <2>12. /\ HasNode(Pending, p) /\ IsNodeAt(nodes[p], p) /\ IsBinary(nodes[p]) = Branches(Pending, p)
      BY <1>2, <2>7, <2>8, NodeInMemory
    <2>13. CASE IsEdge(nodes[p])
      <3>1. PICK l : l = EdgePath(nodes[p])
        OBVIOUS
      <3>2. /\ p \o l = First(key, g + Len(l)) /\ l \in Labels(Pending, p)
            /\ EdgeTo(Pending, p, p \o l)
        BY <1>1, <1>2, <2>4, <2>5, <2>8, <2>13, <3>1, KeyThrough
      <3>3. g + Len(l) = h
        <4>1. hs[i] + Len(EdgePath(NodeAtHeight(hs[i]))) = hs[i + 1]
          BY <1>8, <2>2, <2>8, <2>13 DEF Consecutive
        <4> QED BY <1>5, <2>2, <2>3, <2>8, <3>1, <4>1
      <3>4. p \o l = b
        BY <1>6, <3>2, <3>3
      <3>5. l \in Path
        BY <2>7, <2>12, <2>13, <3>1, EdgeLabel
      <3>6. ~Branches(Pending, p)
        BY <2>7, <2>12, <2>13, NodeKind
      <3>7. ~Branches(n, p)
        BY <1>2, <2>7, <2>10, <3>6, BranchesMore
      <3>8. Len(t) = Len(b) + 1 /\ Len(a) = Len(b) + 1
        BY <1>2, Turns
      <3>9. p # t /\ p # a
        <4>1. Len(p) # Len(t) /\ Len(p) # Len(a)
          BY <2>10, <3>8
        <4> QED BY <4>1
      <3>10. HasNode(n, p)
        <4>1. \/ HasNode(n, p) \/ p = b
              \/ p \in {Toward(key, b), Away(key, b)} /\ Len(p) < MaxHeight
          BY <1>2, <2>7, <2>12, HasNodeMore
        <4> QED BY <1>2, <2>10, <3>9, <4>1
      <3> QED BY <2>6, <2>7, <2>8, <2>10, <2>11, <2>13, <3>1, <3>2, <3>4, <3>5, <3>7, <3>10
    <2>14. CASE ~IsEdge(nodes[p])
      <3>1. IsBinary(nodes[p]) /\ Branches(Pending, p)
        BY <2>7, <2>12, <2>14, NodeKind
      <3>2. g + 1 = h
        <4>1. hs[i] + 1 = hs[i + 1]
          BY <1>8, <2>2, <2>8, <3>1 DEF Linked
        <4> QED BY <1>5, <2>2, <2>3, <4>1
      <3>3. b = Append(p, key[g + 1]) /\ key[g + 1] \in Bit
        BY <1>6, <1>7, <2>4, <2>5, <3>2, FirstNext
      <3>4. Len(p) < MaxHeight
        BY <2>4, <2>7
      <3>5. Parent(b) = p
        BY <2>7, <3>3, <3>4, ParentAppend
      <3>6. Branches(n, p)
        BY <1>2, <2>7, <2>10, <3>1, BranchesMore
      <3>7. HasNode(n, b)
        BY <1>2, <1>7, <3>5, <3>6, HasNodeMore
      <3> QED BY <2>11, <2>14, <3>7
    <2> QED BY <2>13, <2>14
  <1> QED BY <1>6, <1>9, <1>10

LEMMA MergeShape ==
  ASSUME ShapeInv, pc = "Finish", NEW p, NEW b, NEW e, NEW t, NEW a,
         MergeStep(Pending', p, b, e, t, a), TInv', Return, UNCHANGED <<db, commit, failed>>,
         UNCHANGED root_node
  PROVE  ShapeInv'
  <1>1. LinkInv' /\ AboveInv' /\ nodes'[<< >>] # NoNode
    BY MergeLinks, MergeAbove
  <1>2. HasShapeOf(View, Pending)'
    BY MergeView
  <1>3. nodes[<< >>] # NoNode
    BY MergeGeometry, RootInMemory DEF MergeStep
  <1>4. root_node = "Loaded"
    BY <1>3 DEF ShapeInv, RootInv
  <1> QED BY <1>1, <1>2, <1>4, FinishShape

\* The slots a removal frees, and the paths it puts on death row.
LEMMA Freed ==
  ASSUME NEW n, NEW b, NEW t, NEW a, DeletesAt(n, b, t, a), NEW e, e = SiblingEnd
  PROVE  /\ FreedPaths \subseteq {t, a} /\ DeadPaths \subseteq {t, a}
         /\ a \in FreedPaths \/ a \in DeadPaths => a # e
         /\ nodes[t] # NoNode => t \in FreedPaths
         /\ Len(t) = MaxHeight \/ t \in DeadPaths
         /\ a # e => a \in DeadPaths /\ (nodes[a] # NoNode => a \in FreedPaths)
         /\ t \notin {b} /\ a \notin {b, t}
         /\ First(SiblingPath, Len(SiblingPath) - 1) = b
  <1>1. PICK key : key = args.key
    OBVIOUS
  <1>2. /\ ShapeInv /\ Parting(n, Pending, key, b) /\ t = Toward(key, b) /\ a = Away(key, b)
        /\ SiblingPath = a /\ (SiblingHandle = InMemory <=> nodes[a] # NoNode)
        /\ (FinalEdge => FinalEdgePath = t /\ LastPath = t)
        /\ (~FinalEdge => Len(t) = MaxHeight)
    BY <1>1 DEF DeletesAt
  <1>3. IsEdge(Sibling) <=> a # e
    BY DeleteMerges
  <1>4. /\ t \in Path /\ Len(t) = Len(b) + 1 /\ Len(a) = Len(b) + 1 /\ Len(b) \in Nat
        /\ IsPrefixOf(t, key) /\ ~IsPrefixOf(a, key) /\ Parent(a) = b
    BY <1>2, Turns
  <1>5. t # b /\ a # b /\ a # t
    <2>1. Len(t) # Len(b) /\ Len(a) # Len(b)
      BY <1>4
    <2> QED BY <1>4, <2>1
  <1>6. ~FinalEdge => nodes[t] = NoNode
    BY <1>2, <1>4, NotInView
  <1> QED BY <1>2, <1>3, <1>4, <1>5, <1>6 DEF FreedPaths, DeadPaths, Parent

LEMMA DeleteAtBranchIs ==
  ASSUME ShapeInv, DeleteAtBranch
  PROVE  /\ FinishDeleteFrame /\ UNCHANGED root_node
         /\ \E p, b, e, t, a :
              /\ MergeStep(Pending', p, b, e, t, a) /\ DeletesAt(Pending', b, t, a)
              /\ e = SiblingEnd
  <1>1. Deleting /\ BranchHeights # << >> /\ ~MergeIntoParent /\ pc = "Finish"
    BY DEF DeleteAtBranch, Deleting
  <1>2. UNCHANGED <<flat_db, cache_leaf_modified>> /\ pc' = "Idle"
    BY DEF DeleteAtBranch, FailAtBranch, FailFrame, FinishDeleteFrame, Return, db
  <1>3. PICK n : n = Pending'
    OBVIOUS
  <1>4. PICK b : b = BranchPath
    OBVIOUS
  <1>5. PICK t, a : t = Toward(args.key, b) /\ a = Away(args.key, b)
    OBVIOUS
  <1>6. DeletesAt(n, b, t, a)
    BY <1>1, <1>2, <1>3, <1>4, <1>5, DeleteKeys, DeletePlace
  <1>7. PICK e : e = SiblingEnd
    OBVIOUS
  <1>8. /\ ~BranchBroken /\ EdgeTo(n, b, e)
        /\ b \in Path /\ t \in Path /\ a \in Path /\ e \in Path /\ IsPrefixOf(b, e)
        /\ MergedPath \in Path /\ b \o MergedPath = e
        /\ MergedChild = InMemory <=> nodes[e] # NoNode
    BY <1>6, <1>7, DeleteMerges
  <1>9. TurnBranchIntoEdge /\ FinishDeleteFrame /\ UNCHANGED root_node
    BY <1>8 DEF DeleteAtBranch
  <1>10. /\ FreedPaths \subseteq {t, a} /\ DeadPaths \subseteq {t, a}
         /\ a \in FreedPaths \/ a \in DeadPaths => a # e
         /\ nodes[t] # NoNode => t \in FreedPaths
         /\ Len(t) = MaxHeight \/ t \in DeadPaths
         /\ a # e => a \in DeadPaths /\ (nodes[a] # NoNode => a \in FreedPaths)
         /\ t # b /\ a # b /\ a # t
    BY <1>6, <1>7, Freed
  <1>11. HasNode(n, b)
    BY <1>1, <1>6, ParentIs
  <1>12. Parting(n, Pending, args.key, b) /\ nodes[b] # NoNode
    BY <1>6 DEF DeletesAt
  <1>13. Passes(n, b, b, e)
    <2>1. PICK key : key = args.key
      OBVIOUS
    <2>2. ~Branches(n, b)
      BY <1>12, <2>1, BranchesMore
    <2> QED BY <1>8, <1>11, <2>2, PrefixRefl DEF Passes
  <1>14. \A x \in Path : nodes'[x] =
            IF x = b THEN EdgeNode(None, Branch.height, MergedPath, MergedChild)
            ELSE IF x \in FreedPaths THEN NoNode ELSE nodes[x]
    BY <1>4, <1>9 DEF TurnBranchIntoEdge
  <1>15. death_row' = death_row \cup DeadPaths
    BY <1>9 DEF TurnBranchIntoEdge
  <1>16. IsEdgeWith(nodes'[b], From(e, Len(b)), MergedChild)
    <2>1. MergedPath = From(e, Len(b))
      BY <1>8, ConcatPath
    <2>2. nodes'[b] = EdgeNode(None, Branch.height, MergedPath, MergedChild)
      BY <1>8, <1>14
    <2>3. IsEdgeWith(nodes'[b], MergedPath, MergedChild)
      BY <2>2, NewEdgeIs
    <2> QED BY <2>1, <2>3
  <1>17. nodes'[t] = NoNode /\ (Len(t) = MaxHeight \/ t \in death_row')
    BY <1>8, <1>10, <1>14, <1>15
  <1>18. a # e => nodes'[a] = NoNode /\ a \in death_row'
    BY <1>8, <1>10, <1>14, <1>15
  <1>19. ASSUME NEW x \in Path, x # b, x # t, x = a => x = e
         PROVE  nodes'[x] = nodes[x] /\ (x \in death_row' <=> x \in death_row)
    <2>1. x \notin FreedPaths /\ x \notin DeadPaths
      BY <1>10, <1>19
    <2> QED BY <1>14, <1>15, <1>19, <2>1
  <1>20. UNCHANGED <<db, commit, failed>> /\ Return
    BY <1>9 DEF FinishDeleteFrame
  <1>21. updates = NoUpdates /\ updates' = NoUpdates /\ trie_db' = trie_db
    BY <1>1, <1>20 DEF ShapeInv, PhaseInv, db, commit
  <1>22. MergeStep(n, b, b, e, t, a)
    BY <1>5, <1>8, <1>12, <1>13, <1>16, <1>17, <1>18, <1>19, <1>21 DEF MergeStep
  <1> QED BY <1>3, <1>6, <1>7, <1>9, <1>22

LEMMA DeleteAtBranchShape ==
  ASSUME ShapeInv, DeleteAtBranch
  PROVE  ShapeInv'
  <1>1. pc = "Finish"
    BY DEF DeleteAtBranch, Deleting
  <1>2. FinishDeleteFrame /\ UNCHANGED root_node
    BY DeleteAtBranchIs
  <1>3. PICK p, b, e, t, a : MergeStep(Pending', p, b, e, t, a)
    BY DeleteAtBranchIs
  <1>4. TInv'
    BY DeleteAtBranchTInv DEF ShapeInv
  <1>5. UNCHANGED <<db, commit, failed>> /\ Return
    BY <1>2 DEF FinishDeleteFrame
  <1> QED BY <1>1, <1>2, <1>3, <1>4, <1>5, MergeShape

LEMMA DeleteAtBranchUnderEdgeIs ==
  ASSUME ShapeInv, DeleteAtBranchUnderEdge
  PROVE  /\ FinishDeleteFrame /\ UNCHANGED root_node
         /\ \E p, b, e, t, a :
              /\ MergeStep(Pending', p, b, e, t, a) /\ DeletesAt(Pending', b, t, a)
              /\ e = SiblingEnd
  <1>1. Deleting /\ BranchHeights # << >> /\ MergeIntoParent /\ pc = "Finish"
    BY DEF DeleteAtBranchUnderEdge, Deleting
  <1>2. UNCHANGED <<flat_db, cache_leaf_modified>> /\ pc' = "Idle"
    BY DEF DeleteAtBranchUnderEdge, FailAtBranch, FailFrame, FinishDeleteFrame, Return, db
  <1>3. PICK n : n = Pending'
    OBVIOUS
  <1>4. PICK b : b = BranchPath
    OBVIOUS
  <1>5. PICK t, a : t = Toward(args.key, b) /\ a = Away(args.key, b)
    OBVIOUS
  <1>6. DeletesAt(n, b, t, a)
    BY <1>1, <1>2, <1>3, <1>4, <1>5, DeleteKeys, DeletePlace
  <1>7. PICK e : e = SiblingEnd
    OBVIOUS
  <1>8. /\ ~BranchBroken /\ EdgeTo(n, b, e)
        /\ b \in Path /\ t \in Path /\ a \in Path /\ e \in Path /\ IsPrefixOf(b, e)
        /\ MergedPath \in Path /\ b \o MergedPath = e
        /\ MergedChild = InMemory <=> nodes[e] # NoNode
    BY <1>6, <1>7, DeleteMerges
  <1>9. ExtendParentEdge /\ FinishDeleteFrame /\ UNCHANGED root_node
    BY <1>8 DEF DeleteAtBranchUnderEdge
  <1>10. /\ FreedPaths \subseteq {t, a} /\ DeadPaths \subseteq {t, a}
         /\ a \in FreedPaths \/ a \in DeadPaths => a # e
         /\ nodes[t] # NoNode => t \in FreedPaths
         /\ Len(t) = MaxHeight \/ t \in DeadPaths
         /\ a # e => a \in DeadPaths /\ (nodes[a] # NoNode => a \in FreedPaths)
         /\ t # b /\ a # b /\ a # t
         /\ First(SiblingPath, Len(SiblingPath) - 1) = b
    BY <1>6, <1>7, Freed
  <1>11. PICK p : p = ParentPath
    OBVIOUS
  <1>24. PICK l : l = EdgePath(nodes[p])
    OBVIOUS
  <1>25. /\ p \in Path /\ nodes[p] # NoNode /\ l \in Labels(Pending, p) /\ l \in Path
         /\ p \o l = b /\ EdgeTo(Pending, p, b) /\ p # b
         /\ HasNode(n, p) /\ ~Branches(n, p)
    BY <1>1, <1>6, <1>11, <1>24, ParentIs
  <1>12. Parting(n, Pending, args.key, b) /\ nodes[b] # NoNode
    BY <1>6 DEF DeletesAt
  <1>13. Passes(n, b, p, e)
    <2>1. PICK key : key = args.key
      OBVIOUS
    <2>2. EdgeTo(n, p, e)
      BY <1>8, <1>12, <1>25, <2>1, EdgeJoined
    <2>3. IsPrefixOf(p, b)
      BY <1>25 DEF EdgeTo
    <2> QED BY <1>8, <1>25, <2>2, <2>3 DEF Passes
  <1>26. p # t /\ p # a
    <2>1. PICK key : key = args.key
      OBVIOUS
    <2>2. Parting(n, Pending, key, b) /\ t = Toward(key, b) /\ a = Away(key, b)
      BY <1>5, <1>12, <2>1
    <2>3. Len(t) = Len(b) + 1 /\ Len(a) = Len(b) + 1
      BY <2>2, Turns
    <2>4. Len(p) \in Nat /\ Len(b) \in Nat /\ Len(p) <= Len(b)
      BY <1>13, <2>2, PassingEdge
    <2>5. Len(p) # Len(t) /\ Len(p) # Len(a)
      BY <2>3, <2>4
    <2> QED BY <2>5
  <1>14. \A x \in Path : nodes'[x] =
            IF x = p THEN EdgeNode(nodes[p].hash, nodes[p].height, l \o MergedPath, MergedChild)
            ELSE IF x \in FreedPaths \cup {b} THEN NoNode ELSE nodes[x]
    BY <1>4, <1>9, <1>11, <1>24 DEF ExtendParentEdge
  <1>15. death_row' = death_row \cup DeadPaths \cup {b}
    BY <1>9, <1>10 DEF ExtendParentEdge
  <1>16. IsEdgeWith(nodes'[p], From(e, Len(p)), MergedChild)
    <2>1. p \in Seq(Bit) /\ l \in Seq(Bit) /\ MergedPath \in Seq(Bit)
      BY <1>8, <1>25, PathSeq
    <2>2. PICK s : s = l \o MergedPath
      OBVIOUS
    <2>3. s \in Seq(Bit)
      BY <2>1, <2>2
    <2>4. p \o s = e
      <3>1. (p \o l) \o MergedPath = p \o (l \o MergedPath)
        BY <2>1, ConcatAssociative
      <3> QED BY <1>8, <1>25, <2>2, <3>1
    <2>5. s \in Path
      <3>1. Len(p \o s) = Len(p) + Len(s) /\ Len(p) \in Nat /\ Len(s) \in Nat
        BY <2>1, <2>3, ConcatSeq
      <3>2. Len(e) \in Nat /\ Len(e) <= MaxHeight
        BY <1>8, PathLen
      <3>3. Len(s) <= MaxHeight
        BY <2>4, <3>1, <3>2
      <3> QED BY <2>3, <3>3, PathSeq
    <2>6. s = From(e, Len(p))
      BY <1>8, <1>25, <2>4, <2>5, ConcatPath
    <2>7. nodes'[p] = EdgeNode(nodes[p].hash, nodes[p].height, s, MergedChild)
      BY <1>14, <1>25, <2>2
    <2>8. IsEdgeWith(nodes'[p], s, MergedChild)
      BY <2>7, NewEdgeIs
    <2> QED BY <2>6, <2>8
  <1>17. nodes'[t] = NoNode /\ (Len(t) = MaxHeight \/ t \in death_row')
    BY <1>8, <1>10, <1>14, <1>15, <1>26
  <1>18. a # e => nodes'[a] = NoNode /\ a \in death_row'
    BY <1>8, <1>10, <1>14, <1>15, <1>26
  <1>27. nodes'[b] = NoNode /\ b \in death_row'
    BY <1>8, <1>14, <1>15, <1>25
  <1>19. ASSUME NEW x \in Path, x # p, x # b, x # t, x = a => x = e
         PROVE  nodes'[x] = nodes[x] /\ (x \in death_row' <=> x \in death_row)
    <2>1. x \notin FreedPaths /\ x \notin DeadPaths
      BY <1>10, <1>19
    <2> QED BY <1>14, <1>15, <1>19, <2>1
  <1>20. UNCHANGED <<db, commit, failed>> /\ Return
    BY <1>9 DEF FinishDeleteFrame
  <1>21. updates = NoUpdates /\ updates' = NoUpdates /\ trie_db' = trie_db
    BY <1>1, <1>20 DEF ShapeInv, PhaseInv, db, commit
  <1>22. MergeStep(n, p, b, e, t, a)
    BY <1>5, <1>8, <1>12, <1>13, <1>16, <1>17, <1>18, <1>19, <1>21, <1>25, <1>27 DEF MergeStep
  <1> QED BY <1>3, <1>6, <1>7, <1>9, <1>22

LEMMA DeleteAtBranchUnderEdgeShape ==
  ASSUME ShapeInv, DeleteAtBranchUnderEdge
  PROVE  ShapeInv'
  <1>1. pc = "Finish"
    BY DEF DeleteAtBranchUnderEdge, Deleting
  <1>2. FinishDeleteFrame /\ UNCHANGED root_node
    BY DeleteAtBranchUnderEdgeIs
  <1>3. PICK p, b, e, t, a : MergeStep(Pending', p, b, e, t, a)
    BY DeleteAtBranchUnderEdgeIs
  <1>4. TInv'
    BY DeleteAtBranchUnderEdgeTInv DEF ShapeInv
  <1>5. UNCHANGED <<db, commit, failed>> /\ Return
    BY <1>2 DEF FinishDeleteFrame
  <1> QED BY <1>1, <1>2, <1>3, <1>4, <1>5, MergeShape

(***************************************************************************)
(* Hashing and committing: the order of the nodes                          *)
(***************************************************************************)
LEMMA ListsNone == Lists(<< >>, {})
  BY DEF Lists

LEMMA ListsOne ==
  ASSUME NEW p
  PROVE  Lists(<<p>>, {p})
  <1>1. <<p>> \in Seq({p}) /\ Len(<<p>>) = 1 /\ <<p>>[1] = p
    OBVIOUS
  <1>2. \A i, j \in 1..1 : ~(i < j)
    OBVIOUS
  <1>3. \A q \in {p} : \E i \in 1..Len(<<p>>) : <<p>>[i] = q
    BY <1>1
  <1> QED BY <1>1, <1>2, <1>3 DEF Lists

LEMMA ListsConcat ==
  ASSUME NEW S, NEW T, NEW s, NEW u, Lists(s, S), Lists(u, T),
         \A q \in S : \A r \in T : Before(q, r)
  PROVE  Lists(s \o u, S \cup T)
  <1>1. s \in Seq(S) /\ u \in Seq(T)
    BY DEF Lists
  <1>2. s \in Seq(S \cup T) /\ u \in Seq(S \cup T) /\ Len(s) \in Nat /\ Len(u) \in Nat
    BY <1>1
  <1>3. PICK w : w = s \o u
    OBVIOUS
  <1>4. /\ w \in Seq(S \cup T) /\ Len(w) = Len(s) + Len(u)
        /\ \A i \in 1..Len(s) : w[i] = s[i]
        /\ \A i \in 1..Len(u) : w[Len(s) + i] = u[i]
    BY <1>2, <1>3
  <1>5. ASSUME NEW q \in S \cup T PROVE \E i \in 1..Len(w) : w[i] = q
    <2>1. CASE q \in S
      <3>1. PICK i \in 1..Len(s) : s[i] = q
        BY <2>1 DEF Lists
      <3>2. i \in 1..Len(w) /\ w[i] = q
        BY <1>2, <1>4, <3>1
      <3> QED BY <3>2
    <2>2. CASE q \in T
      <3>1. PICK i \in 1..Len(u) : u[i] = q
        BY <2>2 DEF Lists
      <3>2. Len(s) + i \in 1..Len(w) /\ w[Len(s) + i] = q
        BY <1>2, <1>4, <3>1
      <3> QED BY <3>2
    <2> QED BY <2>1, <2>2
  <1>6. ASSUME NEW i \in 1..Len(w), NEW j \in 1..Len(w), i < j PROVE Before(w[i], w[j])
    <2>1. CASE j <= Len(s)
      <3>1. i \in 1..Len(s) /\ j \in 1..Len(s)
        BY <1>2, <1>4, <1>6, <2>1
      <3>2. Before(s[i], s[j])
        BY <1>6, <3>1 DEF Lists
      <3> QED BY <1>4, <3>1, <3>2
    <2>2. CASE i <= Len(s) /\ j > Len(s)
      <3>1. i \in 1..Len(s) /\ j - Len(s) \in 1..Len(u)
        BY <1>2, <1>4, <1>6, <2>2
      <3>2. PICK k : k = j - Len(s)
        OBVIOUS
      <3>3. k \in 1..Len(u) /\ Len(s) + k = j
        BY <1>2, <1>4, <3>1, <3>2
      <3>4. w[i] = s[i] /\ w[j] = u[k]
        BY <1>4, <3>1, <3>3
      <3>5. s[i] \in S /\ u[k] \in T
        BY <1>1, <3>1, <3>3
      <3> QED BY <3>4, <3>5
    <2>3. CASE i > Len(s)
      <3>1. i - Len(s) \in 1..Len(u) /\ j - Len(s) \in 1..Len(u)
        BY <1>2, <1>4, <1>6, <2>3
      <3>2. PICK k, l : k = i - Len(s) /\ l = j - Len(s)
        OBVIOUS
      <3>3. k \in 1..Len(u) /\ Len(s) + k = i /\ l \in 1..Len(u) /\ Len(s) + l = j /\ k < l
        BY <1>2, <1>4, <1>6, <3>1, <3>2
      <3>4. w[i] = u[k] /\ w[j] = u[l]
        BY <1>4, <3>3
      <3>5. Before(u[k], u[l])
        BY <3>3 DEF Lists
      <3> QED BY <3>4, <3>5
    <2>4. i \in Nat /\ j \in Nat
      BY <1>2, <1>4
    <2> QED BY <1>2, <2>1, <2>2, <2>3, <2>4
  <1> QED BY <1>3, <1>4, <1>5, <1>6 DEF Lists

LEMMA ListsTail ==
  ASSUME NEW S, NEW s, Lists(s, S), s # << >>, \A q \in S : ~Before(q, q)
  PROVE  Lists(Tail(s), S \ {s[1]})
  <1>1. s \in Seq(S) /\ Len(s) \in Nat /\ Len(s) >= 1
    BY DEF Lists
  <1>2. PICK w : w = Tail(s)
    OBVIOUS
  <1>3. w \in Seq(S) /\ Len(w) = Len(s) - 1 /\ \A i \in 1..Len(w) : w[i] = s[i + 1]
    BY <1>1, <1>2
  <1>4. \A i \in 1..Len(w) : i + 1 \in 1..Len(s) /\ 1 < i + 1
    BY <1>1, <1>3
  <1>5. \A i \in 1..Len(w) : w[i] \in S \ {s[1]}
    <2> SUFFICES ASSUME NEW i \in 1..Len(w) PROVE w[i] \in S \ {s[1]}
      OBVIOUS
    <2>1. w[i] = s[i + 1] /\ i + 1 \in 1..Len(s) /\ 1 \in 1..Len(s) /\ 1 < i + 1
      BY <1>1, <1>3, <1>4
    <2>2. Before(s[1], s[i + 1])
      BY <2>1 DEF Lists
    <2>3. s[1] \in S /\ s[i + 1] \in S
      BY <1>1, <2>1
    <2> QED BY <2>1, <2>2, <2>3
  <1>6. w \in Seq(S \ {s[1]})
    <2>1. w = [i \in 1..Len(w) |-> w[i]] /\ Len(w) \in Nat
      BY <1>3
    <2> QED BY <1>5, <2>1, SeqDef
  <1>7. ASSUME NEW q \in S \ {s[1]} PROVE \E i \in 1..Len(w) : w[i] = q
    <2>1. PICK j \in 1..Len(s) : s[j] = q
      BY DEF Lists
    <2>2. j # 1
      BY <1>7, <2>1
    <2>3. j - 1 \in 1..Len(w) /\ (j - 1) + 1 = j
      BY <1>1, <1>3, <2>1, <2>2
    <2>4. w[j - 1] = q
      BY <1>3, <2>1, <2>3
    <2> QED BY <2>3, <2>4
  <1>8. ASSUME NEW i \in 1..Len(w), NEW j \in 1..Len(w), i < j PROVE Before(w[i], w[j])
    <2>1. /\ i + 1 \in 1..Len(s) /\ j + 1 \in 1..Len(s) /\ w[i] = s[i + 1] /\ w[j] = s[j + 1]
          /\ i + 1 < j + 1
      BY <1>3, <1>4, <1>8
    <2> QED BY <2>1 DEF Lists
  <1> QED BY <1>2, <1>6, <1>7, <1>8 DEF Lists

\* Nothing comes before itself; what hangs below the left arc of a node comes
\* before what hangs below its right arc, and both before the node.
LEMMA NotBefore == \A p \in Path : ~Before(p, p)
  BY DEF Before, LeftOf

LEMMA BelowBefore ==
  ASSUME NEW p \in Path, NEW q \in Path, NEW r, r \in Path, IsPrefixOf(p, r), Len(r) > Len(p),
         IsPrefixOf(r, q)
  PROVE  Before(q, p)
  <1>1. IsPrefixOf(p, q)
    BY PathPrefixTrans
  <1>2. Len(r) \in Nat /\ Len(q) \in Nat /\ Len(p) \in Nat /\ Len(r) <= Len(q)
    BY PrefixLen, PathLen
  <1>3. q # p
    BY <1>2
  <1> QED BY <1>1, <1>3 DEF Before

LEMMA LeftBefore ==
  ASSUME NEW p \in Path, Len(p) < MaxHeight, NEW q \in Path, NEW r \in Path,
         IsPrefixOf(Append(p, 0), q), IsPrefixOf(Append(p, 1), r)
  PROVE  Before(q, r)
  <1>1. PICK x, y : x = Append(p, 0) /\ y = Append(p, 1)
    OBVIOUS
  <1>2. 0 \in Bit /\ 1 \in Bit
    BY DEF Bit
  <1>3. /\ x \in Path /\ Len(x) = Len(p) + 1 /\ x[Len(p) + 1] = 0 /\ IsPrefixOf(p, x)
    BY <1>1, <1>2, AppendPath
  <1>4. /\ y \in Path /\ Len(y) = Len(p) + 1 /\ y[Len(p) + 1] = 1 /\ IsPrefixOf(p, y)
    BY <1>1, <1>2, AppendPath
  <1>5. IsPrefixOf(x, q) /\ IsPrefixOf(y, r)
    BY <1>1
  <1>6. IsPrefixOf(p, q) /\ IsPrefixOf(p, r)
    BY <1>3, <1>4, <1>5, PathPrefixTrans
  <1>7. PICK i : i = Len(p) + 1
    OBVIOUS
  <1>8. Len(p) \in Nat /\ Len(q) \in Nat /\ Len(r) \in Nat /\ Len(x) <= Len(q) /\ Len(y) <= Len(r)
    BY <1>3, <1>4, <1>5, PrefixLen, PathLen
  <1>9. i \in 1..Len(q) /\ i <= Len(r) /\ i - 1 = Len(p) /\ i \in 1..Len(x) /\ i \in 1..Len(y)
    BY <1>3, <1>4, <1>7, <1>8
  <1>10. First(q, i - 1) = p /\ First(r, i - 1) = p
    BY <1>6, <1>9 DEF IsPrefixOf
  <1>11. q[i] = 0
    <2>1. \A j \in 1..Len(x) : x[j] = q[j]
      BY <1>3, <1>5, PathSeq, PrefixIs
    <2> QED BY <1>3, <1>7, <1>9, <2>1
  <1>12. r[i] = 1
    <2>1. \A j \in 1..Len(y) : y[j] = r[j]
      BY <1>4, <1>5, PathSeq, PrefixIs
    <2> QED BY <1>4, <1>7, <1>9, <2>1
  <1>13. LeftOf(q, r)
    BY <1>9, <1>10, <1>11, <1>12 DEF LeftOf
  <1> QED BY <1>13 DEF Before

\* s lists the nodes of S, and hs their own hashes.
ListsHashes(s, S, hs) ==
    /\ Lists(s, S) /\ Len(hs) = Len(s)
    /\ \A i \in 1..Len(s) : hashes[s[i]] # << >> /\ hs[i] = OwnHash(s[i])

LEMMA HashesOfIs == \A p : HashesOf(p) <=> \E s : ListsHashes(s, Below(p), hashes[p])
  BY DEF HashesOf, ListsHashes

\* In memory, below a node there is what is below its arcs.
LEMMA BelowArc ==
  ASSUME ShapeInv, NEW p \in Path, nodes[p] # NoNode, NEW q \in Path, nodes[q] # NoNode,
         IsPrefixOf(p, q), q # p
  PROVE  \E l \in DOMAIN nodes[p].next : IsPrefixOf(p \o l, q) /\ nodes[p].next[l] = InMemory
  <1>1. HasNode(Pending, p) /\ DOMAIN nodes[p].next = Labels(Pending, p)
    BY NodeInMemory
  <1>2. HasNode(Pending, q)
    BY NodeInMemory
  <1>3. Through(Pending, q) # {}
    BY <1>2 DEF HasNode
  <1>4. PICK l \in Labels(Pending, p) : IsPrefixOf(p \o l, q)
    BY <1>1, <1>2, <1>3, ArcToward
  <1>5. /\ ArcOf(Pending, p, l)
        /\ nodes[p].next[l] = InMemory <=> nodes[p \o l] # NoNode
        /\ Len(p \o l) < MaxHeight => View[p \o l] # NoNode
    BY <1>1, <1>4, ArcInMemory
  <1>6. p \o l \in Path
    BY <1>5 DEF ArcOf
  <1>7. nodes[p \o l] # NoNode
    <2>1. PICK c : c = p \o l
      OBVIOUS
    <2>2. ASSUME nodes[c] = NoNode PROVE FALSE
      <3>1. c \in Path /\ IsPrefixOf(c, q) /\ (Len(c) < MaxHeight => View[c] # NoNode)
        BY <1>4, <1>5, <1>6, <2>1
      <3>2. Len(q) < MaxHeight /\ Len(q) \in Nat
        BY <1>2, PathLen DEF HasNode
      <3>3. Len(c) \in Nat /\ Len(c) <= Len(q)
        BY <3>1, PrefixLen
      <3>4. View[c] # NoNode
        BY <3>1, <3>2, <3>3
      <3>5. nodes[q] = NoNode
        BY <2>2, <3>1, <3>4, NothingBelow
      <3> QED BY <3>5
    <2> QED BY <2>1, <2>2
  <1> QED BY <1>1, <1>4, <1>5, <1>7

\* The hashes computed below an arc are those of the nodes below it.
LEMMA ArcHashes ==
  ASSUME ShapeInv, pc = "Hash", NEW p \in Path, nodes[p] # NoNode, ChildrenHashed(p),
         NEW l \in DOMAIN nodes[p].next
  PROVE  \E s : ListsHashes(s, Below(p \o l), HashesBelow(p, l))
  <1>1. PICK c : c = p \o l
    OBVIOUS
  <1>2. /\ ArcOf(Pending, p, l)
        /\ nodes[p].next[l] = InMemory <=> nodes[c] # NoNode
        /\ Len(c) < MaxHeight => View[c] # NoNode
    BY <1>1, ArcInMemory
  <1>3. c \in Path
    BY <1>1, <1>2 DEF ArcOf
  <1>4. CASE nodes[p].next[l] = InMemory
    <2>1. hashes[c] # << >>
      BY <1>1, <1>4 DEF ChildrenHashed
    <2>2. HashesOf(c)
      BY <1>3, <2>1 DEF ShapeInv, HashInv
    <2>3. HashesBelow(p, l) = hashes[c]
      BY <1>1, <1>4 DEF HashesBelow
    <2> QED BY <1>1, <2>2, <2>3, HashesOfIs
  <1>5. CASE nodes[p].next[l] # InMemory
    <2>1. HashesBelow(p, l) = << >>
      BY <1>5 DEF HashesBelow
    <2>2. Below(c) = {}
      <3> SUFFICES ASSUME NEW q \in Path, nodes[q] # NoNode, IsPrefixOf(c, q) PROVE FALSE
        BY DEF Below
      <3>1. nodes[c] = NoNode
        BY <1>2, <1>5
      <3>2. HasNode(Pending, q)
        BY NodeInMemory
      <3>3. Len(q) < MaxHeight /\ Len(q) \in Nat
        BY <3>2, PathLen DEF HasNode
      <3>4. Len(c) \in Nat /\ Len(c) <= Len(q)
        BY <1>3, PrefixLen
      <3>7. Len(c) < MaxHeight
        BY <3>3, <3>4
      <3>5. View[c] # NoNode
        BY <1>2, <3>7
      <3>6. nodes[q] = NoNode
        BY <1>3, <3>1, <3>5, NothingBelow
      <3> QED BY <3>6
    <2>3. ListsHashes(<< >>, {}, << >>)
      BY ListsNone DEF ListsHashes
    <2> QED BY <1>1, <2>1, <2>2, <2>3
  <1> QED BY <1>4, <1>5

LEMMA ListsHashesConcat ==
  ASSUME NEW S, NEW T, NEW s, NEW u, NEW hs \in Seq(Felt), NEW gs \in Seq(Felt),
         ListsHashes(s, S, hs), ListsHashes(u, T, gs), \A q \in S : \A r \in T : Before(q, r)
  PROVE  ListsHashes(s \o u, S \cup T, hs \o gs)
  <1>1. Lists(s \o u, S \cup T)
    BY ListsConcat DEF ListsHashes
  <1>2. s \in Seq(S) /\ u \in Seq(T) /\ Len(hs) = Len(s) /\ Len(gs) = Len(u)
    BY DEF ListsHashes, Lists
  <1>3. s \in Seq(S \cup T) /\ u \in Seq(S \cup T) /\ Len(s) \in Nat /\ Len(u) \in Nat
    BY <1>2
  <1>4. PICK w, fs : w = s \o u /\ fs = hs \o gs
    OBVIOUS
  <1>5. /\ Len(w) = Len(s) + Len(u)
        /\ \A i \in 1..Len(s) : w[i] = s[i]
        /\ \A i \in 1..Len(u) : w[Len(s) + i] = u[i]
    BY <1>3, <1>4
  <1>6. /\ Len(fs) = Len(s) + Len(u)
        /\ \A i \in 1..Len(s) : fs[i] = hs[i]
        /\ \A i \in 1..Len(u) : fs[Len(s) + i] = gs[i]
    <2>1. /\ Len(hs \o gs) = Len(hs) + Len(gs)
          /\ \A i \in 1..Len(hs) : (hs \o gs)[i] = hs[i]
          /\ \A i \in 1..Len(gs) : (hs \o gs)[Len(hs) + i] = gs[i]
      OBVIOUS
    <2> QED BY <1>2, <1>4, <2>1
  <1>7. ASSUME NEW i \in 1..Len(w) PROVE hashes[w[i]] # << >> /\ fs[i] = OwnHash(w[i])
    <2>1. CASE i <= Len(s)
      <3>1. i \in 1..Len(s)
        BY <1>3, <1>5, <2>1
      <3> QED BY <1>5, <1>6, <3>1 DEF ListsHashes
    <2>2. CASE i > Len(s)
      <3>1. PICK k : k = i - Len(s)
        OBVIOUS
      <3>2. k \in 1..Len(u) /\ Len(s) + k = i
        BY <1>3, <1>5, <2>2, <3>1
      <3>3. w[i] = u[k] /\ fs[i] = gs[k]
        BY <1>5, <1>6, <3>2
      <3> QED BY <3>2, <3>3 DEF ListsHashes
    <2>3. i \in Nat
      BY <1>3, <1>5
    <2> QED BY <1>3, <2>1, <2>2, <2>3
  <1> QED BY <1>1, <1>4, <1>5, <1>6, <1>7 DEF ListsHashes

LEMMA BelowArcs ==
  ASSUME ShapeInv, NEW p \in Path, nodes[p] # NoNode
  PROVE  Below(p) \ {p} = UNION {Below(p \o l) : l \in DOMAIN nodes[p].next}
  <1>1. ASSUME NEW q \in Below(p) \ {p}
        PROVE  \E l \in DOMAIN nodes[p].next : q \in Below(p \o l)
    <2>1. q \in Path /\ nodes[q] # NoNode /\ IsPrefixOf(p, q) /\ q # p
      BY DEF Below
    <2>2. PICK l \in DOMAIN nodes[p].next : IsPrefixOf(p \o l, q)
      BY <2>1, BelowArc
    <2> QED BY <2>1, <2>2 DEF Below
  <1>2. ASSUME NEW l \in DOMAIN nodes[p].next, NEW q \in Below(p \o l)
        PROVE  q \in Below(p) \ {p}
    <2>1. PICK c : c = p \o l
      OBVIOUS
    <2>2. c \in Path /\ IsPrefixOf(p, c) /\ Len(c) > Len(p)
      BY <2>1, ArcInMemory DEF ArcOf
    <2>3. q \in Path /\ nodes[q] # NoNode /\ IsPrefixOf(c, q)
      BY <2>1 DEF Below
    <2>4. Before(q, p) /\ IsPrefixOf(p, q)
      BY <2>2, <2>3, BelowBefore, PathPrefixTrans
    <2>5. q # p
      BY <2>4, NotBefore
    <2> QED BY <2>3, <2>4, <2>5 DEF Below
  <1> QED BY <1>1, <1>2

\* What compute_hashes has gathered when it comes to the node's own hash.
LEMMA SubtreeListed ==
  ASSUME ShapeInv, pc = "Hash", NEW p \in Path, nodes[p] # NoNode, ChildrenHashed(p)
  PROVE  /\ \E s : ListsHashes(s, Below(p) \ {p}, SubtreeHashes(p))
         /\ SubtreeHashes(p) \in Seq(Felt)
  <1>1. IsNodeAt(nodes[p], p) /\ IsBinary(nodes[p]) = Branches(Pending, p)
        /\ DOMAIN nodes[p].next = Labels(Pending, p)
    BY NodeInMemory
  <1>2. \A l \in DOMAIN nodes[p].next : HashesBelow(p, l) \in Seq(Felt)
    <2> SUFFICES ASSUME NEW l \in DOMAIN nodes[p].next PROVE HashesBelow(p, l) \in Seq(Felt)
      OBVIOUS
    <2>1. p \o l \in Path
      BY <1>1 DEF IsNodeAt
    <2>2. hashes[p \o l] \in Seq(Felt)
      BY <2>1 DEF ShapeInv, TInv, TypeOK
    <2>3. << >> \in Seq(Felt)
      OBVIOUS
    <2> QED BY <2>2, <2>3 DEF HashesBelow
  <1>3. CASE IsBinary(nodes[p])
    <2>1. DOMAIN nodes[p].next = Directions
      BY <1>1, <1>3, BinaryLabels
    <2>2. PICK x, y : x = <<0>> /\ y = <<1>>
      OBVIOUS
    <2>3. DOMAIN nodes[p].next = {x, y}
      BY <2>1, <2>2 DEF Directions
    <2>4. PICK S, T : S = Below(p \o x) /\ T = Below(p \o y)
      OBVIOUS
    <2>5. Below(p) \ {p} = S \cup T
      BY <2>3, <2>4, BelowArcs
    <2>6. PICK s : ListsHashes(s, S, HashesBelow(p, x))
      BY <2>3, <2>4, ArcHashes
    <2>7. PICK u : ListsHashes(u, T, HashesBelow(p, y))
      BY <2>3, <2>4, ArcHashes
    <2>8. SubtreeHashes(p) = HashesBelow(p, x) \o HashesBelow(p, y)
      BY <1>3, <2>2 DEF SubtreeHashes
    <2>9. HashesBelow(p, x) \in Seq(Felt) /\ HashesBelow(p, y) \in Seq(Felt)
      BY <1>2, <2>3
    <2>10. \A q \in S : \A r \in T : Before(q, r)
      <3> SUFFICES ASSUME NEW q \in S, NEW r \in T PROVE Before(q, r)
        OBVIOUS
      <3>1. Len(p) < MaxHeight
        BY <1>1, <1>3 DEF Branches
      <3>2. 0 \in Bit /\ 1 \in Bit
        BY DEF Bit
      <3>3. Append(p, 0) = p \o x /\ Append(p, 1) = p \o y
        BY <2>2, <3>1, <3>2, AppendPath
      <3>4. q \in Path /\ r \in Path /\ IsPrefixOf(Append(p, 0), q) /\ IsPrefixOf(Append(p, 1), r)
        BY <2>4, <3>3 DEF Below
      <3> QED BY <3>1, <3>4, LeftBefore
    <2>11. ListsHashes(s \o u, S \cup T, HashesBelow(p, x) \o HashesBelow(p, y))
      BY <2>6, <2>7, <2>9, <2>10, ListsHashesConcat
    <2>12. HashesBelow(p, x) \o HashesBelow(p, y) \in Seq(Felt)
      BY <2>9
    <2> QED BY <2>5, <2>8, <2>11, <2>12
  <1>4. CASE ~IsBinary(nodes[p])
    <2>1. IsEdge(nodes[p])
      BY <1>1, <1>4, NodeKind
    <2>2. PICK l : l = EdgePath(nodes[p])
      OBVIOUS
    <2>3. DOMAIN nodes[p].next = {l}
      BY <1>1, <2>1, <2>2, EdgeDomain
    <2>4. Below(p) \ {p} = Below(p \o l)
      BY <2>3, BelowArcs
    <2>5. PICK s : ListsHashes(s, Below(p \o l), HashesBelow(p, l))
      BY <2>3, ArcHashes
    <2>6. SubtreeHashes(p) = HashesBelow(p, l)
      BY <1>4, <2>2 DEF SubtreeHashes
    <2> QED BY <1>2, <2>3, <2>4, <2>5, <2>6
  <1> QED BY <1>3, <1>4

\* One more node hashed: its vector is the one of its subtree.
LEMMA ComputeHashShape ==
  ASSUME ShapeInv, NEW p \in Path, ComputeHash(p)
  PROVE  ShapeInv'
  <1>1. /\ pc = "Hash" /\ nodes[p] # NoNode /\ hashes[p] = << >> /\ ChildrenHashed(p)
        /\ hashes' = [hashes EXCEPT ![p] = Append(SubtreeHashes(p), ComputedHash(p))]
        /\ pc' = IF p = << >> THEN "CommitSubtree" ELSE "Hash"
        /\ UNCHANGED <<trie_db, flat_db, root_node, nodes, death_row, cache_leaf_modified,
                       args, updates, failed>>
    <2>1. pc = "Hash" /\ nodes[p] # NoNode /\ hashes[p] = << >>
      BY DEF ComputeHash
    <2>2. LinkedAt(p)
      BY <2>1 DEF ShapeInv, LinkInv
    <2>3. ~HashBroken(p)
      BY <2>2 DEF HashBroken, LinkedAt
    <2> QED BY <2>3 DEF ComputeHash, db, tree, iter
  <1>2. TInv' /\ ~failed'
    BY <1>1, ComputeHashTInv DEF ShapeInv
  <1>3. View' = View /\ LinkInv' /\ AboveInv' /\ StoredInv'
    BY <1>1, SameNodes
  <1>4. ~Removing /\ ~Removing'
    BY <1>1 DEF Removing
  <1>5. Pending' = Pending
    BY <1>1, <1>4 DEF Pending, get
  <1>6. HasShapeOf(View, Pending)' /\ HasShapeOf(trie_db, flat_db)'
    BY <1>1, <1>3, <1>5 DEF ShapeInv
  <1>7. RootInv' /\ WayInv'
    BY <1>1, <1>3 DEF ShapeInv, RootInv, WayInv
  <1>8. PhaseInv'
    BY <1>1, <1>4 DEF ShapeInv, PhaseInv
  <1>9. hashes \in [Path -> Seq(Felt)] /\ hashes' \in [Path -> Seq(Felt)]
    BY <1>2 DEF ShapeInv, TInv, TypeOK
  <1>10. \A q : Below(q)' = Below(q)
    BY <1>1 DEF Below
  <1>11. \A q \in Path : q # p => hashes'[q] = hashes[q] /\ OwnHash(q)' = OwnHash(q)
    BY <1>1, <1>9 DEF OwnHash
  <1>12. \A q \in Path : HashesOf(q) => q = p \/ HashesOf(q)'
    <2> SUFFICES ASSUME NEW q \in Path, HashesOf(q), q # p PROVE HashesOf(q)'
      OBVIOUS
    <2>1. PICK s : /\ Lists(s, Below(q)) /\ Len(hashes[q]) = Len(s)
                   /\ \A i \in 1..Len(s) : hashes[s[i]] # << >> /\ hashes[q][i] = OwnHash(s[i])
      BY DEF HashesOf
    <2>2. hashes'[q] = hashes[q]
      BY <1>11
    <2>3. ASSUME NEW i \in 1..Len(s)
          PROVE  hashes'[s[i]] # << >> /\ hashes'[q][i] = OwnHash(s[i])'
      <3>1. s[i] \in Path
        BY <2>1 DEF Lists, Below
      <3>2. s[i] # p
        BY <1>1, <2>1
      <3> QED BY <1>11, <2>1, <2>2, <3>1, <3>2
    <2>4. Lists(s, Below(q))'
      BY <1>10, <2>1 DEF Lists, Before, LeftOf
    <2> QED BY <2>1, <2>2, <2>3, <2>4 DEF HashesOf
  <1>13. HashesOf(p)' /\ hashes'[p] # << >>
    <2>1. PICK s : ListsHashes(s, Below(p) \ {p}, SubtreeHashes(p))
      BY <1>1, SubtreeListed
    <2>2. SubtreeHashes(p) \in Seq(Felt)
      BY <1>1, SubtreeListed
    <2>3. PICK hs, h : hs = SubtreeHashes(p) /\ h = ComputedHash(p)
      OBVIOUS
    <2>4. hashes'[p] = Append(hs, h) /\ hs \in Seq(Felt)
      BY <1>1, <1>9, <2>2, <2>3
    <2>5. h \in Felt
      <3>1. /\ Append(hs, h) \in Seq(Felt) /\ Len(Append(hs, h)) = Len(hs) + 1
            /\ Append(hs, h)[Len(hs) + 1] = h
        BY <1>9, <2>4
      <3>2. Len(hs) + 1 \in 1..(Len(hs) + 1)
        BY <2>4
      <3> QED BY <3>1, <3>2
    <2>6. /\ Len(hashes'[p]) = Len(hs) + 1 /\ hashes'[p][Len(hs) + 1] = h /\ Len(hs) \in Nat
          /\ \A i \in 1..Len(hs) : hashes'[p][i] = hs[i]
      BY <2>4, <2>5
    <2>7. hashes'[p] # << >> /\ OwnHash(p)' = h
      <3>1. Len(hs) + 1 # 0
        BY <2>6
      <3> QED BY <2>6, <3>1 DEF OwnHash
    <2>8. Lists(s, Below(p) \ {p}) /\ s \in Seq(Below(p) \ {p}) /\ Len(s) = Len(hs)
      BY <2>1, <2>3 DEF ListsHashes, Lists
    <2>9. Lists(s \o <<p>>, Below(p))
      <3>1. \A q \in Below(p) \ {p} : \A r \in {p} : Before(q, r)
        BY DEF Below, Before
      <3>2. Lists(s \o <<p>>, (Below(p) \ {p}) \cup {p})
        BY <2>8, <3>1, ListsOne, ListsConcat
      <3>3. p \in Below(p)
        BY <1>1, PrefixRefl DEF Below
      <3>4. (Below(p) \ {p}) \cup {p} = Below(p)
        BY <3>3
      <3> QED BY <3>2, <3>4
    <2>10. PICK w : w = s \o <<p>>
      OBVIOUS
    <2>11. Lists(w, Below(p))'
      <3>1. Lists(w, Below(p))
        BY <2>9, <2>10
      <3> QED BY <1>10, <3>1 DEF Lists, Before, LeftOf
    <2>12. /\ Len(w) = Len(hs) + 1 /\ w[Len(hs) + 1] = p
           /\ \A i \in 1..Len(hs) : w[i] = s[i] /\ s[i] \in Below(p) \ {p}
      <3>1. s \in Seq(Path)
        BY <2>8 DEF Below
      <3>2. w = Append(s, p)
        BY <2>10, <3>1, AppendIsConcat
      <3>3. Len(w) = Len(s) + 1 /\ w[Len(s) + 1] = p /\ \A i \in 1..Len(s) : w[i] = s[i]
        BY <3>1, <3>2
      <3>4. \A i \in 1..Len(s) : s[i] \in Below(p) \ {p}
        BY <2>8
      <3> QED BY <2>8, <3>3, <3>4
    <2>13. ASSUME NEW i \in 1..Len(w)
           PROVE  hashes'[w[i]] # << >> /\ hashes'[p][i] = OwnHash(w[i])'
      <3>1. CASE i = Len(hs) + 1
        BY <2>6, <2>7, <2>12, <3>1
      <3>2. CASE i # Len(hs) + 1
        <4>1. i \in 1..Len(hs)
          BY <2>6, <2>12, <3>2
        <4>2. w[i] = s[i] /\ s[i] \in Path /\ s[i] # p
          BY <2>12, <4>1 DEF Below
        <4>3. hashes[s[i]] # << >> /\ hs[i] = OwnHash(s[i])
          BY <2>1, <2>3, <2>8, <4>1 DEF ListsHashes
        <4> QED BY <1>11, <2>6, <4>1, <4>2, <4>3
      <3> QED BY <3>1, <3>2
    <2> QED BY <2>6, <2>7, <2>11, <2>12, <2>13 DEF HashesOf
  <1>14. HashInv'
    <2>1. ASSUME pc' = "Hash", NEW q \in Path, hashes'[q] # << >>
          PROVE  nodes'[q] # NoNode /\ HashesOf(q)'
      <3>1. CASE q = p
        BY <1>1, <1>13, <3>1
      <3>2. CASE q # p
        <4>1. hashes[q] # << >>
          BY <1>11, <2>1, <3>2
        <4>2. nodes[q] # NoNode /\ HashesOf(q)
          BY <1>1, <4>1 DEF ShapeInv, HashInv
        <4> QED BY <1>1, <1>12, <3>2, <4>2
      <3> QED BY <3>1, <3>2
    <2>2. pc' = "CommitSubtree" => HashesOf(<< >>)'
      BY <1>1, <1>13
    <2> QED BY <2>1, <2>2 DEF HashInv
  <1> QED BY <1>2, <1>3, <1>6, <1>7, <1>8, <1>14 DEF ShapeInv

\* The node that commits next has nothing left in memory below it, and it is
\* the first of the nodes whose hashes were computed.
LEMMA NothingLeftBelow ==
  ASSUME ShapeInv, NEW p \in Path, CommitsNext(p), NEW q \in Path, nodes[q] # NoNode,
         IsPrefixOf(p, q)
  PROVE  q = p
  <1> SUFFICES ASSUME q # p PROVE FALSE
    OBVIOUS
  <1>1. nodes[p] # NoNode /\ \A l \in DOMAIN nodes[p].next : nodes[p].next[l] # InMemory
    BY DEF CommitsNext
  <1>2. \E l \in DOMAIN nodes[p].next : IsPrefixOf(p \o l, q) /\ nodes[p].next[l] = InMemory
    BY <1>1, BelowArc
  <1> QED BY <1>1, <1>2

LEMMA CommitsFirst ==
  ASSUME ShapeInv, NEW p \in Path, CommitsNext(p), NEW s, Lists(s, Below(<< >>))
  PROVE  s # << >> /\ s[1] = p /\ s \in Seq(Below(<< >>))
  <1>1. s \in Seq(Below(<< >>)) /\ Len(s) \in Nat
    BY DEF Lists
  <1>2. p \in Below(<< >>)
    BY EmptyPrefix, PathSeq DEF Below, CommitsNext
  <1>3. PICK i \in 1..Len(s) : s[i] = p
    BY <1>2 DEF Lists
  <1>4. 1 \in 1..Len(s) /\ s # << >>
    BY <1>1, <1>3
  <1>5. s[1] \in Path /\ nodes[s[1]] # NoNode
    BY <1>1, <1>4 DEF Below
  <1>6. ~(1 < i)
    <2> SUFFICES ASSUME 1 < i PROVE FALSE
      OBVIOUS
    <2>1. Before(s[1], p)
      BY <1>3, <1>4 DEF Lists
    <2>2. ~LeftOf(s[1], p)
      BY <1>5 DEF CommitsNext
    <2>3. IsPrefixOf(p, s[1]) /\ s[1] # p
      BY <2>1, <2>2 DEF Before
    <2> QED BY <1>5, <2>3, NothingLeftBelow
  <1>7. i = 1
    BY <1>1, <1>3, <1>6
  <1> QED BY <1>1, <1>3, <1>4, <1>7

\* commit_subtree never runs out of hashes.
LEMMA HashAvailable ==
  ASSUME ShapeInv, NEW p \in Path, CommitSubtree(p)
  PROVE  \E s : /\ ListsHashes(s, Below(<< >>), hashes[<< >>])
                /\ s # << >> /\ s[1] = p /\ s \in Seq(Below(<< >>)) /\ hashes[<< >>] # << >>
  <1>1. HashesOf(<< >>) /\ CommitsNext(p)
    BY DEF CommitSubtree, ShapeInv, HashInv
  <1>2. PICK s : ListsHashes(s, Below(<< >>), hashes[<< >>])
    BY <1>1, HashesOfIs
  <1>3. Lists(s, Below(<< >>)) /\ Len(hashes[<< >>]) = Len(s)
    BY <1>2 DEF ListsHashes
  <1>4. s # << >> /\ s[1] = p /\ s \in Seq(Below(<< >>))
    BY <1>1, <1>3, CommitsFirst
  <1>5. hashes[<< >>] \in Seq(Felt)
    BY RootInPath DEF ShapeInv, TInv, TypeOK
  <1>6. Len(s) # 0
    BY <1>4
  <1>7. hashes[<< >>] # << >>
    BY <1>3, <1>5, <1>6
  <1> QED BY <1>2, <1>4, <1>7

\* What the step does to the nodes.
CommittedAt(p, hash) ==
    /\ hash \in Felt /\ CommitsNext(p)
    /\ nodes' = ReplaceInParent(p, hash)
    /\ updates' = [updates EXCEPT ![p] = Hashed(nodes[p], hash)]
    /\ UNCHANGED <<trie_db, flat_db, root_node, death_row, cache_leaf_modified, failed>>

LEMMA CommitSubtreeIs ==
  ASSUME ShapeInv, NEW p \in Path, CommitSubtree(p)
  PROVE  /\ CommittedAt(p, Head(hashes[<< >>])) /\ pc = "CommitSubtree"
         /\ hashes' = [hashes EXCEPT ![<< >>] = Tail(@)]
         /\ pc' = IF p = << >> THEN "Write" ELSE "CommitSubtree"
  <1>1. hashes[<< >>] # << >>
    BY HashAvailable
  <1>2. hashes[<< >>] \in Seq(Felt)
    BY RootInPath DEF ShapeInv, TInv, TypeOK
  <1>3. Head(hashes[<< >>]) \in Felt
    BY <1>1, <1>2
  <1> QED BY <1>1, <1>3 DEF CommitSubtree, CommittedAt, db

LEMMA CommittedNodes ==
  ASSUME ShapeInv, NEW p \in Path, NEW hash, CommittedAt(p, hash)
  PROVE  /\ nodes'[p] = NoNode /\ updates'[p] # NoChange /\ updates'[p] = Hashed(nodes[p], hash)
         /\ \A q \in Path : q # p => updates'[q] = updates[q]
         /\ \A q \in Path : nodes'[q] # NoNode <=> q # p /\ nodes[q] # NoNode
         /\ \A q \in Path : nodes'[q] # NoNode =>
               /\ SameNode(nodes[q], nodes'[q])
               /\ \A l \in DOMAIN nodes[q].next :
                     nodes'[q].next[l] = IF q \o l = p THEN hash ELSE nodes[q].next[l]
  <1>1. nodes' = ReplaceInParent(p, hash) /\ updates' = [updates EXCEPT ![p] = Hashed(nodes[p], hash)]
    BY DEF CommittedAt
  <1>2. IsNodeMap(updates, {NoNode, NoChange})
    BY DEF ShapeInv, TInv, TypeOK
  <1>3. updates'[p] = Hashed(nodes[p], hash) /\ \A q \in Path : q # p => updates'[q] = updates[q]
    BY <1>1, <1>2 DEF IsNodeMap
  <1>4. nodes[p] # NoNode
    BY DEF CommittedAt, CommitsNext
  <1>5. IsBinary(nodes[p]) \/ IsEdge(nodes[p])
    BY <1>4, NodeInMemory, NodeKind
  <1>6. updates'[p] # NoChange
    BY <1>3, <1>5 DEF Hashed, NoChange, IsBinary, IsEdge
  <1>7. nodes'[p] = NoNode
    BY <1>1 DEF ReplaceInParent
  <1>8. ASSUME NEW q \in Path, q # p, nodes[q] # NoNode
        PROVE  /\ nodes'[q] # NoNode /\ SameNode(nodes[q], nodes'[q])
               /\ \A l \in DOMAIN nodes[q].next :
                     nodes'[q].next[l] = IF q \o l = p THEN hash ELSE nodes[q].next[l]
    <2>1. nodes'[q] = [type |-> nodes[q].type, hash |-> nodes[q].hash, height |-> nodes[q].height,
                       next |-> [l \in DOMAIN nodes[q].next |->
                                   IF q \o l = p THEN hash ELSE nodes[q].next[l]]]
      BY <1>1, <1>8 DEF ReplaceInParent
    <2>2. IsBinary(nodes[q]) \/ IsEdge(nodes[q])
      BY <1>8, NodeInMemory, NodeKind
    <2>3. nodes'[q].type = nodes[q].type
          /\ nodes'[q].next = [l \in DOMAIN nodes[q].next |->
                                   IF q \o l = p THEN hash ELSE nodes[q].next[l]]
      BY <2>1
    <2>4. nodes'[q] # NoNode
      BY <2>2, <2>3, NotNode DEF IsBinary, IsEdge
    <2>5. SameNode(nodes[q], nodes'[q])
      BY <1>8, <2>3, <2>4 DEF SameNode, IsBinary
    <2> QED BY <2>3, <2>4, <2>5
  <1>9. ASSUME NEW q \in Path, nodes[q] = NoNode PROVE nodes'[q] = NoNode
    BY <1>1, <1>9 DEF ReplaceInParent
  <1> QED BY <1>3, <1>6, <1>7, <1>8, <1>9

LEMMA CommittedShape ==
  ASSUME ShapeInv, NEW p \in Path, NEW hash, CommittedAt(p, hash)
  PROVE  /\ \A q \in Path : SameNode(View[q], View'[q])
         /\ StoredInv' /\ LinkInv' /\ AboveInv'
  <1>1. /\ nodes'[p] = NoNode /\ updates'[p] # NoChange /\ updates'[p] = Hashed(nodes[p], hash)
        /\ \A q \in Path : q # p => updates'[q] = updates[q]
        /\ \A q \in Path : nodes'[q] # NoNode <=> q # p /\ nodes[q] # NoNode
    BY CommittedNodes
  <1>2. \A q \in Path : nodes'[q] # NoNode =>
               /\ SameNode(nodes[q], nodes'[q])
               /\ \A l \in DOMAIN nodes[q].next :
                     nodes'[q].next[l] = IF q \o l = p THEN hash ELSE nodes[q].next[l]
    BY CommittedNodes
  <1>3. /\ trie_db' = trie_db /\ death_row' = death_row /\ hash \in Felt
        /\ nodes[p] # NoNode /\ \A l \in DOMAIN nodes[p].next : nodes[p].next[l] # InMemory
    BY DEF CommittedAt, CommitsNext
  <1>4. Hashed(nodes[p], hash).type = nodes[p].type /\ Hashed(nodes[p], hash).next = nodes[p].next
    BY DEF Hashed
  <1>5. ASSUME NEW q \in Path PROVE SameNode(View[q], View'[q])
    <2>1. CASE q = p
      <3>1. View[q] = nodes[p]
        BY <1>3, <2>1 DEF View
      <3>2. View'[q] = Hashed(nodes[p], hash)
        BY <1>1, <2>1 DEF View
      <3>3. IsBinary(nodes[p]) \/ IsEdge(nodes[p])
        BY <1>3, NodeInMemory, NodeKind
      <3>4. Hashed(nodes[p], hash) # NoNode
        BY <1>4, <3>3, NotNode DEF IsBinary, IsEdge
      <3> QED BY <1>3, <1>4, <3>1, <3>2, <3>4 DEF SameNode, IsBinary
    <2>2. CASE q # p /\ nodes[q] # NoNode
      <3>1. View[q] = nodes[q]
        BY <2>2 DEF View
      <3>2. View'[q] = nodes'[q] /\ SameNode(nodes[q], nodes'[q])
        BY <1>1, <1>2, <2>2 DEF View
      <3> QED BY <3>1, <3>2
    <2>3. CASE q # p /\ nodes[q] = NoNode
      <3>1. nodes'[q] = NoNode /\ updates'[q] = updates[q] /\ DbNode(q)' = DbNode(q)
        BY <1>1, <1>3, <2>3 DEF DbNode
      <3>2. View'[q] = View[q]
        BY <2>3, <3>1 DEF View
      <3> QED BY <3>2 DEF SameNode
    <2> QED BY <2>1, <2>2, <2>3
  <1>6. StoredInv'
    <2>1. Stored(Hashed(nodes[p], hash))
      BY <1>3, <1>4 DEF Stored
    <2>2. \A q \in Path : Stored(trie_db[q]) /\ Stored(updates[q])
      BY DEF ShapeInv, StoredInv
    <2> QED BY <1>1, <1>3, <2>1, <2>2 DEF StoredInv, Stored
  <1>7. LinkInv'
    <2> SUFFICES ASSUME NEW q \in Path, nodes'[q] # NoNode, NEW l \in DOMAIN nodes'[q].next
                 PROVE  nodes'[q].next[l] = InMemory <=> nodes'[q \o l] # NoNode
      BY DEF LinkInv, LinkedAt
    <2>1. nodes[q] # NoNode /\ q # p
      BY <1>1
    <2>2. DOMAIN nodes'[q].next = DOMAIN nodes[q].next
      BY <1>2, <2>1 DEF SameNode
    <2>3. nodes'[q].next[l] = IF q \o l = p THEN hash ELSE nodes[q].next[l]
      BY <1>2, <2>2
    <2>4. q \o l \in Path
      BY <2>1, <2>2, NodeInMemory DEF IsNodeAt
    <2>5. nodes[q].next[l] = InMemory <=> nodes[q \o l] # NoNode
      BY <2>1, <2>2 DEF ShapeInv, LinkInv, LinkedAt
    <2>6. nodes'[q \o l] # NoNode <=> q \o l # p /\ nodes[q \o l] # NoNode
      BY <1>1, <2>4
    <2>7. hash # InMemory
      BY <1>3
    <2> QED BY <2>3, <2>5, <2>6, <2>7
  <1>8. AboveInv'
    <2> SUFFICES ASSUME NEW x \in Path, NEW y \in Path, nodes'[y] # NoNode, IsPrefixOf(x, y),
                        View'[x] # NoNode
                 PROVE  nodes'[x] # NoNode
      BY DEF AboveInv
    <2>1. nodes[y] # NoNode /\ y # p
      BY <1>1
    <2>2. View[x] # NoNode
      BY <1>5 DEF SameNode
    <2>3. nodes[x] # NoNode
      BY <2>1, <2>2 DEF ShapeInv, AboveInv
    <2>4. x # p
      BY <2>1, NothingLeftBelow DEF CommittedAt
    <2> QED BY <1>1, <2>3, <2>4
  <1> QED BY <1>5, <1>6, <1>7, <1>8

\* The hashes that are left are those of the nodes that are left.
LEMMA HashesLeft ==
  ASSUME ShapeInv, NEW p \in Path, CommitSubtree(p)
  PROVE  HashesOf(<< >>)'
  <1>1. CommittedAt(p, Head(hashes[<< >>])) /\ hashes' = [hashes EXCEPT ![<< >>] = Tail(@)]
    BY CommitSubtreeIs
  <1>2. \A q \in Path : nodes'[q] # NoNode <=> q # p /\ nodes[q] # NoNode
    BY <1>1, CommittedNodes
  <1>3. Below(<< >>)' = Below(<< >>) \ {p}
    BY <1>2 DEF Below
  <1>4. PICK s : /\ ListsHashes(s, Below(<< >>), hashes[<< >>])
                 /\ s # << >> /\ s[1] = p /\ s \in Seq(Below(<< >>)) /\ hashes[<< >>] # << >>
    BY HashAvailable
  <1>5. Lists(s, Below(<< >>)) /\ Len(hashes[<< >>]) = Len(s)
    BY <1>4 DEF ListsHashes
  <1>6. \A q \in Below(<< >>) : q \in Path /\ ~Before(q, q)
    BY NotBefore DEF Below
  <1>7. Lists(Tail(s), Below(<< >>) \ {p})
    BY <1>4, <1>5, <1>6, ListsTail
  <1>8. PICK w, hs : w = Tail(s) /\ hs = hashes[<< >>]
    OBVIOUS
  <1>9. /\ hashes \in [Path -> Seq(Felt)] /\ << >> \in Path
    BY RootInPath DEF ShapeInv, TInv, TypeOK
  <1>10. /\ hashes'[<< >>] = Tail(hs) /\ hs \in Seq(Felt)
         /\ \A q \in Path : q # << >> => hashes'[q] = hashes[q]
    BY <1>1, <1>8, <1>9
  <1>11. /\ Len(s) \in Nat /\ Len(s) >= 1 /\ Len(w) = Len(s) - 1 /\ Len(hs) = Len(s)
         /\ \A i \in 1..Len(w) : w[i] = s[i + 1]
    BY <1>4, <1>5, <1>8
  <1>12. Len(Tail(hs)) = Len(w) /\ \A i \in 1..Len(w) : Tail(hs)[i] = hs[i + 1]
    BY <1>10, <1>11
  <1>13. ASSUME NEW i \in 1..Len(w)
         PROVE  hashes'[w[i]] # << >> /\ hashes'[<< >>][i] = OwnHash(w[i])'
    <2>1. i + 1 \in 1..Len(s)
      BY <1>11
    <2>2. w[i] \in Path
      BY <1>4, <1>6, <1>11, <2>1
    <2>3. hashes[w[i]] # << >> /\ hs[i + 1] = OwnHash(w[i])
      BY <1>4, <1>8, <1>11, <2>1 DEF ListsHashes
    <2>4. hashes'[<< >>][i] = hs[i + 1]
      BY <1>10, <1>12
    <2>5. CASE w[i] # << >>
      BY <1>10, <2>2, <2>3, <2>4, <2>5 DEF OwnHash
    <2>6. CASE w[i] = << >>
      <3>1. Len(w) \in 1..Len(w) /\ Len(w) + 1 = Len(hs) /\ Len(w) # 0
        BY <1>11
      <3>2. Tail(hs)[Len(w)] = hs[Len(hs)]
        BY <1>12, <3>1
      <3>3. OwnHash(<< >>)' = hs[Len(hs)] /\ OwnHash(<< >>) = hs[Len(hs)]
        BY <1>8, <1>10, <1>12, <3>2 DEF OwnHash
      <3>4. hashes'[<< >>] # << >>
        BY <1>10, <1>12, <3>1
      <3> QED BY <2>3, <2>4, <2>6, <3>3, <3>4
    <2> QED BY <2>5, <2>6
  <1>14. Lists(w, Below(<< >>))'
    <2>1. Lists(w, Below(<< >>) \ {p})
      BY <1>7, <1>8
    <2> QED BY <1>3, <2>1 DEF Lists, Before, LeftOf
  <1> QED BY <1>10, <1>12, <1>13, <1>14 DEF HashesOf

\* One node less in memory and one more in the batch.
LEMMA CommitSubtreeShape ==
  ASSUME ShapeInv, NEW p \in Path, CommitSubtree(p)
  PROVE  ShapeInv'
  <1>1. PICK hash : hash = Head(hashes[<< >>])
    OBVIOUS
  <1>2. /\ CommittedAt(p, hash) /\ pc = "CommitSubtree"
        /\ pc' = IF p = << >> THEN "Write" ELSE "CommitSubtree"
    BY <1>1, CommitSubtreeIs
  <1>3. UNCHANGED <<trie_db, flat_db, root_node, death_row, cache_leaf_modified, failed>>
        /\ CommitsNext(p)
    BY <1>2 DEF CommittedAt
  <1>4. TInv' /\ ~failed'
    BY <1>3, CommitSubtreeTInv DEF ShapeInv
  <1>5. ~Removing /\ ~Removing'
    BY <1>2 DEF Removing
  <1>6. Pending' = Pending
    BY <1>3, <1>5 DEF Pending, get
  <1>7. /\ \A q \in Path : SameNode(View[q], View'[q])
        /\ StoredInv' /\ LinkInv' /\ AboveInv'
    BY <1>2, CommittedShape
  <1>8. HasShapeOf(View, Pending)'
    <2>1. HasShapeOf(View, Pending)
      BY DEF ShapeInv
    <2>2. HasShapeOf(View', Pending)
      BY <1>7, <2>1, ShapeOfNodes
    <2> QED BY <1>6, <2>2
  <1>9. HasShapeOf(trie_db, flat_db)'
    BY <1>3 DEF ShapeInv
  <1>10. \A q \in Path : nodes'[q] # NoNode <=> q # p /\ nodes[q] # NoNode
    BY <1>2, CommittedNodes
  <1>11. RootInv'
    <2>1. root_node = "Loaded" /\ root_node' = "Loaded" /\ nodes[<< >>] # NoNode
      BY <1>2, <1>3 DEF ShapeInv, RootInv
    <2>2. p # << >> => nodes'[<< >>] # NoNode
      BY <1>10, <2>1, RootInPath
    <2> QED BY <1>2, <2>1, <2>2 DEF RootInv
  <1>12. PhaseInv'
    <2>1. death_row' = {}
      BY <1>2, <1>3 DEF ShapeInv, PhaseInv
    <2>2. ASSUME p = << >>, NEW q \in Path PROVE nodes'[q] = NoNode
      <3>1. IsPrefixOf(p, q)
        BY <2>2, EmptyPrefix, PathSeq
      <3>2. nodes[q] # NoNode => q = p
        BY <1>3, <3>1, NothingLeftBelow
      <3> QED BY <1>10, <3>2
    <2> QED BY <1>2, <1>5, <2>1, <2>2 DEF PhaseInv
  <1>13. WayInv' /\ HashInv'
    BY <1>2, HashesLeft DEF WayInv, HashInv
  <1> QED BY <1>4, <1>7, <1>8, <1>9, <1>11, <1>12, <1>13 DEF ShapeInv

(***************************************************************************)
(* Every step keeps the invariant                                          *)
(***************************************************************************)
LEMMA StutterShape ==
  ASSUME ShapeInv, UNCHANGED vars, TInv'
  PROVE  ShapeInv'
  <1>1. UNCHANGED <<trie_db, flat_db, root_node, nodes, death_row, cache_leaf_modified,
                    pc, args, current_path, current_nodes_heights, hashes, updates, failed>>
    BY DEF vars, db, tree, iter, commit
  <1>2. View' = View /\ LinkInv' /\ AboveInv' /\ StoredInv'
    BY <1>1, SameNodes
  <1>3. Removing' = Removing /\ get(args.key)' = get(args.key)
    BY <1>1 DEF Removing, get
  <1>4. Pending' = Pending
    BY <1>1, <1>3 DEF Pending, get
  <1>5. HasShapeOf(View, Pending)' /\ HasShapeOf(trie_db, flat_db)' /\ ~failed'
    BY <1>1, <1>2, <1>4 DEF ShapeInv
  <1>6. RootInv'
    BY <1>1, <1>2 DEF ShapeInv, RootInv
  <1>7. PhaseInv'
    BY <1>1, <1>3 DEF ShapeInv, PhaseInv
  <1>8. WayInv'
    <2>1. /\ Linked(current_nodes_heights)' = Linked(current_nodes_heights)
          /\ Linked(Append(current_nodes_heights, Len(current_path)))'
               = Linked(Append(current_nodes_heights, Len(current_path)))
      BY <1>1 DEF Linked, NodeAtHeight
    <2>2. LastNode' = LastNode /\ LastHeight' = LastHeight
      BY <1>1 DEF LastNode, LastPath, LastHeight
    <2> QED BY <1>1, <1>2, <2>1, <2>2, Zenon DEF ShapeInv, WayInv, IsEdge
  <1>9. HashInv'
    <2>1. \A p : HashesOf(p)' = HashesOf(p)
      BY <1>1 DEF HashesOf, Lists, Below, Before, LeftOf, OwnHash
    <2> QED BY <1>1, <2>1 DEF ShapeInv, HashInv
  <1> QED BY <1>2, <1>5, <1>6, <1>7, <1>8, <1>9 DEF ShapeInv

\* A set that cannot read a node on its way leaves the tree as it was.
LEMMA SeekFailsShape ==
  ASSUME "remove" \notin ReadErrors, ShapeInv, SeekFails
  PROVE  ShapeInv' /\ View' = View /\ Pending' = Pending
  <1>1. args.value # ZERO /\ pc \in {"LoadRoot", "Traverse"}
    BY DEF SeekFails, MayFailToRead, SeekReadsDb
  <1>2. /\ pc' = "Idle"
        /\ UNCHANGED <<trie_db, flat_db, root_node, nodes, death_row, cache_leaf_modified,
                       hashes, updates, failed>>
    BY DEF SeekFails, ReadErrorFrame, Return, db, commit
  <1>3. TInv' /\ ~failed'
    BY <1>2, ReadErrorTInv DEF ShapeInv
  <1>4. View' = View /\ LinkInv' /\ AboveInv' /\ StoredInv'
    BY <1>2, SameNodes
  <1>5. ~Removing /\ ~Removing'
    BY <1>1, <1>2 DEF Removing
  <1>6. Pending' = Pending
    BY <1>2, <1>5 DEF Pending, get
  <1>7. HasShapeOf(View, Pending)' /\ HasShapeOf(trie_db, flat_db)'
    BY <1>2, <1>4, <1>6 DEF ShapeInv
  <1>8. RootInv' /\ WayInv' /\ HashInv'
    BY <1>1, <1>2, <1>4 DEF ShapeInv, RootInv, WayInv, HashInv
  <1>9. PhaseInv'
    BY <1>1, <1>2, <1>5 DEF ShapeInv, PhaseInv
  <1> QED BY <1>3, <1>4, <1>6, <1>7, <1>8, <1>9 DEF ShapeInv

LEMMA NoMergeReadFails == "remove" \notin ReadErrors => ~MergeReadFails
  BY DEF MergeReadFails, Deleting, MayFailToRead

LEMMA NextShape == "remove" \notin ReadErrors /\ ShapeInv /\ [Next]_vars => ShapeInv'
  <1> SUFFICES ASSUME "remove" \notin ReadErrors, ShapeInv, [Next]_vars PROVE ShapeInv'
    OBVIOUS
  <1>1. CASE UNCHANGED vars
    <2>1. TInv'
      BY NextTInv DEF ShapeInv
    <2> QED BY <1>1, <2>1, StutterShape
  <1>2. ASSUME NEW key \in Keys, NEW value \in Values,
               SetCached(key, value) \/ SetSame(key, value) \/ SetSeek(key, value)
        PROVE  ShapeInv'
    BY <1>2, StartShape, ValuesAssumption
  <1>3. ASSUME NEW key \in Keys, DeleteAbsent(key) \/ DeleteSeek(key)
        PROVE  ShapeInv'
    <2>1. <<1>> \in Felt \ {ZERO}
      BY DEF Felt, ZERO
    <2> QED BY <1>3, <2>1, StartShape
  <1>4. CASE CommitStart
    BY <1>4, CommitStartShape
  <1>5. CASE Step
    <2>1. CASE LoadRootNode
      BY <2>1, LoadRootShape
    <2>2. CASE TraverseOne
      BY <2>2, TraverseShape
    <2>3. CASE SetFirstLeaf
      BY <2>3, SetFirstLeafShape
    <2>4. CASE SetLeafUnderEdge
      BY <2>4, SetLeafUnderEdgeShape
    <2>5. CASE SetLeafUnderBinary
      BY <2>5, SetLeafUnderBinaryShape
    <2>6. CASE SetSplitsEdge
      BY <2>6, SetSplitsEdgeShape
    <2>7. CASE DeleteLastLeaf
      BY <2>7, DeleteLastLeafShape
    <2>8. CASE DeleteAtBranch
      BY <2>8, DeleteAtBranchShape
    <2>9. CASE DeleteAtBranchUnderEdge
      BY <2>9, DeleteAtBranchUnderEdgeShape
    <2>10. ASSUME NEW p \in Path, ComputeHash(p) PROVE ShapeInv'
      BY <2>10, ComputeHashShape
    <2>11. ASSUME NEW p \in Path, CommitSubtree(p) PROVE ShapeInv'
      BY <2>11, CommitSubtreeShape
    <2>12. CASE CommitWrite \/ CommitWriteFails
      BY <2>12, CommitWriteShape
    <2>13. CASE SeekFails
      BY <2>13, SeekFailsShape
    <2> QED BY <1>5, <2>1, <2>2, <2>3, <2>4, <2>5, <2>6, <2>7, <2>8, <2>9, <2>10, <2>11,
               <2>12, <2>13, NoMergeReadFails DEF Step
  <1>6. CASE Reopen
    BY <1>6, ReopenShape
  <1> QED BY <1>1, <1>2, <1>3, <1>4, <1>5, <1>6 DEF Next

(***************************************************************************)
(* The theorems                                                            *)
(***************************************************************************)
\* If removals can read every node, no call of a tree ever ends in an Err or a
\* panic of its own making (trie/tree.rs, trie/iterator.rs): no dangling slot,
\* no "Could not get node from db", no failed assert_eq! on a height, no branch
\* that is not binary and no "mismatched hash state", whatever the client does,
\* whichever sets fail to read, and in whatever order the parallel tasks hash
\* the nodes.
THEOREM NeverFails == "remove" \notin ReadErrors => (Spec => []NoFailure)
  <1> SUFFICES ASSUME "remove" \notin ReadErrors PROVE Spec => []NoFailure
    OBVIOUS
  <1>0. ShapeInv /\ [Next]_vars => ShapeInv'
    BY NextShape
  <1>1. ShapeInv => NoFailure
    BY DEF ShapeInv, NoFailure
  <1> QED BY <1>0, <1>1, InitShape, PTL DEF Spec

\* If removals can read every node, between calls the tree a client sees, in
\* memory and in the database, has the nodes and the edges of the trie of the
\* keys that get returns a value for (set and delete_leaf of trie/tree.rs):
\* every split and every merge keeps edges maximal, leaves no node behind and
\* loses none, also after sets that could not read a node.  After a removal
\* that could not it is false (line 812 of tree.rs, behind the mark of 809).
THEOREM OverlayCorrect == "remove" \notin ReadErrors => (Spec => []OverlayIsCanonical)
  <1> SUFFICES ASSUME "remove" \notin ReadErrors PROVE Spec => []OverlayIsCanonical
    OBVIOUS
  <1>0. ShapeInv /\ [Next]_vars => ShapeInv'
    BY NextShape
  <1>1. ShapeInv => OverlayIsCanonical
    <2> SUFFICES ASSUME ShapeInv, pc = "Idle" PROVE HasShapeOf(View, [k \in Key |-> get(k)])
      BY DEF OverlayIsCanonical
    <2>1. ~Removing
      BY DEF Removing
    <2>2. Pending = [k \in Key |-> get(k)]
      BY <2>1 DEF Pending
    <2> QED BY <2>2 DEF ShapeInv
  <1> QED BY <1>0, <1>1, InitShape, PTL DEF Spec

\* A node in memory hangs from a handle of another one.
LEMMA ParentInMemory ==
  ASSUME ShapeInv, NEW p \in Path, nodes[p] # NoNode, p # << >>
  PROVE  \E q \in Path : /\ nodes[q] # NoNode /\ Len(q) < Len(p) /\ IsPrefixOf(q, p)
                         /\ From(p, Len(q)) \in DOMAIN nodes[q].next
                         /\ nodes[q].next[From(p, Len(q))] = InMemory
  <1>1. HasNode(Pending, p) /\ Through(Pending, p) # {}
    BY NodeInMemory DEF HasNode
  <1>2. PICK q \in Path : HasNode(Pending, q) /\ \E l \in Labels(Pending, q) : q \o l = p
    BY <1>1, ArcAbove
  <1>3. PICK l \in Labels(Pending, q) : q \o l = p
    BY <1>2
  <1>4. ArcOf(Pending, q, l)
    BY <1>2, Arc
  <1>5. l \in Path /\ IsPrefixOf(q, p) /\ Len(q) < Len(p)
    BY <1>3, <1>4, PathLen DEF ArcOf
  <1>6. From(p, Len(q)) = l
    BY <1>3, <1>5, ConcatPath
  <1>7. View[q] # NoNode
    BY <1>2, NotInView
  <1>8. nodes[q] # NoNode
    BY <1>5, <1>7 DEF ShapeInv, AboveInv
  <1>9. l \in DOMAIN nodes[q].next
    BY <1>8, NodeInMemory
  <1>10. nodes[q].next[l] = InMemory
    BY <1>3, <1>8, <1>9, ArcInMemory
  <1> QED BY <1>5, <1>6, <1>8, <1>9, <1>10

\* If removals can read every node, between calls every handle of a node in
\* memory leads to a node, the one in its slot or one of the database that is
\* not on death row, and every occupied slot but the root's is led to by one
\* (NodeHandle and node_storage of trie/tree.rs): nothing leaks and nothing
\* dangles.
THEOREM HandlesCorrect == "remove" \notin ReadErrors => (Spec => []HandlesResolve)
  <1> SUFFICES ASSUME "remove" \notin ReadErrors PROVE Spec => []HandlesResolve
    OBVIOUS
  <1>0. ShapeInv /\ [Next]_vars => ShapeInv'
    BY NextShape
  <1>1. ShapeInv => HandlesResolve
    <2> SUFFICES ASSUME ShapeInv, pc = "Idle" PROVE HandlesResolve
      BY DEF HandlesResolve
    <2>1. (root_node = "Loaded") = (nodes[<< >>] # NoNode)
      BY DEF ShapeInv, RootInv
    <2>2. updates = NoUpdates
      BY DEF ShapeInv, PhaseInv
    <2>3. ASSUME NEW p \in Path, nodes[p] # NoNode, NEW l \in DOMAIN nodes[p].next
          PROVE  IF nodes[p].next[l] = InMemory THEN nodes[p \o l] # NoNode
                 ELSE Len(p \o l) < MaxHeight =>
                        nodes[p \o l] = NoNode /\ DbNode(p \o l) # NoNode
      <3>1. /\ nodes[p].next[l] = InMemory <=> nodes[p \o l] # NoNode
            /\ Len(p \o l) < MaxHeight => View[p \o l] # NoNode
        BY <2>3, ArcInMemory
      <3>2. p \o l \in Path
        BY <2>3, NodeInMemory DEF IsNodeAt
      <3>3. View[p \o l] = IF nodes[p \o l] # NoNode THEN nodes[p \o l] ELSE DbNode(p \o l)
        BY <2>2, <3>2, ViewInCall
      <3> QED BY <3>1, <3>3
    <2>4. ASSUME NEW p \in Path, nodes[p] # NoNode, p # << >>
          PROVE  \E n \in 0..(Len(p) - 1) :
                   LET q == First(p, n)
                   IN  /\ nodes[q] # NoNode
                       /\ From(p, n) \in DOMAIN nodes[q].next
                       /\ nodes[q].next[From(p, n)] = InMemory
      <3>1. PICK q \in Path : /\ nodes[q] # NoNode /\ Len(q) < Len(p) /\ IsPrefixOf(q, p)
                              /\ From(p, Len(q)) \in DOMAIN nodes[q].next
                              /\ nodes[q].next[From(p, Len(q))] = InMemory
        BY <2>4, ParentInMemory
      <3>2. Len(q) \in Nat /\ Len(p) \in Nat
        BY PathLen
      <3>3. Len(q) \in 0..(Len(p) - 1)
        BY <3>1, <3>2
      <3>4. First(p, Len(q)) = q
        BY <3>1 DEF IsPrefixOf
      <3> QED BY <3>1, <3>3, <3>4
    <2> QED BY <2>1, <2>3, <2>4 DEF HandlesResolve
  <1> QED BY <1>0, <1>1, InitShape, PTL DEF Spec
=============================================================================
