-------------------------- MODULE MultiProof_proofs --------------------------
(***************************************************************************)
(* Multi-proofs, for every height, every set of keys and values, any list  *)
(* of keys to prove and any client: the iterator that goes from key to key *)
(* stays on nodes in memory and finds the leaf of each key, no call fails, *)
(* a proof leaves the tree and the database as the other calls need them,  *)
(* verify_proof confirms no value but the one of the tree, and the proofs  *)
(* that get_multi_proof makes verify.                                      *)
(***************************************************************************)
EXTENDS MultiProof, MerkleTreeValues_proofs, FiniteSetTheorems

USE MaxHeightAssumption, OptionAssumption

(***************************************************************************)
(* The inductive invariant                                                 *)
(***************************************************************************)
InProof == pc \in {"ProofKey", "ProofVisit", "ProofDescend", "Proved"}

\* What holds of the tree between two calls (Holds), wherever the iterator is.
Rests(m, d) ==
    /\ CoreInv /\ RootKnown /\ failed = FALSE /\ ProperInv
    /\ flat_db \in [Key -> Felt \cup {None}] /\ death_row \subseteq Path
    /\ cache_leaf_modified \in [Key -> Felt \cup {None, Remove}]
    /\ latest \in [Key -> Felt \cup {None}]
    /\ hashes = NoHashes /\ updates = NoUpdates
    /\ InTree(m) /\ ReadsTree(m) /\ InDb(d)

\* The iterator has gone down `path` through the nodes at the heights `hs`.
EndOf(hs, path, i) == IF i < Len(hs) THEN hs[i + 1] ELSE Len(path)

LabelOf(hs, path, i) == SubSeq(path, hs[i] + 1, EndOf(hs, path, i))

WalkNode(hs, path, i) == nodes[First(path, hs[i])]

\* The i-th node is in memory and one of its arcs leads to the next.
Follows(hs, path, i) ==
    /\ WalkNode(hs, path, i) # NoNode
    /\ LabelOf(hs, path, i) \in DOMAIN WalkNode(hs, path, i).next

Held(hs, path, i) == WalkNode(hs, path, i).next[LabelOf(hs, path, i)] = InMemory

Heights(hs, path) ==
    /\ hs \in Seq(0..(MaxHeight - 1)) /\ path \in Path
    /\ hs = << >> => path = << >>
    /\ hs # << >> => hs[1] = 0
    /\ \A i, j \in 1..Len(hs) : i < j => hs[i] < hs[j]
    /\ \A i \in 1..Len(hs) : hs[i] < Len(path)

Walked(hs, path) ==
    /\ Heights(hs, path)
    /\ \A i \in 1..Len(hs) : Follows(hs, path, i)
    /\ \A i \in 1..(Len(hs) - 1) : Held(hs, path, i)

\* Where the iterator is between two keys, and on its way to the next.
BetweenKeys(m) ==
    /\ Walked(current_nodes_heights, current_path)
    /\ done > 0 => keys[done] \in Key /\ leaf_hash = m[keys[done]]

OnTheWay ==
    /\ Walked(current_nodes_heights, current_path)
    /\ \A i \in 1..Len(current_nodes_heights) : Held(current_nodes_heights, current_path, i)
    /\ nodes[current_path] # NoNode
    /\ done < Len(keys) /\ args.key = keys[done + 1] /\ args.key \in Key
    /\ IsPrefixOf(current_path, args.key)

ProofAt(m) ==
    /\ keys \in Seq(Path) /\ done \in 0..Len(keys)
    /\ pc = "ProofKey" => BetweenKeys(m)
    /\ pc \in {"ProofVisit", "ProofDescend"} => OnTheWay

ProofHolds(m, d) ==
    IF InProof THEN Rests(m, d) /\ ProofAt(m) ELSE Holds(m, d) /\ done = 0

ProofInv == \E m, d : ProofHolds(m, d)

(***************************************************************************)
(* Between a proof and the other calls                                     *)
(***************************************************************************)
LEMMA IdleRests ==
  ASSUME NEW m, NEW d, Holds(m, d), pc = "Idle"
  PROVE  Rests(m, d) /\ current_path = << >> /\ current_nodes_heights = << >>
  <1>1. ShapeInv /\ ProperInv /\ InTree(m) /\ ReadsTree(m) /\ InDb(d)
    BY DEF Holds
  <1>2. TypeOK /\ IteratorOnKey /\ ~failed /\ RootInv /\ PhaseInv
    BY <1>1 DEF ShapeInv, TInv
  <1>3. RootKnown
    BY <1>2 DEF TypeOK, RootInv, RootKnown
  <1>4. hashes = NoHashes /\ updates = NoUpdates
    BY <1>2 DEF PhaseInv
  <1>5. current_path = << >> /\ current_nodes_heights = << >>
    BY <1>2 DEF IteratorOnKey
  <1>6. failed = FALSE
    BY <1>2 DEF TypeOK
  <1> QED BY <1>1, <1>2, <1>3, <1>4, <1>5, <1>6, ShapeCore DEF Rests, TypeOK

\* There is no iterator, or it has not moved yet.
AtStart == current_path = << >> /\ current_nodes_heights = << >>

Returned == pc = "Idle" /\ args = NoArgs /\ AtStart

LEMMA RestsIdle ==
  ASSUME NEW m, NEW d
  PROVE  Rests(m, d) /\ Returned => Holds(m, d)
  <1> SUFFICES ASSUME Rests(m, d), pc = "Idle", args = NoArgs, current_path = << >>,
                      current_nodes_heights = << >>
               PROVE  Holds(m, d)
    BY DEF Returned, AtStart
  <1>1. TypeOK
    <2>1. NodesTyped /\ RootKnown /\ args \in [key : Key, value : Felt]
      BY EmptyTypes DEF Rests, CoreInv
    <2>2. hashes \in [Path -> Seq(Felt)]
      BY EmptyTypes DEF Rests
    <2>3. current_nodes_heights \in Seq(0..(MaxHeight - 1)) /\ current_path \in Path
      BY RootInPath
    <2> QED BY <2>1, <2>2, <2>3 DEF Rests, TypeOK, NodesTyped, RootKnown
  <1>2. IteratorOnKey
    BY DEF IteratorOnKey
  <1>3. RootInv /\ PhaseInv /\ WayInv /\ HashInv
    BY DEF Rests, RootKnown, RootInv, PhaseInv, WayInv, HashInv, Removing
  <1>4. ShapeInv
    BY <1>1, <1>2, <1>3 DEF Rests, CoreInv, ShapeInv, TInv
  <1> QED BY <1>4 DEF Rests, Holds, ArgsInv, HashesRight

\* A step that loads nodes or caches their hashes.
LEMMA LoadRests ==
  ASSUME NEW m, NEW d, Rests(m, d), ~Removing, ~Removing', RootKnown',
         UNCHANGED <<trie_db, flat_db, death_row, cache_leaf_modified, hashes, updates, failed, latest>>,
         IsNodeMap(nodes', {NoNode}), LinkInv', AboveInv',
         \A p \in Path : SameNode(View[p], View'[p]),
         \A p \in Path : nodes'[p] # NoNode /\ nodes'[p] # View[p] =>
             /\ nodes[p] # NoNode /\ Proper(nodes'[p])
             /\ \A l \in DOMAIN nodes'[p].next : nodes'[p].next[l] # InMemory =>
                   l \in DOMAIN nodes[p].next /\ nodes'[p].next[l] = nodes[p].next[l],
         \A p \in Path : nodes'[p] = NoNode => nodes[p] = NoNode
  PROVE  Rests(m, d)'
  <1>1. CoreInv /\ InTree(m) /\ ReadsTree(m) /\ InDb(d) /\ ProperInv /\ updates = NoUpdates
    BY DEF Rests
  <1>2. \A k \in Key : get(k)' = get(k)
    BY DEF get
  <1>3. Pending' = Pending
    BY <1>2 DEF Pending
  <1>4. HasShapeOf(View', Pending')
    BY <1>1, <1>3, ShapeOfNodes DEF CoreInv
  <1>5. CoreInv'
    <2>1. NodesTyped' /\ StoredInv' /\ HasShapeOf(trie_db, flat_db)'
      BY <1>1 DEF CoreInv, NodesTyped, StoredInv, Stored
    <2> QED BY <1>4, <2>1 DEF CoreInv
  <1>6. ASSUME NEW p \in Path, nodes'[p] = NoNode PROVE nodes[p] = NoNode /\ View'[p] = View[p]
    <2>1. nodes[p] = NoNode
      BY <1>6
    <2> QED BY <1>6, <2>1 DEF View, DbNode
  <1>7. InTree(m)'
    BY <1>1, <1>3, <1>6, CoreLoaded
  <1>8. ProperInv'
    <2> SUFFICES ASSUME NEW p \in Path, nodes'[p] # NoNode PROVE Proper(nodes'[p])
      BY DEF ProperInv
    <2>1. CASE nodes'[p] = View[p]
      <3>1. Proper(View[p])
        BY <1>1, <2>1, CoreProper
      <3> QED BY <2>1, <3>1
    <2> QED BY <2>1
  <1>9. ReadsTree(m)' /\ InDb(d)'
    <2>1. ReadsTree(m)'
      BY <1>1, <1>2 DEF ReadsTree
    <2> QED BY <1>1, <2>1, SameDb
  <1> QED BY <1>1, <1>5, <1>7, <1>8, <1>9 DEF Rests

LEMMA SameRests ==
  ASSUME NEW m, NEW d, Rests(m, d), ~Removing, ~Removing',
         UNCHANGED <<trie_db, flat_db, death_row, cache_leaf_modified, hashes, updates, failed,
                     latest, root_node, nodes>>
  PROVE  Rests(m, d)'
  <1>1. View' = View
    BY DEF View, DbNode
  <1>2. LinkInv' /\ AboveInv' /\ RootKnown' /\ IsNodeMap(nodes', {NoNode})
    BY <1>1 DEF Rests, CoreInv, NodesTyped, LinkInv, LinkedAt, AboveInv, RootKnown
  <1>3. \A p \in Path : SameNode(View[p], View'[p])
    BY <1>1 DEF SameNode
  <1>4. ASSUME NEW p \in Path, nodes'[p] # NoNode, nodes'[p] # View[p] PROVE FALSE
    BY <1>4, CoreNodeInMemory DEF Rests
  <1> QED BY <1>2, <1>3, <1>4, LoadRests

LEMMA NotRemoving == InProof \/ pc = "Idle" => ~Removing
  BY DEF InProof, Removing

LEMMA NotRemovingNext == InProof' \/ pc' = "Idle" => ~Removing'
  BY DEF InProof, Removing

(***************************************************************************)
(* The way of the iterator                                                 *)
(***************************************************************************)
LEMMA PieceIs ==
  ASSUME NEW S, NEW s \in Seq(S), NEW a \in Nat, NEW b \in a..Len(s)
  PROVE  /\ SubSeq(s, a + 1, b) \in Seq(S) /\ Len(SubSeq(s, a + 1, b)) = b - a
         /\ \A i \in 1..(b - a) : SubSeq(s, a + 1, b)[i] = s[a + i]
  OBVIOUS

\* Pieces of a path are pieces of every path that goes on from it.
LEMMA PrefixPieces ==
  ASSUME NEW p \in Path, NEW q \in Path, IsPrefixOf(p, q), NEW a \in 0..Len(p), NEW b \in a..Len(p)
  PROVE  First(p, a) = First(q, a) /\ SubSeq(p, a + 1, b) = SubSeq(q, a + 1, b)
  <1>1. /\ p \in Seq(Bit) /\ q \in Seq(Bit) /\ Len(p) <= Len(q) /\ Len(p) \in Nat /\ Len(q) \in Nat
        /\ \A i \in 1..Len(p) : p[i] = q[i]
    BY PathSeq, PrefixIs
  <1>2. ASSUME NEW x \in 0..Len(p), NEW y \in x..Len(p)
        PROVE  SubSeq(p, x + 1, y) = SubSeq(q, x + 1, y)
    <2>1. x \in Nat /\ y \in x..Len(p) /\ y \in x..Len(q)
      BY <1>1
    <2>2. /\ SubSeq(p, x + 1, y) \in Seq(Bit) /\ Len(SubSeq(p, x + 1, y)) = y - x
          /\ \A i \in 1..(y - x) : SubSeq(p, x + 1, y)[i] = p[x + i]
      BY <1>1, <2>1, PieceIs
    <2>3. /\ SubSeq(q, x + 1, y) \in Seq(Bit) /\ Len(SubSeq(q, x + 1, y)) = y - x
          /\ \A i \in 1..(y - x) : SubSeq(q, x + 1, y)[i] = q[x + i]
      BY <1>1, <2>1, PieceIs
    <2>4. \A i \in 1..(y - x) : x + i \in 1..Len(p)
      BY <1>1
    <2>5. \A i \in 1..(y - x) : SubSeq(p, x + 1, y)[i] = SubSeq(q, x + 1, y)[i]
      BY <1>1, <2>2, <2>3, <2>4
    <2> QED BY <2>2, <2>3, <2>5, SameSeq
  <1>3. SubSeq(p, 0 + 1, a) = SubSeq(q, 0 + 1, a)
    <2>1. 0 \in 0..Len(p) /\ a \in 0..Len(p)
      BY <1>1
    <2> QED BY <1>2, <2>1
  <1> QED BY <1>2, <1>3 DEF First

LEMMA WalkPlaces ==
  ASSUME NEW hs, NEW path, Heights(hs, path), NEW i \in 1..Len(hs)
  PROVE  /\ hs[i] \in 0..Len(path) /\ Len(hs) \in Nat /\ Len(path) \in Nat
         /\ EndOf(hs, path, i) \in hs[i]..Len(path) /\ hs[i] < EndOf(hs, path, i)
         /\ First(path, hs[i]) \in Path /\ Len(First(path, hs[i])) = hs[i]
         /\ IsPrefixOf(First(path, hs[i]), path)
  <1>1. /\ hs \in Seq(0..(MaxHeight - 1)) /\ path \in Path /\ path \in Seq(Bit)
        /\ Len(path) \in Nat /\ Len(path) <= MaxHeight
        /\ \A j \in 1..Len(hs) : i < j => hs[i] < hs[j]
        /\ \A j \in 1..Len(hs) : hs[j] < Len(path)
    BY PathSeq DEF Heights
  <1>2. hs[i] \in 0..(MaxHeight - 1) /\ hs[i] < Len(path) /\ Len(hs) \in Nat
    BY <1>1
  <1>3. hs[i] \in 0..Len(path)
    BY <1>1, <1>2
  <1>4. EndOf(hs, path, i) \in hs[i]..Len(path) /\ hs[i] < EndOf(hs, path, i)
    <2>1. CASE i < Len(hs)
      <3>1. i + 1 \in 1..Len(hs) /\ i < i + 1
        BY <1>2, <2>1
      <3>2. hs[i + 1] \in 0..(MaxHeight - 1) /\ hs[i] < hs[i + 1] /\ hs[i + 1] < Len(path)
        BY <1>1, <3>1
      <3> QED BY <1>1, <1>2, <2>1, <3>2 DEF EndOf
    <2>2. CASE ~(i < Len(hs))
      BY <1>1, <1>2, <2>2 DEF EndOf
    <2> QED BY <2>1, <2>2
  <1>5. /\ First(path, hs[i]) \in Seq(Bit) /\ Len(First(path, hs[i])) = hs[i]
        /\ \A j \in 1..hs[i] : First(path, hs[i])[j] = path[j]
    BY <1>1, <1>3, FirstSeq
  <1>6. First(path, hs[i]) \in Path
    BY <1>1, <1>3, <1>5, PathSeq
  <1>7. IsPrefixOf(First(path, hs[i]), path)
    BY <1>1, <1>3, <1>5, PrefixIs
  <1> QED BY <1>1, <1>2, <1>3, <1>4, <1>5, <1>6, <1>7

\* Nodes that stay in memory, with their arcs and their handles to memory.
Grows ==
    \A q \in Path : nodes[q] # NoNode =>
        /\ nodes'[q] # NoNode /\ DOMAIN nodes'[q].next = DOMAIN nodes[q].next
        /\ \A l \in DOMAIN nodes[q].next : nodes[q].next[l] = InMemory => nodes'[q].next[l] = InMemory

LEMMA WalkGrows ==
  ASSUME NEW hs, NEW path, Walked(hs, path), Grows
  PROVE  /\ Walked(hs, path)'
         /\ \A i \in 1..Len(hs) : Held(hs, path, i) => Held(hs, path, i)'
  <1>1. Heights(hs, path)
    BY DEF Walked
  <1>2. ASSUME NEW i \in 1..Len(hs)
        PROVE  Follows(hs, path, i)' /\ (Held(hs, path, i) => Held(hs, path, i)')
    <2>1. PICK q, l : q = First(path, hs[i]) /\ l = LabelOf(hs, path, i)
      OBVIOUS
    <2>2. q \in Path
      BY <1>1, <2>1, WalkPlaces
    <2>3. nodes[q] # NoNode /\ l \in DOMAIN nodes[q].next
      BY <2>1 DEF Walked, Follows, WalkNode
    <2>4. /\ nodes'[q] # NoNode /\ l \in DOMAIN nodes'[q].next
          /\ nodes[q].next[l] = InMemory => nodes'[q].next[l] = InMemory
      BY <2>2, <2>3 DEF Grows
    <2>5. LabelOf(hs, path, i)' = l
      BY <2>1 DEF LabelOf, EndOf
    <2> QED BY <2>1, <2>4, <2>5 DEF Follows, WalkNode, Held
  <1>3. Heights(hs, path)'
    BY <1>1 DEF Heights
  <1>4. \A i \in 1..(Len(hs) - 1) : i \in 1..Len(hs)
    <2>1. Len(hs) \in Nat
      BY <1>1 DEF Heights
    <2> QED BY <2>1
  <1> QED BY <1>2, <1>3, <1>4 DEF Walked

\* The iterator goes down one more arc.
GoesOn(hs, path, l, hs2, path2) == hs2 = Append(hs, Len(path)) /\ path2 = path \o l

LEMMA WalkOn ==
  ASSUME NEW hs, NEW path, Walked(hs, path), \A i \in 1..Len(hs) : Held(hs, path, i),
         nodes[path] # NoNode, Len(path) < MaxHeight,
         NEW l \in DOMAIN nodes[path].next, l \in Path, Len(l) >= 1, path \o l \in Path,
         NEW hs2, NEW path2, GoesOn(hs, path, l, hs2, path2)
  PROVE  /\ Walked(hs2, path2) /\ Len(hs2) = Len(hs) + 1 /\ hs2 # << >>
         /\ \A i \in 1..Len(hs) : Held(hs2, path2, i)
         /\ LabelOf(hs2, path2, Len(hs2)) = l /\ First(path2, hs2[Len(hs2)]) = path
  <1> USE DEF GoesOn
  <1>1. /\ Heights(hs, path) /\ hs \in Seq(0..(MaxHeight - 1)) /\ path \in Path
        /\ Len(hs) \in Nat /\ Len(path) \in Nat /\ Len(l) \in Nat
    BY PathLen DEF Walked, Heights
  <1>2. /\ path2 \in Path /\ Len(path2) = Len(path) + Len(l) /\ IsPrefixOf(path, path2)
        /\ From(path2, Len(path)) = l
    BY <1>1, ConcatPath
  <1>3. /\ hs2 \in Seq(0..(MaxHeight - 1)) /\ Len(hs2) = Len(hs) + 1 /\ hs2[Len(hs) + 1] = Len(path)
        /\ \A i \in 1..Len(hs) : hs2[i] = hs[i]
    <2>1. Len(path) \in 0..(MaxHeight - 1)
      BY <1>1
    <2> QED BY <1>1, <2>1
  <1>4. Heights(hs2, path2)
    <2>1. \A i \in 1..Len(hs2) : i \in 1..Len(hs) \/ i = Len(hs) + 1
      BY <1>1, <1>3
    <2>2. \A i \in 1..Len(hs) : hs[i] < Len(path) /\ hs[i] \in Nat
      BY <1>1, WalkPlaces DEF Heights
    <2>3. \A i \in 1..Len(hs2) : hs2[i] < Len(path2)
      BY <1>1, <1>2, <1>3, <2>1, <2>2
    <2>4. ASSUME NEW i \in 1..Len(hs2), NEW j \in 1..Len(hs2), i < j PROVE hs2[i] < hs2[j]
      <3>1. i \in 1..Len(hs)
        BY <1>1, <1>3, <2>4
      <3>2. CASE j \in 1..Len(hs)
        <4>1. hs[i] < hs[j]
          BY <1>1, <2>4, <3>1, <3>2 DEF Heights
        <4> QED BY <1>3, <3>1, <3>2, <4>1
      <3>3. CASE j = Len(hs) + 1
        BY <1>3, <2>2, <3>1, <3>3
      <3> QED BY <2>1, <3>2, <3>3
    <2>5. hs2[1] = 0
      <3>1. CASE hs = << >>
        BY <1>1, <1>3, <3>1 DEF Heights
      <3>2. CASE hs # << >>
        <4>1. hs[1] = 0 /\ 1 \in 1..Len(hs)
          BY <1>1, <3>2 DEF Heights
        <4> QED BY <1>3, <4>1
      <3> QED BY <3>1, <3>2
    <2>6. hs2 # << >>
      <3>1. Len(hs2) # 0
        BY <1>1, <1>3
      <3> QED BY <3>1
    <2> QED BY <1>2, <1>3, <2>3, <2>4, <2>5, <2>6 DEF Heights
  <1>5. ASSUME NEW i \in 1..Len(hs) PROVE Follows(hs2, path2, i) /\ Held(hs2, path2, i)
    <2>1. hs2[i] = hs[i] /\ EndOf(hs2, path2, i) = EndOf(hs, path, i)
      <3>1. CASE i < Len(hs)
        <4>1. i + 1 \in 1..Len(hs) /\ i < Len(hs2)
          BY <1>1, <1>3, <3>1
        <4> QED BY <1>3, <3>1, <4>1 DEF EndOf
      <3>2. CASE ~(i < Len(hs))
        <4>1. i = Len(hs) /\ i < Len(hs2) /\ i + 1 = Len(hs) + 1
          BY <1>1, <1>3, <3>2
        <4> QED BY <1>3, <3>2, <4>1 DEF EndOf
      <3> QED BY <3>1, <3>2
    <2>2. PICK a, b : a = hs[i] /\ b = EndOf(hs, path, i)
      OBVIOUS
    <2>3. a \in 0..Len(path) /\ b \in a..Len(path)
      BY <1>1, <2>2, WalkPlaces
    <2>4. First(path, a) = First(path2, a) /\ SubSeq(path, a + 1, b) = SubSeq(path2, a + 1, b)
      BY <1>1, <1>2, <2>3, PrefixPieces
    <2>5. LabelOf(hs2, path2, i) = LabelOf(hs, path, i) /\ WalkNode(hs2, path2, i) = WalkNode(hs, path, i)
      BY <2>1, <2>2, <2>4 DEF LabelOf, WalkNode
    <2>6. Follows(hs, path, i) /\ Held(hs, path, i)
      BY DEF Walked
    <2> QED BY <2>5, <2>6 DEF Follows, Held
  <1>6. LabelOf(hs2, path2, Len(hs2)) = l /\ First(path2, hs2[Len(hs2)]) = path
    <2>1. hs2[Len(hs2)] = Len(path) /\ EndOf(hs2, path2, Len(hs2)) = Len(path2)
      BY <1>1, <1>3 DEF EndOf
    <2>2. LabelOf(hs2, path2, Len(hs2)) = l
      BY <1>2, <2>1 DEF LabelOf, From
    <2>3. First(path2, Len(path)) = path
      BY <1>2 DEF IsPrefixOf
    <2> QED BY <2>1, <2>2, <2>3
  <1>7. Follows(hs2, path2, Len(hs2))
    BY <1>6 DEF Follows, WalkNode
  <1>8. Walked(hs2, path2)
    <2>1. \A i \in 1..Len(hs2) : i \in 1..Len(hs) \/ i = Len(hs2)
      BY <1>1, <1>3
    <2>2. \A i \in 1..(Len(hs2) - 1) : i \in 1..Len(hs)
      BY <1>1, <1>3
    <2> QED BY <1>4, <1>5, <1>7, <2>1, <2>2 DEF Walked
  <1>9. hs2 # << >>
    <2>1. Len(hs2) # 0
      BY <1>1, <1>3
    <2> QED BY <2>1
  <1> QED BY <1>3, <1>5, <1>6, <1>8, <1>9

\* It goes back to one of the nodes it went through.
LEMMA WalkBack ==
  ASSUME NEW hs, NEW path, Walked(hs, path), NEW c \in 1..Len(hs),
         NEW hs2, hs2 = First(hs, c - 1), NEW path2, path2 = First(path, hs[c])
  PROVE  /\ Walked(hs2, path2) /\ \A i \in 1..Len(hs2) : Held(hs2, path2, i)
         /\ nodes[path2] # NoNode
  <1>1. /\ Heights(hs, path) /\ hs \in Seq(0..(MaxHeight - 1)) /\ path \in Path
        /\ Len(hs) \in Nat /\ Len(path) \in Nat
    BY PathLen DEF Walked, Heights
  <1>2. path2 \in Path /\ Len(path2) = hs[c] /\ IsPrefixOf(path2, path) /\ hs[c] \in 0..Len(path)
    BY <1>1, WalkPlaces
  <1>3. c - 1 \in 0..Len(hs)
    BY <1>1
  <1>4. hs2 \in Seq(0..(MaxHeight - 1)) /\ Len(hs2) = c - 1 /\ \A i \in 1..(c - 1) : hs2[i] = hs[i]
    <2>1. PICK S, b : S = 0..(MaxHeight - 1) /\ b = c - 1
      OBVIOUS
    <2>2. hs \in Seq(S) /\ 0 \in Nat /\ b \in 0..Len(hs) /\ b - 0 = b /\ 0 + 1 = 1
      BY <1>1, <1>3, <2>1
    <2>3. /\ SubSeq(hs, 0 + 1, b) \in Seq(S) /\ Len(SubSeq(hs, 0 + 1, b)) = b - 0
          /\ \A i \in 1..(b - 0) : SubSeq(hs, 0 + 1, b)[i] = hs[0 + i]
      BY <2>2, PieceIs
    <2>4. hs2 = SubSeq(hs, 0 + 1, b)
      BY <2>1, <2>2 DEF First
    <2>5. \A i \in 1..b : hs2[i] = hs[i]
      BY <2>2, <2>3, <2>4
    <2> QED BY <2>1, <2>2, <2>3, <2>4, <2>5
  <1>5. \A i \in 1..Len(hs2) : i \in 1..Len(hs) /\ i < c /\ i + 1 \in 1..Len(hs) /\ hs2[i] = hs[i]
    <2>1. Len(hs) \in Nat /\ Len(hs2) = c - 1 /\ c \in 1..Len(hs)
      BY <1>1, <1>4
    <2>2. \A i \in 1..(c - 1) : i \in 1..Len(hs) /\ i < c /\ i + 1 \in 1..Len(hs)
      BY <2>1
    <2>3. \A i \in 1..(c - 1) : hs2[i] = hs[i]
      BY <1>4
    <2> QED BY <2>1, <2>2, <2>3
  <1>6. \A i \in 1..Len(hs2) : hs[i] < hs[c]
    BY <1>1, <1>5 DEF Heights
  <1>7. Heights(hs2, path2)
    <2>1. \A i, j \in 1..Len(hs2) : i < j => hs2[i] < hs2[j]
      BY <1>1, <1>5 DEF Heights
    <2>2. \A i \in 1..Len(hs2) : hs2[i] < Len(path2)
      BY <1>2, <1>5, <1>6
    <2>3. ASSUME hs2 # << >> PROVE hs2[1] = 0
      <3>1. 1 \in 1..Len(hs2) /\ hs # << >>
        BY <1>1, <1>4, <2>3
      <3> QED BY <1>1, <1>5, <3>1 DEF Heights
    <2>4. ASSUME hs2 = << >> PROVE path2 = << >>
      <3>1. c = 1 /\ hs # << >>
        <4>1. Len(hs2) = 0
          BY <2>4
        <4> QED BY <1>1, <1>4, <4>1
      <3>2. Len(path2) = 0 /\ path2 \in Seq(Bit)
        BY <1>1, <1>2, <3>1, PathSeq DEF Heights
      <3> QED BY <3>2
    <2> QED BY <1>2, <1>4, <2>1, <2>2, <2>3, <2>4 DEF Heights
  <1>8. ASSUME NEW i \in 1..Len(hs2) PROVE Follows(hs2, path2, i) /\ Held(hs2, path2, i)
    <2>1. EndOf(hs2, path2, i) = hs[i + 1] /\ EndOf(hs, path, i) = hs[i + 1]
      <3>1. i < Len(hs)
        BY <1>1, <1>5
      <3>2. CASE i < Len(hs2)
        <4>1. i + 1 \in 1..Len(hs2)
          BY <1>4, <3>2
        <4>2. hs2[i + 1] = hs[i + 1]
          BY <1>5, <4>1
        <4> QED BY <3>1, <3>2, <4>2 DEF EndOf
      <3>3. CASE ~(i < Len(hs2))
        <4>1. i + 1 = c
          BY <1>4, <3>3
        <4> QED BY <1>2, <3>1, <3>3, <4>1 DEF EndOf
      <3> QED BY <3>2, <3>3
    <2>2. PICK a, b : a = hs[i] /\ b = hs[i + 1]
      OBVIOUS
    <2>3. a \in 0..Len(path2) /\ b \in a..Len(path2)
      <3>1. EndOf(hs2, path2, i) \in hs2[i]..Len(path2) /\ hs2[i] \in 0..Len(path2)
        BY <1>7, WalkPlaces
      <3> QED BY <1>5, <2>1, <2>2, <3>1
    <2>4. First(path2, a) = First(path, a) /\ SubSeq(path2, a + 1, b) = SubSeq(path, a + 1, b)
      BY <1>1, <1>2, <2>3, PrefixPieces
    <2>5. LabelOf(hs2, path2, i) = LabelOf(hs, path, i) /\ WalkNode(hs2, path2, i) = WalkNode(hs, path, i)
      BY <1>5, <2>1, <2>2, <2>4 DEF LabelOf, WalkNode
    <2>6. i \in 1..Len(hs) /\ i \in 1..(Len(hs) - 1)
      BY <1>1, <1>5
    <2>7. Follows(hs, path, i) /\ Held(hs, path, i)
      BY <2>6 DEF Walked
    <2> QED BY <2>5, <2>7 DEF Follows, Held
  <1>9. Walked(hs2, path2)
    <2>1. \A i \in 1..(Len(hs2) - 1) : i \in 1..Len(hs2)
      BY <1>3, <1>4
    <2> QED BY <1>7, <1>8, <2>1 DEF Walked
  <1>10. nodes[path2] # NoNode
    BY DEF Walked, Follows, WalkNode
  <1> QED BY <1>8, <1>9, <1>10

\* A list of heights that grows: those below a bound come first.
LEMMA CountBelow ==
  ASSUME NEW hs \in Seq(Nat), \A i, j \in 1..Len(hs) : i < j => hs[i] < hs[j], NEW bound \in Nat,
         NEW c, c = Cardinality({i \in DOMAIN hs : hs[i] < bound})
  PROVE  c \in 0..Len(hs) /\ (c # 0 => hs[c] < bound)
  <1> DEFINE S == {i \in DOMAIN hs : hs[i] < bound}
  <1>1. DOMAIN hs = 1..Len(hs) /\ Len(hs) \in Nat
    OBVIOUS
  <1>2. S \in SUBSET (1..Len(hs)) /\ c = Cardinality(S)
    BY <1>1
  <1>3. \A i \in S : hs[i] < bound /\ i \in 1..Len(hs)
    BY <1>1
  <1>4. \A i \in 1..Len(hs) : hs[i] < bound => i \in S
    BY <1>1
  <1> HIDE DEF S
  <1>5. \A n \in Nat : IsFiniteSet(1..n) /\ Cardinality(1..n) = n
    <2> TAKE n \in Nat
    <2>1. 1 \in Int /\ n \in Int
      OBVIOUS
    <2>2. IsFiniteSet(1..n) /\ Cardinality(1..n) = IF 1 > n THEN 0 ELSE n - 1 + 1
      BY <2>1, FS_Interval
    <2> QED BY <2>2
  <1>6. IsFiniteSet(S) /\ c <= Len(hs) /\ c \in Nat
    <2>1. IsFiniteSet(S) /\ Cardinality(S) <= Cardinality(1..Len(hs))
      BY <1>1, <1>2, <1>5, FS_Subset
    <2>2. Cardinality(S) \in Nat
      BY <2>1, FS_CardinalityType
    <2> QED BY <1>1, <1>2, <1>5, <2>1, <2>2
  <1>7. ASSUME c # 0, ~(hs[c] < bound) PROVE FALSE
    <2>1. c \in 1..Len(hs) /\ c - 1 \in Nat
      BY <1>1, <1>6, <1>7
    <2>2. ASSUME NEW i \in S PROVE i \in 1..(c - 1)
      <3>1. i \in 1..Len(hs) /\ hs[i] < bound /\ hs[i] \in Nat /\ hs[c] \in Nat
        BY <1>3, <2>1
      <3>2. ~(c < i) /\ c # i
        <4>1. c < i => hs[c] < hs[i]
          BY <2>1, <3>1
        <4> QED BY <1>7, <3>1, <4>1
      <3> QED BY <2>1, <3>1, <3>2
    <2>3. S \in SUBSET (1..(c - 1))
      BY <2>2
    <2>4. Cardinality(S) <= Cardinality(1..(c - 1))
      BY <1>5, <2>1, <2>3, FS_Subset
    <2> QED BY <1>2, <1>5, <1>6, <2>1, <2>4
  <1> QED BY <1>1, <1>6, <1>7

\* The last node kept begins where the path and the key still agree.
LEMMA KeptIs ==
  ASSUME Heights(current_nodes_heights, current_path), NEW key \in Key, KeptHeights(key) # << >>
  PROVE  \E c \in 1..Len(current_nodes_heights) :
            /\ First(KeptHeights(key), Len(KeptHeights(key)) - 1) = First(current_nodes_heights, c - 1)
            /\ KeptHeights(key)[Len(KeptHeights(key))] = current_nodes_heights[c]
            /\ IsPrefixOf(First(current_path, current_nodes_heights[c]), key)
  <1>1. PICK hs, path, shared : /\ hs = current_nodes_heights /\ path = current_path
                                /\ shared = SharedPrefixLen(key)
    OBVIOUS
  <1>2. /\ Heights(hs, path) /\ hs \in Seq(0..(MaxHeight - 1)) /\ hs \in Seq(Nat) /\ Len(hs) \in Nat
        /\ path \in Path /\ path \in Seq(Bit) /\ Len(path) \in Nat
        /\ key \in Seq(Bit) /\ Len(key) = MaxHeight /\ Len(path) <= MaxHeight
    BY <1>1, PathSeq, KeySeq DEF Heights
  <1>3. shared \in 0..Len(path) /\ \A i \in 1..shared : BitMatches(path, key, 0, i)
    BY <1>1, <1>2, CommonLengthIs DEF SharedPrefixLen
  <1>4. PICK c : c = Cardinality({i \in DOMAIN hs : hs[i] < shared})
    OBVIOUS
  <1>5. c \in 0..Len(hs) /\ (c # 0 => hs[c] < shared)
    <2>1. \A i, j \in 1..Len(hs) : i < j => hs[i] < hs[j]
      BY <1>2 DEF Heights
    <2>2. shared \in Nat
      BY <1>3
    <2> QED BY <1>2, <1>4, <2>1, <2>2, CountBelow
  <1>6. KeptHeights(key) = First(hs, c)
    BY <1>1, <1>4 DEF KeptHeights
  <1>7. First(hs, c) \in Seq(Nat) /\ Len(First(hs, c)) = c /\ \A i \in 1..c : First(hs, c)[i] = hs[i]
    BY <1>2, <1>5 DEF First
  <1>8. c \in 1..Len(hs) /\ hs[c] < shared
    <2>1. c # 0
      BY <1>6, <1>7
    <2> QED BY <1>2, <1>5, <2>1
  <1>9. First(First(hs, c), c - 1) = First(hs, c - 1)
    BY <1>2, <1>8 DEF First
  <1>10. First(hs, c)[c] = hs[c]
    BY <1>7, <1>8
  <1>11. IsPrefixOf(First(path, hs[c]), key)
    <2>1. hs[c] \in 0..Len(path)
      BY <1>2, <1>8, WalkPlaces
    <2>2. PICK f : f = First(path, hs[c])
      OBVIOUS
    <2>3. f \in Seq(Bit) /\ Len(f) = hs[c] /\ \A i \in 1..hs[c] : f[i] = path[i]
      BY <1>2, <2>1, <2>2, FirstSeq
    <2>4. \A i \in 1..hs[c] : path[i] = key[i]
      <3>1. \A i \in 1..hs[c] : i \in 1..shared /\ 0 + i = i
        BY <1>3, <1>8, <2>1
      <3> QED BY <1>3, <3>1 DEF BitMatches
    <2>5. Len(f) <= Len(key)
      BY <1>2, <2>1, <2>3
    <2>6. \A i \in 1..Len(f) : f[i] = key[i]
      BY <2>3, <2>4
    <2>7. IsPrefixOf(f, key)
      BY <1>2, <2>3, <2>5, <2>6, PrefixIs
    <2> QED BY <2>2, <2>7
  <1> QED BY <1>1, <1>6, <1>7, <1>8, <1>9, <1>10, <1>11

\* What IteratorOnPath asserts of the way.
LEMMA OnPath ==
  ASSUME Walked(current_nodes_heights, current_path)
  PROVE  IteratorOnPath
  <1>1. PICK hs, path : hs = current_nodes_heights /\ path = current_path
    OBVIOUS
  <1>2. Walked(hs, path) /\ Heights(hs, path)
    BY <1>1 DEF Walked
  <1>3. ASSUME NEW i \in 1..Len(hs)
        PROVE  /\ hs[i] < EndOf(hs, path, i) /\ EndOf(hs, path, i) <= Len(path)
               /\ WalkNode(hs, path, i) # NoNode
               /\ LabelOf(hs, path, i) \in DOMAIN WalkNode(hs, path, i).next
    <2>1. hs[i] < EndOf(hs, path, i) /\ EndOf(hs, path, i) \in hs[i]..Len(path)
      BY <1>2, WalkPlaces
    <2>2. Follows(hs, path, i)
      BY <1>2 DEF Walked
    <2> QED BY <2>1, <2>2 DEF Follows
  <1>4. hs # << >> => hs[1] = 0
    BY <1>2 DEF Heights
  <1>5. \A i \in 1..(Len(hs) - 1) : WalkNode(hs, path, i).next[LabelOf(hs, path, i)] = InMemory
    BY <1>2 DEF Walked, Held
  <1> QED BY <1>1, <1>3, <1>4, <1>5 DEF IteratorOnPath, EndOf, LabelOf, WalkNode

(***************************************************************************)
(* The hashes of the nodes in memory.  As SubtreeHash, NodeHashes is a     *)
(* recursive function, and its equation is shown height by height.         *)
(***************************************************************************)
HandleHash(h, p, l) == IF nodes[p].next[l] = InMemory THEN h[p \o l] ELSE nodes[p].next[l]

NodeHashAt(h, p) ==
    IF nodes[p] = NoNode THEN ZERO
    ELSE IF nodes[p].hash # None THEN nodes[p].hash
    ELSE NodeHash(nodes[p], [l \in DOMAIN nodes[p].next |-> HandleHash(h, p, l)])

\* The arcs of a node lead to longer paths.
LEMMA LongerArc ==
  ASSUME NodesTyped, NEW p \in Path, nodes[p] # NoNode, NEW l \in DOMAIN nodes[p].next
  PROVE  p \o l \in Path /\ Len(p \o l) > Len(p) /\ nodes[p].next[l] \in NodeHandle
  <1>1. IsNodeAt(nodes[p], p)
    BY CoreViewType
  <1>2. l \in Seq(Bit) /\ Len(l) >= 1
    <2>1. l \in Directions \/ l \in Path \ {<< >>}
      BY <1>1 DEF IsNodeAt
    <2>2. CASE l \in Directions
      BY <2>2, DirectionSeq
    <2>3. CASE l \in Path \ {<< >>}
      <3>1. l \in Seq(Bit) /\ l # << >>
        BY <2>3, PathSeq
      <3> QED BY <3>1
    <2> QED BY <2>1, <2>2, <2>3
  <1>3. p \in Seq(Bit) /\ Len(p \o l) = Len(p) + Len(l) /\ Len(p) \in Nat
    BY <1>2, PathSeq, ConcatSeq
  <1> QED BY <1>1, <1>2, <1>3 DEF IsNodeAt

LEMMA NodeHashLocal ==
  ASSUME NodesTyped, NEW p \in Path, NEW h, NEW g, \A q \in Path : Len(q) > Len(p) => h[q] = g[q]
  PROVE  NodeHashAt(h, p) = NodeHashAt(g, p)
  <1>1. CASE nodes[p] = NoNode
    BY <1>1 DEF NodeHashAt
  <1>2. CASE nodes[p] # NoNode
    <2>1. \A l \in DOMAIN nodes[p].next : HandleHash(h, p, l) = HandleHash(g, p, l)
      BY <1>2, LongerArc DEF HandleHash
    <2>2. [l \in DOMAIN nodes[p].next |-> HandleHash(h, p, l)] = [l \in DOMAIN nodes[p].next |-> HandleHash(g, p, l)]
      BY <2>1
    <2> QED BY <1>2, <2>2 DEF NodeHashAt
  <1> QED BY <1>1, <1>2

\* Functions that satisfy the equation on the paths longer than MaxHeight - n.
NodeHashesFrom(n, h) ==
    /\ h = [p \in Path |-> h[p]]
    /\ \A p \in Path : Len(p) + n > MaxHeight => h[p] = NodeHashAt(h, p)

LEMMA NodeHashesExtend ==
  ASSUME NodesTyped, NEW n \in Nat, NEW h, NodeHashesFrom(n, h)
  PROVE  \E g : NodeHashesFrom(n + 1, g)
  <1> DEFINE g == [p \in Path |-> IF Len(p) + n > MaxHeight THEN h[p] ELSE NodeHashAt(h, p)]
  <1>1. ASSUME NEW p \in Path, Len(p) + (n + 1) > MaxHeight PROVE g[p] = NodeHashAt(g, p)
    <2>1. \A q \in Path : Len(q) > Len(p) => Len(q) + n > MaxHeight
      BY <1>1, PathLen
    <2>2. \A q \in Path : Len(q) > Len(p) => h[q] = g[q]
      BY <2>1
    <2>3. NodeHashAt(h, p) = NodeHashAt(g, p)
      <3> HIDE DEF g
      <3> QED BY <2>2, NodeHashLocal
    <2>4. g[p] = NodeHashAt(h, p)
      BY DEF NodeHashesFrom
    <2> QED BY <2>3, <2>4
  <1>2. g = [p \in Path |-> g[p]]
    OBVIOUS
  <1> HIDE DEF g
  <1>3. NodeHashesFrom(n + 1, g)
    BY <1>1, <1>2 DEF NodeHashesFrom
  <1> QED BY <1>3

LEMMA NodeHashesExist ==
  ASSUME NodesTyped
  PROVE  \E h : h = [p \in Path |-> NodeHashAt(h, p)]
  <1> DEFINE S == {n \in Nat : \E h : NodeHashesFrom(n, h)}
  <1>1. 0 \in S
    <2> DEFINE z == [p \in Path |-> 0]
    <2>1. \A p \in Path : ~(Len(p) + 0 > MaxHeight)
      BY PathLen
    <2>2. z = [p \in Path |-> z[p]]
      OBVIOUS
    <2> HIDE DEF z
    <2>3. NodeHashesFrom(0, z)
      BY <2>1, <2>2 DEF NodeHashesFrom
    <2> QED BY <2>3
  <1>2. ASSUME NEW n \in 0..((MaxHeight + 1) - 1), n \in S PROVE n + 1 \in S
    <2>1. PICK h : NodeHashesFrom(n, h)
      BY <1>2
    <2>2. \E g : NodeHashesFrom(n + 1, g)
      BY <2>1, NodeHashesExtend
    <2> QED BY <2>2
  <1>3. PICK h : NodeHashesFrom(MaxHeight + 1, h)
    <2>1. MaxHeight + 1 \in Nat
      OBVIOUS
    <2>2. 0..(MaxHeight + 1) \subseteq S
      <3> HIDE DEF S
      <3> QED BY <1>1, <1>2, <2>1, UpTo
    <2> QED BY <2>1, <2>2
  <1>4. \A p \in Path : Len(p) + (MaxHeight + 1) > MaxHeight
    BY PathLen
  <1>5. h = [p \in Path |-> NodeHashAt(h, p)]
    BY <1>3, <1>4 DEF NodeHashesFrom
  <1> QED BY <1>5

LEMMA NodeHashesAre ==
  ASSUME NodesTyped, NEW p \in Path
  PROVE  NodeHashes[p] = NodeHashAt(NodeHashes, p)
  <1> DEFINE F == CHOOSE h : h = [q \in Path |-> NodeHashAt(h, q)]
  <1>1. NodeHashes = F
    BY DEF NodeHashes, NodeHashAt, HandleHash
  <1>2. F = [q \in Path |-> NodeHashAt(F, q)]
    BY NodeHashesExist
  <1> HIDE DEF F
  <1>3. F[p] = NodeHashAt(F, p)
    BY <1>2
  <1> QED BY <1>1, <1>3

LEMMA NodeHashesType ==
  ASSUME NodesTyped, NEW p \in Path
  PROVE  NodeHashes[p] \in Felt
  <1> DEFINE H == NodeHashes
             S == {q \in Path : H[q] \notin Felt}
  <1>1. \A q \in Path : H[q] = NodeHashAt(H, q)
    BY NodeHashesAre
  <1> HIDE DEF H
  <1>2. S = {}
    <2> SUFFICES ASSUME S # {} PROVE FALSE
      OBVIOUS
    <2>1. S \in SUBSET Path
      OBVIOUS
    <2>2. PICK q \in S : \A o \in S : Len(o) <= Len(q)
      <3> HIDE DEF S
      <3> QED BY <2>1, LongestPath
    <2>3. q \in Path /\ H[q] \notin Felt
      BY <2>2
    <2>4. ASSUME NEW o \in Path, Len(o) > Len(q) PROVE H[o] \in Felt
      <3>1. Len(o) \in Nat /\ Len(q) \in Nat
        BY <2>3, PathLen
      <3>2. o \notin S
        BY <2>2, <2>4, <3>1
      <3> QED BY <3>2
    <2>5. CASE nodes[q] = NoNode
      <3>1. H[q] = ZERO
        BY <1>1, <2>3, <2>5 DEF NodeHashAt
      <3>2. ZERO \in Felt
        BY DEF ZERO, Felt
      <3> QED BY <2>3, <3>1, <3>2
    <2>6. CASE nodes[q] # NoNode
      <3>1. IsNodeAt(nodes[q], q)
        BY <2>3, <2>6, CoreViewType
      <3>2. ASSUME NEW l \in DOMAIN nodes[q].next PROVE HandleHash(H, q, l) \in Felt
        <4>1. q \o l \in Path /\ Len(q \o l) > Len(q) /\ nodes[q].next[l] \in NodeHandle
          BY <2>3, <2>6, LongerArc
        <4>2. H[q \o l] \in Felt
          BY <2>4, <4>1
        <4> QED BY <4>1, <4>2 DEF HandleHash, NodeHandle
      <3>3. PICK child : child = [l \in DOMAIN nodes[q].next |-> HandleHash(H, q, l)]
        OBVIOUS
      <3>4. child \in [DOMAIN nodes[q].next -> Felt]
        BY <3>2, <3>3
      <3>5. NodeHash(nodes[q], child) \in Felt
        BY <2>3, <3>1, <3>4, NodeHashType
      <3>6. nodes[q].hash \in Felt \cup {None}
        BY <3>1 DEF IsNodeAt
      <3>7. H[q] = IF nodes[q].hash # None THEN nodes[q].hash ELSE NodeHash(nodes[q], child)
        BY <1>1, <2>3, <2>6, <3>3 DEF NodeHashAt
      <3> QED BY <2>3, <3>5, <3>6, <3>7
    <2> QED BY <2>5, <2>6
  <1>3. H[p] \in Felt
    BY <1>2
  <1> QED BY <1>3 DEF H

(***************************************************************************)
(* The steps of a proof                                                    *)
(***************************************************************************)
LEMMA EmptyWalk == AtStart => Walked(current_nodes_heights, current_path)
  <1>1. Len(<< >>) = 0 /\ << >> \in Seq(0..(MaxHeight - 1)) /\ << >> \in Path
    BY RootInPath
  <1> QED BY <1>1 DEF AtStart, Walked, Heights

LEMMA EmptyWalkNext == AtStart' => Walked(current_nodes_heights, current_path)'
  <1>1. AtStart => Walked(current_nodes_heights, current_path)
    BY EmptyWalk
  <1> QED BY <1>1, PTL

LEMMA GetMultiProofHolds ==
  ASSUME NEW m, NEW d, ProofHolds(m, d), NEW ks \in KeySequences, GetMultiProof(ks)
  PROVE  ProofHolds(m, d)'
  <1>1. /\ pc = "Idle" /\ pc' = "ProofKey" /\ keys' = ks /\ done' = done
        /\ UNCHANGED <<trie_db, flat_db, death_row, cache_leaf_modified, hashes, updates, failed,
                       latest, root_node, nodes, current_path, current_nodes_heights>>
    BY DEF GetMultiProof, db, tree, iter, commit
  <1>2. Holds(m, d) /\ done = 0
    BY <1>1 DEF ProofHolds, InProof
  <1>3. Rests(m, d) /\ current_path = << >> /\ current_nodes_heights = << >>
    BY <1>1, <1>2, IdleRests
  <1>4. ~Removing /\ ~Removing'
    BY <1>1 DEF Removing
  <1>5. Rests(m, d)'
    BY <1>1, <1>3, <1>4, SameRests
  <1>6. Walked(current_nodes_heights, current_path)'
    BY <1>1, <1>3, EmptyWalkNext DEF AtStart
  <1>7. ks \in Seq(Path)
    <2>1. PICK n \in 0..MaxProofKeys : ks \in [1..n -> ProofKeys]
      BY DEF KeySequences
    <2>2. n \in Nat /\ ks \in [1..n -> Path]
      BY <2>1, ProofKeysAssumption
    <2> QED BY <2>2
  <1>8. ProofAt(m)'
    BY <1>1, <1>2, <1>6, <1>7 DEF ProofAt, BetweenKeys
  <1> QED BY <1>1, <1>5, <1>8 DEF ProofHolds, InProof

\* The iterator is dropped: the tree is as between two calls.
LEMMA RestsIdleNext ==
  ASSUME NEW m, NEW d
  PROVE  Rests(m, d)' /\ Returned' => Holds(m, d)'
  <1>1. Rests(m, d) /\ Returned => Holds(m, d)
    BY RestsIdle
  <1> QED BY <1>1, PTL

LEMMA ReturnHolds ==
  ASSUME NEW m, NEW d, ProofHolds(m, d), KeyLengthError \/ ProofReadFails \/ DropProof
  PROVE  ProofHolds(m, d)'
  <1>1. /\ pc \in {"ProofKey", "ProofDescend", "Proved"} /\ pc' = "Idle" /\ done' = 0 /\ args' = NoArgs
        /\ current_path' = << >> /\ current_nodes_heights' = << >>
        /\ UNCHANGED <<trie_db, flat_db, death_row, cache_leaf_modified, hashes, updates, failed,
                       latest, root_node, nodes>>
    BY DEF KeyLengthError, ProofReadFails, DropProof, AtKey, Return, ResetProof, db, tree, commit
  <1>2. Rests(m, d)
    BY <1>1 DEF ProofHolds, InProof
  <1>3. ~Removing /\ ~Removing'
    BY <1>1 DEF Removing
  <1>4. Rests(m, d)'
    BY <1>1, <1>2, <1>3, SameRests
  <1>5. Holds(m, d)'
    BY <1>1, <1>4, RestsIdleNext DEF Returned, AtStart
  <1> QED BY <1>1, <1>5 DEF ProofHolds, InProof

LEMMA ReturnProofHolds ==
  ASSUME NEW m, NEW d, ProofHolds(m, d), ReturnProof
  PROVE  ProofHolds(m, d)'
  <1>1. /\ pc = "ProofKey" /\ pc' = "Proved" /\ keys' = keys /\ done' = done
        /\ UNCHANGED <<trie_db, flat_db, death_row, cache_leaf_modified, hashes, updates, failed,
                       latest, root_node, nodes>>
    BY DEF ReturnProof, db, tree, commit, proof_vars
  <1>2. Rests(m, d) /\ ProofAt(m)
    BY <1>1 DEF ProofHolds, InProof
  <1>3. ~Removing /\ ~Removing'
    BY <1>1 DEF Removing
  <1>4. Rests(m, d)'
    BY <1>1, <1>2, <1>3, SameRests
  <1>5. ProofAt(m)'
    BY <1>1, <1>2 DEF ProofAt
  <1> QED BY <1>1, <1>4, <1>5 DEF ProofHolds, InProof

\* The next key, as long as the tree is high.
LEMMA NextKeyIs ==
  ASSUME NEW m, ProofAt(m), AtKey, Len(NextKey) = MaxHeight
  PROVE  NextKey \in Key /\ done + 1 \in 1..Len(keys) /\ done < Len(keys) /\ NextKey = keys[done + 1]
  <1>1. keys \in Seq(Path) /\ done \in 0..Len(keys) /\ done < Len(keys)
    BY DEF ProofAt, AtKey
  <1>2. done + 1 \in 1..Len(keys)
    BY <1>1
  <1>3. NextKey \in Path /\ NextKey = keys[done + 1]
    BY <1>1, <1>2 DEF NextKey
  <1>4. NextKey \in Key
    BY <1>3, PathSeq, KeySeq
  <1> QED BY <1>1, <1>2, <1>3, <1>4

LEMMA ResumeAtLastKeptHolds ==
  ASSUME NEW m, NEW d, ProofHolds(m, d), ResumeAtLastKept
  PROVE  ProofHolds(m, d)'
  <1>1. PICK key : key = NextKey
    OBVIOUS
  <1>2. /\ AtKey /\ Len(key) = MaxHeight /\ KeptHeights(key) # << >>
        /\ current_nodes_heights' = First(KeptHeights(key), Len(KeptHeights(key)) - 1)
        /\ current_path' = First(current_path, KeptHeights(key)[Len(KeptHeights(key))])
        /\ pc = "ProofKey" /\ pc' = "ProofDescend" /\ args' = [key |-> key, value |-> ZERO]
        /\ UNCHANGED <<trie_db, flat_db, death_row, cache_leaf_modified, hashes, updates, failed,
                       latest, root_node, nodes, keys, done>>
    BY <1>1 DEF ResumeAtLastKept, ResumeFrame, AtKey, db, commit
  <1>3. Rests(m, d) /\ ProofAt(m) /\ BetweenKeys(m)
    BY <1>2 DEF ProofHolds, InProof, ProofAt
  <1>4. key \in Key /\ done < Len(keys) /\ key = keys[done + 1]
    BY <1>1, <1>2, <1>3, NextKeyIs
  <1>5. PICK hs, path : hs = current_nodes_heights /\ path = current_path
    OBVIOUS
  <1>6. Walked(hs, path) /\ Heights(hs, path)
    BY <1>3, <1>5 DEF BetweenKeys, Walked
  <1>7. PICK c \in 1..Len(hs) :
            /\ current_nodes_heights' = First(hs, c - 1)
            /\ current_path' = First(path, hs[c])
            /\ IsPrefixOf(First(path, hs[c]), key)
    <2>1. PICK c \in 1..Len(current_nodes_heights) :
            /\ First(KeptHeights(key), Len(KeptHeights(key)) - 1) = First(current_nodes_heights, c - 1)
            /\ KeptHeights(key)[Len(KeptHeights(key))] = current_nodes_heights[c]
            /\ IsPrefixOf(First(current_path, current_nodes_heights[c]), key)
      BY <1>2, <1>4, <1>5, <1>6, KeptIs
    <2> QED BY <1>2, <1>5, <2>1
  <1>8. PICK hs2, path2 : hs2 = First(hs, c - 1) /\ path2 = First(path, hs[c])
    OBVIOUS
  <1>9. /\ Walked(hs2, path2) /\ \A i \in 1..Len(hs2) : Held(hs2, path2, i)
        /\ nodes[path2] # NoNode
    BY <1>6, <1>8, WalkBack
  <1>10. Grows
    BY <1>2 DEF Grows
  <1>11. Walked(hs2, path2)' /\ \A i \in 1..Len(hs2) : Held(hs2, path2, i)'
    BY <1>9, <1>10, WalkGrows
  <1>12. current_nodes_heights' = hs2 /\ current_path' = path2
    BY <1>7, <1>8
  <1>13. OnTheWay'
    <2>1. Walked(current_nodes_heights, current_path)'
      BY <1>11, <1>12 DEF Walked, Heights, Follows, Held, WalkNode, LabelOf, EndOf
    <2>2. \A i \in 1..Len(hs2) : Held(current_nodes_heights, current_path, i)'
      BY <1>11, <1>12 DEF Held, WalkNode, LabelOf, EndOf
    <2>3. nodes'[current_path'] # NoNode /\ IsPrefixOf(current_path, args.key)' /\ args'.key = key
      BY <1>2, <1>7, <1>8, <1>9, <1>12 DEF IsPrefixOf, First
    <2> QED BY <1>2, <1>4, <1>12, <2>1, <2>2, <2>3 DEF OnTheWay
  <1>14. ProofAt(m)'
    BY <1>2, <1>3, <1>13 DEF ProofAt
  <1>15. ~Removing /\ ~Removing'
    BY <1>2 DEF Removing
  <1>16. Rests(m, d)'
    BY <1>2, <1>3, <1>15, SameRests
  <1> QED BY <1>2, <1>14, <1>16 DEF ProofHolds, InProof

\* A key of an empty tree.
LEMMA NoLeafInEmpty ==
  ASSUME CoreInv, NEW m, InTree(m), View[<< >>] = NoNode, NEW k \in Key
  PROVE  m[k] = None
  <1>1. k \in Path
    BY KeyInPath
  <1>2. Looks(View, m, << >>)
    BY CoreTree, ShapeIs, RootInPath
  <1>3. ~HasNode(m, << >>)
    BY <1>2 DEF Looks
  <1>4. Through(m, k) = {}
    BY <1>1, <1>3, RootNode
  <1> QED BY <1>4, ThroughKey

LEMMA ResumeAtRootHolds ==
  ASSUME NEW m, NEW d, ProofHolds(m, d), ResumeAtRoot
  PROVE  ProofHolds(m, d)'
  <1>1. PICK key : key = NextKey
    OBVIOUS
  <1>2. /\ AtKey /\ Len(key) = MaxHeight /\ pc = "ProofKey" /\ LoadsRoot
        /\ current_nodes_heights' = << >> /\ current_path' = << >>
        /\ args' = [key |-> key, value |-> ZERO]
        /\ UNCHANGED <<trie_db, flat_db, death_row, cache_leaf_modified, hashes, updates, failed,
                       latest, keys>>
    BY <1>1 DEF ResumeAtRoot, ResumeFrame, AtKey, LoadsRoot, db, commit
  <1>3. \/ root_node' = "Loaded" /\ pc' = "ProofVisit" /\ done' = done
        \/ root_node' # "Loaded" /\ pc' = "ProofKey" /\ done' = done + 1 /\ leaf_hash' = None
    BY DEF ResumeAtRoot
  <1>4. Rests(m, d) /\ ProofAt(m) /\ CoreInv /\ RootKnown /\ updates = NoUpdates /\ InTree(m)
    BY <1>2 DEF ProofHolds, InProof, Rests
  <1>5. key \in Key /\ done + 1 \in 1..Len(keys) /\ done < Len(keys) /\ key = keys[done + 1]
    BY <1>1, <1>2, <1>4, NextKeyIs
  <1>6. /\ root_node' \in {"Empty", "Loaded"} /\ RootKnown'
        /\ \A p \in Path : p # << >> => nodes'[p] = nodes[p]
        /\ \/ nodes'[<< >>] = nodes[<< >>]
           \/ (\A p \in Path : nodes[p] = NoNode) /\ nodes'[<< >>] = DbNode(<< >>)
        /\ View' = View /\ LinkInv' /\ AboveInv'
    BY <1>2, <1>4, LoadedRoot
  <1>7. ASSUME NEW p \in Path PROVE nodes'[p] = nodes[p] \/ (nodes[p] = NoNode /\ nodes'[p] = View[p])
    BY <1>4, <1>6, ViewInCall, RootInPath
  <1>8. IsNodeMap(nodes', {NoNode})
    <2>1. DOMAIN nodes = Path /\ NodesTyped
      BY <1>4 DEF CoreInv, NodesTyped, IsNodeMap
    <2>2. \A p \in Path : nodes'[p] = NoNode \/ IsNodeAt(nodes'[p], p)
      BY <1>7, <2>1, CoreViewType
    <2>3. DOMAIN nodes' = Path
      BY <1>2, <2>1 DEF LoadsRoot
    <2> QED BY <2>2, <2>3 DEF IsNodeMap
  <1>9. Rests(m, d)'
    <2>1. ~Removing /\ ~Removing'
      BY <1>2, <1>3 DEF Removing
    <2>2. \A p \in Path : SameNode(View[p], View'[p])
      BY <1>6 DEF SameNode
    <2>3. ASSUME NEW p \in Path, nodes'[p] # NoNode, nodes'[p] # View[p] PROVE FALSE
      BY <1>4, <1>7, <2>3, CoreNodeInMemory
    <2>4. ASSUME NEW p \in Path, nodes'[p] = NoNode PROVE nodes[p] = NoNode
      BY <1>7, <2>4
    <2> QED BY <1>2, <1>4, <1>6, <1>8, <2>1, <2>2, <2>3, <2>4, LoadRests
  <1>10. Walked(current_nodes_heights, current_path)'
    BY <1>2, EmptyWalkNext DEF AtStart
  <1>11. ProofAt(m)'
    <2>1. keys' \in Seq(Path) /\ done' \in 0..Len(keys')
      <3>1. keys \in Seq(Path) /\ done \in 0..Len(keys)
        BY <1>4 DEF ProofAt
      <3> QED BY <1>2, <1>3, <1>5, <3>1
    <2>2. CASE root_node' = "Loaded"
      <3>1. pc' = "ProofVisit" /\ done' = done
        BY <1>3, <2>2
      <3>2. nodes'[<< >>] # NoNode
        BY <1>6, <2>2 DEF RootKnown
      <3>3. IsPrefixOf(<< >>, key) /\ args'.key = key
        BY <1>2, <1>5, EmptyPrefix, KeySeq
      <3>4. IsPrefixOf(current_path, args.key)'
        BY <1>2, <3>3 DEF IsPrefixOf, First
      <3>5. 1..Len(current_nodes_heights') = {}
        BY <1>2
      <3>6. OnTheWay'
        BY <1>2, <1>5, <1>10, <3>1, <3>2, <3>3, <3>4, <3>5 DEF OnTheWay
      <3> QED BY <2>1, <3>1, <3>6 DEF ProofAt
    <2>3. CASE root_node' # "Loaded"
      <3>1. pc' = "ProofKey" /\ done' = done + 1 /\ leaf_hash' = None
        BY <1>3, <2>3
      <3>2. View[<< >>] = NoNode
        BY <1>6, <2>3 DEF RootKnown
      <3>3. m[key] = None
        BY <1>4, <1>5, <3>2, NoLeafInEmpty
      <3>4. keys'[done'] = key
        BY <1>2, <1>5, <3>1
      <3>5. BetweenKeys(m)'
        BY <1>5, <1>10, <3>1, <3>3, <3>4 DEF BetweenKeys
      <3> QED BY <2>1, <3>1, <3>5 DEF ProofAt
    <2> QED BY <2>2, <2>3
  <1> QED BY <1>3, <1>9, <1>11 DEF ProofHolds, InProof

\* A visited node keeps its arcs.
LEMMA HashedNode ==
  ASSUME NEW n, NEW p \in Path, IsNodeAt(n, p), NEW h \in Felt
  PROVE  /\ IsNodeAt(Hashed(n, h), p) /\ Hashed(n, h).next = n.next
         /\ SameNode(n, Hashed(n, h)) /\ Hashed(n, h) # NoNode
  <1>1. /\ Hashed(n, h).next = n.next /\ Hashed(n, h).type = n.type
        /\ Hashed(n, h).height = n.height /\ Hashed(n, h).hash = h
    BY DEF Hashed
  <1>2. (IsBinary(Hashed(n, h)) <=> IsBinary(n)) /\ (IsEdge(Hashed(n, h)) <=> IsEdge(n))
    BY <1>1 DEF IsBinary, IsEdge
  <1>3. IsNodeAt(Hashed(n, h), p)
    BY <1>1, <1>2 DEF IsNodeAt
  <1>4. n # NoNode /\ Hashed(n, h) # NoNode
    BY <1>3, NodeKind
  <1>5. IsBinary(n) = IsBinary(Hashed(n, h))
    BY <1>1 DEF IsBinary
  <1> QED BY <1>1, <1>3, <1>4, <1>5 DEF SameNode

\* A visit caches hashes in nodes that are in memory, and changes nothing else.
LEMMA VisitKeeps ==
  ASSUME NEW m, NEW d, ProofHolds(m, d), VisitNode
  PROVE  /\ CoreInv /\ OnTheWay /\ pc = "ProofVisit" /\ pc' = "ProofDescend"
         /\ UNCHANGED <<trie_db, flat_db, death_row, cache_leaf_modified, hashes, updates, failed,
                        latest, root_node, keys, done, args, current_path, current_nodes_heights>>
         /\ DOMAIN nodes' = Path
         /\ \A q \in Path : \/ nodes'[q] = nodes[q]
                            \/ nodes[q] # NoNode /\ nodes'[q] = Hashed(nodes[q], NodeHashes[q])
  <1>1. pc = "ProofVisit"
    BY DEF VisitNode
  <1>2. Rests(m, d) /\ OnTheWay /\ CoreInv
    BY <1>1 DEF ProofHolds, InProof, ProofAt, Rests
  <1>3. PICK p : p = current_path
    OBVIOUS
  <1>4. p \in Path /\ nodes[p] # NoNode
    BY <1>2, <1>3 DEF OnTheWay, Walked, Heights
  <1>5. ASSUME NEW q \in Visited(p) PROVE q \in Path /\ nodes[q] # NoNode
    BY <1>4 DEF Visited, LookedAt
  <1>6. ~VisitBroken(p)
    <2> SUFFICES ASSUME NEW q \in Visited(p), NEW l \in DOMAIN nodes[q].next, nodes[q].next[l] = InMemory
                 PROVE  nodes[q \o l] # NoNode
      BY <1>4 DEF VisitBroken
    <2>1. q \in Path /\ nodes[q] # NoNode
      BY <1>5
    <2> QED BY <1>2, <2>1, CoreArc
  <1>7. /\ nodes' = [q \in Path |-> IF q \in Visited(p) THEN Hashed(nodes[q], NodeHashes[q]) ELSE nodes[q]]
        /\ pc' = "ProofDescend"
        /\ UNCHANGED <<trie_db, flat_db, death_row, cache_leaf_modified, hashes, updates, failed,
                       latest, root_node, keys, done, args, current_path, current_nodes_heights>>
    BY <1>3, <1>6 DEF VisitNode, db, iter, commit
  <1> QED BY <1>1, <1>2, <1>5, <1>7

LEMMA VisitNodeHolds ==
  ASSUME NEW m, NEW d, ProofHolds(m, d), VisitNode
  PROVE  ProofHolds(m, d)'
  <1>1. /\ CoreInv /\ OnTheWay /\ pc = "ProofVisit" /\ pc' = "ProofDescend"
        /\ UNCHANGED <<trie_db, flat_db, death_row, cache_leaf_modified, hashes, updates, failed,
                       latest, root_node, keys, done, args, current_path, current_nodes_heights>>
        /\ DOMAIN nodes' = Path
        /\ \A q \in Path : \/ nodes'[q] = nodes[q]
                           \/ nodes[q] # NoNode /\ nodes'[q] = Hashed(nodes[q], NodeHashes[q])
    BY VisitKeeps
  <1>2. Rests(m, d) /\ ProofAt(m) /\ NodesTyped /\ RootKnown /\ ProperInv /\ updates = NoUpdates
    BY <1>1 DEF ProofHolds, InProof, Rests, CoreInv
  <1>3. ASSUME NEW q \in Path
        PROVE  /\ nodes'[q] = NoNode <=> nodes[q] = NoNode
               /\ nodes[q] # NoNode => /\ nodes'[q].next = nodes[q].next /\ IsNodeAt(nodes'[q], q)
                                       /\ SameNode(nodes[q], nodes'[q])
    <2>1. CASE nodes'[q] = nodes[q]
      <3>1. nodes[q] # NoNode => IsNodeAt(nodes[q], q)
        BY <1>2, CoreViewType
      <3> QED BY <2>1, <3>1 DEF SameNode
    <2>2. CASE nodes[q] # NoNode /\ nodes'[q] = Hashed(nodes[q], NodeHashes[q])
      <3>1. IsNodeAt(nodes[q], q) /\ NodeHashes[q] \in Felt
        BY <1>2, <2>2, CoreViewType, NodeHashesType
      <3> QED BY <2>2, <3>1, HashedNode
    <2> QED BY <1>1, <2>1, <2>2
  <1>4. ASSUME NEW q \in Path PROVE SameNode(View[q], View'[q])
    <2>1. View[q] = IF nodes[q] # NoNode THEN nodes[q] ELSE DbNode(q)
      BY <1>2, ViewInCall
    <2>2. View'[q] = IF nodes'[q] # NoNode THEN nodes'[q] ELSE DbNode(q)
      BY <1>1, <1>2 DEF View, NoUpdates, DbNode
    <2>3. CASE nodes[q] = NoNode
      <3>1. View'[q] = View[q]
        BY <1>3, <2>1, <2>2, <2>3
      <3> QED BY <3>1 DEF SameNode
    <2>4. CASE nodes[q] # NoNode
      BY <1>3, <2>1, <2>2, <2>4
    <2> QED BY <2>3, <2>4
  <1>5. LinkInv'
    <2> SUFFICES ASSUME NEW q \in Path, nodes'[q] # NoNode, NEW l \in DOMAIN nodes'[q].next
                 PROVE  nodes'[q].next[l] = InMemory <=> nodes'[q \o l] # NoNode
      BY DEF LinkInv, LinkedAt
    <2>1. nodes[q] # NoNode /\ nodes'[q].next = nodes[q].next
      BY <1>3
    <2>2. l \in DOMAIN nodes[q].next
      BY <2>1
    <2>3. (nodes[q].next[l] = InMemory <=> nodes[q \o l] # NoNode) /\ q \o l \in Path
      BY <1>1, <2>1, <2>2, CoreArc DEF ArcOf
    <2> QED BY <1>3, <2>1, <2>3
  <1>6. AboveInv'
    <2>1. \A q \in Path : View'[q] # NoNode <=> View[q] # NoNode
      BY <1>4 DEF SameNode
    <2> QED BY <1>1, <1>3, <2>1 DEF CoreInv, AboveInv
  <1>7. RootKnown' /\ IsNodeMap(nodes', {NoNode})
    <2>1. View'[<< >>] = NoNode <=> View[<< >>] = NoNode
      BY <1>4, RootInPath DEF SameNode
    <2>2. nodes'[<< >>] = NoNode <=> nodes[<< >>] = NoNode
      BY <1>3, RootInPath
    <2>3. RootKnown'
      BY <1>1, <1>2, <2>1, <2>2 DEF RootKnown
    <2> QED BY <1>1, <1>3, <2>3 DEF IsNodeMap
  <1>8. Rests(m, d)'
    <2>1. ~Removing /\ ~Removing'
      BY <1>1 DEF Removing
    <2>2. ASSUME NEW q \in Path, nodes'[q] # NoNode
          PROVE  /\ nodes[q] # NoNode /\ Proper(nodes'[q])
                 /\ \A l \in DOMAIN nodes'[q].next : nodes'[q].next[l] # InMemory =>
                       l \in DOMAIN nodes[q].next /\ nodes'[q].next[l] = nodes[q].next[l]
      <3>1. nodes[q] # NoNode /\ nodes'[q].next = nodes[q].next
        BY <1>3, <2>2
      <3>2. Proper(nodes'[q])
        BY <1>2, <3>1 DEF ProperInv, Proper
      <3> QED BY <3>1, <3>2
    <2>3. ASSUME NEW q \in Path, nodes'[q] = NoNode PROVE nodes[q] = NoNode
      BY <1>3, <2>3
    <2> QED BY <1>1, <1>2, <1>4, <1>5, <1>6, <1>7, <2>1, <2>2, <2>3, LoadRests
  <1>9. Grows
    BY <1>3 DEF Grows
  <1>10. OnTheWay'
    <2>1. PICK hs, path : hs = current_nodes_heights /\ path = current_path
      OBVIOUS
    <2>2. /\ Walked(hs, path) /\ \A i \in 1..Len(hs) : Held(hs, path, i)
          /\ nodes[path] # NoNode /\ path \in Path
      BY <1>1, <2>1 DEF OnTheWay, Walked, Heights
    <2>3. Walked(hs, path)' /\ \A i \in 1..Len(hs) : Held(hs, path, i)'
      BY <1>9, <2>2, WalkGrows
    <2>4. Walked(current_nodes_heights, current_path)'
      BY <1>1, <2>1, <2>3 DEF Walked, Heights, Follows, Held, WalkNode, LabelOf, EndOf
    <2>5. \A i \in 1..Len(hs) : Held(current_nodes_heights, current_path, i)'
      BY <1>1, <2>1, <2>3 DEF Held, WalkNode, LabelOf, EndOf
    <2>6. nodes'[path] # NoNode
      BY <1>3, <2>2
    <2> QED BY <1>1, <2>1, <2>4, <2>5, <2>6 DEF OnTheWay, IsPrefixOf, First
  <1>11. ProofAt(m)'
    BY <1>1, <1>2, <1>10 DEF ProofAt
  <1> QED BY <1>1, <1>8, <1>11 DEF ProofHolds, InProof

\* Where the iterator stands, and the arc it follows.
LEMMA NextStep ==
  ASSUME CoreInv, OnTheWay, NEW p, NEW n, NEW l, p = current_path, n = nodes[current_path], l = NextLabel(n)
  PROVE  /\ p \in Path /\ n # NoNode /\ nodes[p] = n /\ Len(p) < MaxHeight /\ IsNodeAt(n, p) /\ View[p] = n
         /\ l \in DOMAIN n.next /\ l \in Path /\ Len(l) >= 1 /\ p \o l \in Path
         /\ Len(p \o l) = Len(p) + Len(l) /\ Len(p \o l) <= MaxHeight
         /\ args.key \in Key /\ args.key \in Path /\ IsPrefixOf(p, args.key) /\ p # args.key
         /\ IsEdge(n) => l = EdgePath(n)
         /\ LabelMatches(n) => IsPrefixOf(p \o l, args.key)
  <1>1. /\ p \in Path /\ n # NoNode /\ nodes[p] = n /\ args.key \in Key /\ IsPrefixOf(p, args.key)
    BY DEF OnTheWay, Walked, Heights
  <1>2. IsNodeAt(n, p) /\ View[p] = n
    BY <1>1, CoreNodeInMemory
  <1>3. /\ args.key \in Path /\ args.key \in Seq(Bit) /\ Len(args.key) = MaxHeight
        /\ p \in Seq(Bit) /\ Len(p) \in Nat /\ Len(p) <= MaxHeight
    BY <1>1, KeyInPath, KeySeq, PathSeq
  <1>4. Len(p) < MaxHeight /\ p # args.key
    <2>1. Len(p) # MaxHeight
      BY <1>1, CoreNotInView
    <2> QED BY <1>3, <2>1
  <1>5. \A i \in 1..Len(p) : p[i] = args.key[i]
    BY <1>1, <1>3, PrefixIs
  <1>6. /\ l \in DOMAIN n.next /\ l \in Seq(Bit) /\ Len(l) >= 1 /\ p \o l \in Path
        /\ Len(p \o l) = Len(p) + Len(l) /\ (IsEdge(n) => l = EdgePath(n))
        /\ LabelMatches(n) => \A i \in 1..Len(p \o l) : (p \o l)[i] = args.key[i]
    BY <1>1, <1>2, <1>4, <1>5, ArcOnKey
  <1>7. l \in Path /\ Len(p \o l) <= MaxHeight
    <2>1. ArcOf(Pending, p, l)
      BY <1>1, <1>6, CoreArc
    <2> QED BY <1>6, <2>1, PathLen DEF ArcOf
  <1>8. LabelMatches(n) => IsPrefixOf(p \o l, args.key)
    <2>1. p \o l \in Seq(Bit)
      BY <1>6, PathSeq
    <2> QED BY <1>3, <1>6, <1>7, <2>1, PrefixIs
  <1> QED BY <1>1, <1>2, <1>3, <1>4, <1>6, <1>7, <1>8

\* A label that leads along the key matches it.
LEMMA MatchesKey ==
  ASSUME NEW p \in Path, NEW l \in Path, p \o l \in Path, NEW key \in Key, IsPrefixOf(p \o l, key)
  PROVE  PathMatches(l, key, Len(p))
  <1>1. PICK c : c = p \o l
    OBVIOUS
  <1>2. /\ c \in Seq(Bit) /\ key \in Seq(Bit) /\ p \in Seq(Bit) /\ l \in Seq(Bit)
        /\ Len(p) \in Nat /\ Len(l) \in Nat /\ Len(key) = MaxHeight
    BY <1>1, PathSeq, KeySeq
  <1>3. /\ Len(c) = Len(p) + Len(l) /\ \A i \in 1..Len(l) : c[Len(p) + i] = l[i]
    BY <1>1, <1>2, ConcatSeq
  <1>4. \A i \in 1..Len(c) : c[i] = key[i]
    BY <1>1, <1>2, PrefixIs
  <1>5. \A i \in 1..Len(l) : Len(p) + i \in 1..Len(c)
    BY <1>2, <1>3
  <1>6. \A i \in 1..Len(l) : l[i] = key[Len(p) + i]
    BY <1>3, <1>4, <1>5
  <1> QED BY <1>2, <1>6 DEF PathMatches, BitMatches

\* Where the traversal of a key ends, the leaf of the key is found.
LEMMA LeafFound ==
  ASSUME CoreInv, OnTheWay, NEW m, InTree(m), EndOfTraversal(nodes[current_path])
  PROVE  LeafHash(nodes[current_path]) = m[args.key]
  <1>1. PICK p, n, l, key : /\ p = current_path /\ n = nodes[current_path] /\ l = NextLabel(n)
                            /\ key = args.key
    OBVIOUS
  <1>2. /\ p \in Path /\ n # NoNode /\ nodes[p] = n /\ IsNodeAt(n, p) /\ View[p] = n
        /\ l \in DOMAIN n.next /\ l \in Path /\ Len(l) >= 1 /\ p \o l \in Path
        /\ Len(p \o l) = Len(p) + Len(l) /\ Len(p \o l) <= MaxHeight
        /\ key \in Key /\ key \in Path /\ IsPrefixOf(p, key) /\ p # key
        /\ IsEdge(n) => l = EdgePath(n)
        /\ LabelMatches(n) => IsPrefixOf(p \o l, key)
    BY <1>1, NextStep
  <1>3. HasNode(m, p) /\ DOMAIN n.next = Labels(m, p)
    BY <1>2, CoreRight
  <1>4. Len(key) = MaxHeight /\ Len(p \o l) \in Nat /\ Len(p) \in Nat /\ Len(l) \in Nat
    BY <1>2, KeySeq, PathLen
  <1>5. CASE LabelMatches(n) /\ Len(p \o l) = MaxHeight
    <2>1. p \o l = key
      BY <1>2, <1>4, <1>5, PrefixSame
    <2>2. View[p].next[l] = m[key]
      BY <1>2, <1>3, <2>1, CoreLeafArc
    <2> QED BY <1>1, <1>2, <1>5, <2>2 DEF LeafHash
  <1>6. CASE ~(LabelMatches(n) /\ Len(p \o l) = MaxHeight)
    <2>1. LeafHash(n) = None
      BY <1>1, <1>6 DEF LeafHash
    <2>2. ~LabelMatches(n)
      BY <1>1, <1>2, <1>4, <1>6 DEF EndOfTraversal
    <2>3. ~IsBinary(n) /\ ~PathMatches(EdgePath(n), key, Len(p))
      BY <1>1, <2>2 DEF LabelMatches
    <2>4. IsEdge(n) /\ l = EdgePath(n) /\ DOMAIN n.next = {l}
      BY <1>2, <2>3, NodeKind, EdgeDomain
    <2>5. ASSUME m[key] # None PROVE FALSE
      <3>1. Through(m, key) # {}
        BY <1>2, <2>5, ThroughKey
      <3>2. PICK x \in Labels(m, p) : IsPrefixOf(p \o x, key)
        BY <1>2, <1>3, <1>4, <3>1, ArcToward
      <3>3. IsPrefixOf(p \o l, key)
        BY <1>3, <2>4, <3>2
      <3>4. PathMatches(l, key, Len(p))
        BY <1>2, <3>3, MatchesKey
      <3> QED BY <2>3, <2>4, <3>4
    <2> QED BY <1>1, <2>1, <2>5
  <1> QED BY <1>5, <1>6

\* The traversal meets no dangling handle.
LEMMA DescendHolds ==
  ASSUME CoreInv, OnTheWay, updates = NoUpdates
  PROVE  ~TraversalBroken(nodes[current_path])
  <1>1. PICK p, n, l : p = current_path /\ n = nodes[current_path] /\ l = NextLabel(n)
    OBVIOUS
  <1>2. /\ p \in Path /\ n # NoNode /\ nodes[p] = n /\ IsNodeAt(n, p)
        /\ l \in DOMAIN n.next /\ p \o l \in Path /\ Len(p \o l) <= MaxHeight
    BY <1>1, NextStep
  <1>3. ~BadNode(n)
    BY <1>1, <1>2 DEF BadNode, IsNodeAt
  <1>4. ASSUME ~EndOfTraversal(n), n.next[l] # InMemory PROVE DbNode(p \o l) # NoNode
    <2>1. /\ nodes[p \o l] = NoNode
          /\ Len(p \o l) < MaxHeight => View[p \o l] # NoNode
      BY <1>2, <1>4, CoreArc
    <2>2. Len(p \o l) < MaxHeight
      BY <1>1, <1>2, <1>4, PathLen DEF EndOfTraversal
    <2> QED BY <1>2, <2>1, <2>2, ViewInCall
  <1> QED BY <1>1, <1>2, <1>3, <1>4 DEF TraversalBroken, DanglingHandle

LEMMA DescendOneHolds ==
  ASSUME NEW m, NEW d, ProofHolds(m, d), DescendOne
  PROVE  ProofHolds(m, d)'
  <1>1. pc = "ProofDescend"
    BY DEF DescendOne
  <1>2. /\ Rests(m, d) /\ ProofAt(m) /\ OnTheWay /\ CoreInv /\ updates = NoUpdates /\ InTree(m)
        /\ RootKnown /\ NodesTyped
    BY <1>1 DEF ProofHolds, InProof, ProofAt, Rests, CoreInv
  <1>3. PICK p, n, l, hs : /\ p = current_path /\ n = nodes[current_path] /\ l = NextLabel(n)
                           /\ hs = current_nodes_heights
    OBVIOUS
  <1>4. Descend(n)
    BY <1>2, <1>3, DescendHolds DEF DescendOne
  <1>5. PICK c, hs2 : c = p \o l /\ hs2 = Append(hs, Len(p))
    OBVIOUS
  <1>6. /\ current_nodes_heights' = hs2 /\ current_path' = c
        /\ UNCHANGED <<trie_db, flat_db, root_node, death_row, cache_leaf_modified, args, hashes,
                       updates, failed, latest, keys>>
    BY <1>3, <1>4, <1>5 DEF Descend, db, commit
  <1>7. \/ EndOfTraversal(n) /\ pc' = "ProofKey" /\ done' = done + 1 /\ leaf_hash' = LeafHash(n) /\ nodes' = nodes
        \/ ~EndOfTraversal(n) /\ pc' = "ProofVisit" /\ done' = done /\ nodes' = LoadChild(p, l)
    BY <1>3, <1>4 DEF Descend
  <1>8. /\ p \in Path /\ n # NoNode /\ nodes[p] = n /\ Len(p) < MaxHeight /\ IsNodeAt(n, p) /\ View[p] = n
        /\ l \in DOMAIN n.next /\ l \in Path /\ Len(l) >= 1 /\ c \in Path /\ Len(c) <= MaxHeight
        /\ args.key \in Key /\ (LabelMatches(n) => IsPrefixOf(c, args.key))
    BY <1>2, <1>3, <1>5, NextStep
  <1>9. Walked(hs, p) /\ \A i \in 1..Len(hs) : Held(hs, p, i)
    BY <1>2, <1>3 DEF OnTheWay
  <1>10. /\ Walked(hs2, c) /\ Len(hs2) = Len(hs) + 1
         /\ \A i \in 1..Len(hs) : Held(hs2, c, i)
         /\ LabelOf(hs2, c, Len(hs2)) = l /\ First(c, hs2[Len(hs2)]) = p
    <2>1. /\ nodes[p] # NoNode /\ l \in DOMAIN nodes[p].next /\ p \o l \in Path
          /\ Len(p) < MaxHeight /\ l \in Path /\ Len(l) >= 1
      BY <1>5, <1>8
    <2>2. GoesOn(hs, p, l, hs2, c)
      BY <1>5 DEF GoesOn
    <2> QED BY <1>9, <2>1, <2>2, WalkOn
  <1>11. /\ done < Len(keys) /\ args.key = keys[done + 1] /\ keys \in Seq(Path) /\ done \in 0..Len(keys)
    BY <1>2 DEF OnTheWay, ProofAt
  <1>12. ~Removing /\ ~Removing'
    BY <1>1, <1>7 DEF Removing
  <1>13. ASSUME Grows
         PROVE  /\ Walked(current_nodes_heights, current_path)'
                /\ \A i \in 1..Len(hs) : Held(current_nodes_heights, current_path, i)'
    <2>1. Walked(hs2, c)' /\ \A i \in 1..Len(hs2) : Held(hs2, c, i) => Held(hs2, c, i)'
      BY <1>10, <1>13, WalkGrows
    <2>2. \A i \in 1..Len(hs) : i \in 1..Len(hs2)
      <3>1. Len(hs) \in Nat
        BY <1>9 DEF Walked, Heights
      <3> QED BY <1>10, <3>1
    <2>3. \A i \in 1..Len(hs) : Held(hs2, c, i)'
      BY <1>10, <2>1, <2>2
    <2>4. Walked(current_nodes_heights, current_path)'
      BY <1>6, <2>1 DEF Walked, Heights, Follows, Held, WalkNode, LabelOf, EndOf
    <2>5. \A i \in 1..Len(hs) : Held(current_nodes_heights, current_path, i)'
      BY <1>6, <2>3 DEF Held, WalkNode, LabelOf, EndOf
    <2> QED BY <2>4, <2>5
  <1>14. CASE EndOfTraversal(n)
    <2>1. pc' = "ProofKey" /\ done' = done + 1 /\ leaf_hash' = LeafHash(n) /\ nodes' = nodes
      BY <1>7, <1>14
    <2>2. Grows
      BY <2>1 DEF Grows
    <2>3. Walked(current_nodes_heights, current_path)'
      BY <1>13, <2>2
    <2>4. leaf_hash' = m[args.key]
      BY <1>2, <1>3, <1>14, <2>1, LeafFound
    <2>5. BetweenKeys(m)'
      BY <1>6, <1>8, <1>11, <2>1, <2>3, <2>4 DEF BetweenKeys
    <2>6. ProofAt(m)'
      <3>1. done' \in 0..Len(keys')
        BY <1>6, <1>11, <2>1
      <3> QED BY <1>6, <1>11, <2>1, <2>5, <3>1 DEF ProofAt
    <2>7. Rests(m, d)'
      BY <1>2, <1>6, <1>12, <2>1, SameRests
    <2> QED BY <2>1, <2>6, <2>7 DEF ProofHolds, InProof
  <1>15. CASE ~EndOfTraversal(n)
    <2>1. pc' = "ProofVisit" /\ done' = done /\ nodes' = LoadChild(p, l)
      BY <1>7, <1>15
    <2>2. LabelMatches(n) /\ Len(c) < MaxHeight
      <3>1. LabelMatches(n) /\ ~(Len(c) >= MaxHeight) /\ Len(c) \in Nat
        BY <1>3, <1>5, <1>8, <1>15, PathLen DEF EndOfTraversal
      <3> QED BY <3>1
    <2>3. /\ c # p /\ nodes'[c] = View[c] /\ nodes'[c] # NoNode
          /\ nodes'[p] = WithChild(n, l, InMemory) /\ nodes'[p] # NoNode /\ SameNode(n, nodes'[p])
          /\ \A q \in Path : q \notin {p, c} => nodes'[q] = nodes[q]
          /\ \A q \in Path : SameNode(View[q], View'[q])
      BY <1>2, <1>5, <1>6, <1>8, <2>1, <2>2, LoadsChild
    <2>4. LinkInv' /\ AboveInv'
      BY <1>2, <1>5, <1>6, <1>8, <2>1, <2>2, LoadsLinks
    <2>5. /\ nodes'[p].next = [n.next EXCEPT ![l] = InMemory] /\ DOMAIN nodes'[p].next = DOMAIN n.next
          /\ nodes'[p].next[l] = InMemory /\ \A x \in DOMAIN n.next : x # l => nodes'[p].next[x] = n.next[x]
      BY <1>8, <2>3 DEF WithChild
    <2>6. ASSUME NEW q \in Path, nodes[q] # NoNode, q # p PROVE nodes'[q] = nodes[q]
      <3>1. nodes[q] = View[q]
        BY <1>2, <2>6, CoreNodeInMemory
      <3> QED BY <2>3, <2>6, <3>1
    <2>7. Grows
      <3> SUFFICES ASSUME NEW q \in Path, nodes[q] # NoNode
                   PROVE  /\ nodes'[q] # NoNode /\ DOMAIN nodes'[q].next = DOMAIN nodes[q].next
                          /\ \A x \in DOMAIN nodes[q].next : nodes[q].next[x] = InMemory => nodes'[q].next[x] = InMemory
        BY DEF Grows
      <3>1. CASE q = p
        BY <1>8, <2>3, <2>5, <3>1
      <3>2. CASE q # p
        BY <2>6, <3>2
      <3> QED BY <3>1, <3>2
    <2>8. IsNodeMap(nodes', {NoNode}) /\ RootKnown'
      <3>1. ASSUME NEW q \in Path PROVE nodes'[q] = NoNode \/ IsNodeAt(nodes'[q], q)
        <4>1. CASE q = p
          <5>1. InMemory \in NodeHandle
            BY DEF NodeHandle
          <5>2. IsNodeAt(WithChild(n, l, InMemory), p)
            BY <1>8, <5>1, WithChildNode
          <5> QED BY <2>3, <4>1, <5>2
        <4>2. CASE q # p
          <5>1. nodes'[q] = nodes[q] \/ nodes'[q] = View[q]
            BY <2>3, <4>2
          <5> QED BY <1>2, <5>1, CoreViewType
        <4> QED BY <4>1, <4>2
      <3>2. DOMAIN nodes' = Path
        BY <1>2, <2>1 DEF LoadChild, NodesTyped, IsNodeMap
      <3>3. nodes[<< >>] # NoNode /\ nodes'[<< >>] # NoNode /\ root_node = "Loaded"
        <4>1. nodes[<< >>] # NoNode
          BY <1>2, <1>8, CoreRoot
        <4> QED BY <1>2, <2>7, <4>1, RootInPath DEF Grows, RootKnown
      <3>4. RootKnown'
        BY <1>6, <3>3 DEF RootKnown
      <3> QED BY <3>1, <3>2, <3>4 DEF IsNodeMap
    <2>9. ASSUME NEW q \in Path, nodes'[q] # NoNode, nodes'[q] # View[q]
          PROVE  /\ nodes[q] # NoNode /\ Proper(nodes'[q])
                 /\ \A x \in DOMAIN nodes'[q].next : nodes'[q].next[x] # InMemory =>
                       x \in DOMAIN nodes[q].next /\ nodes'[q].next[x] = nodes[q].next[x]
      <3>1. CASE q = p
        <4>1. Proper(nodes'[p])
          BY <2>5 DEF Proper
        <4>2. \A x \in DOMAIN nodes'[p].next : nodes'[p].next[x] # InMemory =>
                       x \in DOMAIN n.next /\ nodes'[p].next[x] = n.next[x]
          BY <2>5
        <4> QED BY <1>8, <3>1, <4>1, <4>2
      <3>2. CASE q # p
        <4>1. nodes'[q] = nodes[q]
          BY <2>3, <2>9, <3>2
        <4> QED BY <1>2, <2>9, <4>1, CoreNodeInMemory
      <3> QED BY <3>1, <3>2
    <2>10. ASSUME NEW q \in Path, nodes'[q] = NoNode PROVE nodes[q] = NoNode
      BY <2>7, <2>10 DEF Grows
    <2>11. Rests(m, d)'
      BY <1>2, <1>6, <1>12, <2>3, <2>4, <2>8, <2>9, <2>10, LoadRests
    <2>12. OnTheWay'
      <3>1. /\ Walked(current_nodes_heights, current_path)'
            /\ \A i \in 1..Len(hs) : Held(current_nodes_heights, current_path, i)'
        BY <1>13, <2>7
      <3>2. Held(current_nodes_heights, current_path, Len(hs2))'
        <4>1. LabelOf(current_nodes_heights, current_path, Len(hs2))' = l
          BY <1>6, <1>10 DEF LabelOf, EndOf
        <4> QED BY <1>6, <1>10, <2>5, <4>1 DEF Held, WalkNode
      <3>3. \A i \in 1..Len(hs2) : i \in 1..Len(hs) \/ i = Len(hs2)
        <4>1. Len(hs) \in Nat
          BY <1>9 DEF Walked, Heights
        <4> QED BY <1>10, <4>1
      <3>4. \A i \in 1..Len(hs2) : Held(current_nodes_heights, current_path, i)'
        BY <3>1, <3>2, <3>3
      <3>5. IsPrefixOf(current_path, args.key)'
        BY <1>6, <1>8, <2>2 DEF IsPrefixOf, First
      <3> QED BY <1>6, <1>8, <1>11, <2>1, <2>3, <3>1, <3>4, <3>5 DEF OnTheWay
    <2>13. ProofAt(m)'
      BY <1>6, <1>11, <2>1, <2>12 DEF ProofAt
    <2> QED BY <2>1, <2>11, <2>13 DEF ProofHolds, InProof
  <1> QED BY <1>14, <1>15

(***************************************************************************)
(* The other calls, and a restart                                          *)
(***************************************************************************)
\* No other call is made while a proof is under way.
LEMMA OnlyReopens ==
  ASSUME InProof, Next
  PROVE  Reopen
  <1>1. pc \notin {"Idle", "LoadRoot", "Traverse", "Finish", "Hash", "CommitSubtree", "Write"}
    BY DEF InProof
  <1>2. ASSUME NEW key \in Keys, NEW value \in Values,
               SetCached(key, value) \/ SetSame(key, value) \/ SetSeek(key, value)
        PROVE  FALSE
    BY <1>1, <1>2 DEF SetCached, SetSame, SetSeek, StartSet
  <1>3. ASSUME NEW key \in Keys, DeleteAbsent(key) \/ DeleteSeek(key) PROVE FALSE
    BY <1>1, <1>3 DEF DeleteAbsent, DeleteSeek, StartDelete
  <1>4. /\ ~CommitStart /\ ~LoadRootNode /\ ~TraverseOne /\ ~SeekFails
        /\ ~CommitWrite /\ ~CommitWriteFails
    BY <1>1 DEF CommitStart, LoadRootNode, TraverseOne, SeekFails, SeekReadsDb, CommitWrite,
                CommitWriteFails
  <1>5. ~Setting /\ ~Deleting
    BY <1>1 DEF Setting, Deleting
  <1>6. /\ ~SetFirstLeaf /\ ~SetLeafUnderEdge /\ ~SetLeafUnderBinary /\ ~SetSplitsEdge
        /\ ~DeleteLastLeaf /\ ~MergeReadFails /\ ~DeleteAtBranch /\ ~DeleteAtBranchUnderEdge
    BY <1>5 DEF SetFirstLeaf, SetLeafUnderEdge, SetLeafUnderBinary, SetSplitsEdge,
                DeleteLastLeaf, MergeReadFails, DeleteAtBranch, DeleteAtBranchUnderEdge
  <1>7. ASSUME NEW p \in Path, ComputeHash(p) \/ CommitSubtree(p) PROVE FALSE
    BY <1>1, <1>7 DEF ComputeHash, CommitSubtree
  <1>8. ~Step
    BY <1>4, <1>6, <1>7 DEF Step
  <1> QED BY <1>2, <1>3, <1>4, <1>8 DEF Next

\* A restart during a proof leaves the database as it is.
LEMMA RestartHolds ==
  ASSUME NEW m, NEW d, ProofHolds(m, d), InProof, Reopen, ResetProof
  PROVE  ProofHolds(d, d)'
  <1>1. /\ root_node' = "None" /\ nodes' = NoNodes /\ death_row' = {}
        /\ cache_leaf_modified' = NoLeaves /\ hashes' = NoHashes /\ updates' = NoUpdates
        /\ latest' = flat_db /\ failed' = failed /\ pc' = "Idle" /\ done' = 0
        /\ trie_db' = trie_db /\ flat_db' = flat_db
    BY DEF Reopen, Return, ResetProof, db
  <1>2. Rests(m, d) /\ CoreInv /\ NodesTyped /\ failed = FALSE /\ InDb(d)
    BY DEF ProofHolds, Rests, CoreInv
  <1>3. TInv'
    <2>1. Return
      BY DEF Reopen
    <2>2. flat_db \in [Key -> Felt \cup {None}] /\ IsNodeMap(trie_db, {NoNode})
      BY <1>2 DEF Rests, NodesTyped
    <2> QED BY <1>1, <1>2, <2>1, <2>2, ReturnTypes, EmptyTypes DEF TInv, TypeOK
  <1>4. \A p \in Path : nodes'[p] = NoNode
    BY <1>1 DEF NoNodes
  <1>5. HasShapeOf(trie_db, flat_db)' /\ ~failed' /\ \A p \in Path : Stored(trie_db[p])'
    BY <1>1, <1>2 DEF CoreInv, StoredInv, Stored
  <1>6. Fresh'
    BY <1>1, <1>3, <1>4, <1>5 DEF Fresh
  <1>7. InDb(d)'
    BY <1>1, <1>2, SameDb
  <1>8. Holds(d, d)'
    BY <1>6, <1>7, FreshHoldsNext
  <1> QED BY <1>1, <1>8 DEF ProofHolds, InProof

\* Between proofs the pc is that of another call.
LEMMA NotInProof ==
  ASSUME NEW m, NEW d
  PROVE  Holds(m, d) => ~InProof
  BY DEF Holds, ShapeInv, TInv, TypeOK, InProof

LEMMA NotInProofNext ==
  ASSUME NEW m, NEW d
  PROVE  Holds(m, d)' => ~InProof'
  <1>1. Holds(m, d) => ~InProof
    BY NotInProof
  <1> QED BY <1>1, PTL

LEMMA CallHolds ==
  ASSUME "remove" \notin ReadErrors, NEW m, NEW d, ProofHolds(m, d), ~InProof, Next, ResetProof
  PROVE  \E m2, d2 : ProofHolds(m2, d2)' /\ Moves(m, d, m2, d2)
  <1>1. Holds(m, d)
    BY DEF ProofHolds
  <1>2. PICK m2, d2 : Holds(m2, d2)' /\ Moves(m, d, m2, d2)
    BY <1>1, NextHolds
  <1>3. ~InProof' /\ done' = 0
    BY <1>2, NotInProofNext DEF ResetProof
  <1> QED BY <1>2, <1>3 DEF ProofHolds

LEMMA StutterProofHolds ==
  ASSUME "remove" \notin ReadErrors, NEW m, NEW d, ProofHolds(m, d), UNCHANGED all_vars
  PROVE  ProofHolds(m, d)'
  <1>1. /\ UNCHANGED <<trie_db, flat_db, death_row, cache_leaf_modified, hashes, updates, failed, latest,
                       root_node, nodes, pc, args, current_path, current_nodes_heights, keys, done, leaf_hash>>
        /\ UNCHANGED vars
    BY DEF all_vars, proof_vars, vars, db, tree, iter, commit
  <1>2. CASE InProof
    <2>1. Rests(m, d) /\ ProofAt(m) /\ InProof'
      BY <1>1, <1>2 DEF ProofHolds, InProof
    <2>2. ~Removing /\ ~Removing'
      BY <1>2, <2>1, NotRemoving, NotRemovingNext
    <2>3. Rests(m, d)'
      BY <1>1, <2>1, <2>2, SameRests
    <2>4. ProofAt(m)'
      BY <1>1, <2>1 DEF ProofAt, BetweenKeys, OnTheWay, Walked, Heights, Follows, Held, WalkNode,
                        LabelOf, EndOf, IsPrefixOf, First
    <2> QED BY <2>1, <2>3, <2>4 DEF ProofHolds
  <1>3. CASE ~InProof
    <2>1. Holds(m, d) /\ done = 0 /\ ~InProof'
      BY <1>1, <1>3 DEF ProofHolds, InProof
    <2>2. ShapeInv'
      BY <1>1, <2>1, NextShape DEF Holds
    <2>3. Holds(m, d)'
      BY <1>1, <2>1, <2>2, StutterHolds
    <2> QED BY <1>1, <2>1, <2>3 DEF ProofHolds
  <1> QED BY <1>2, <1>3

LEMMA ProofInitInv == ProofInit => ProofInv
  <1> SUFFICES ASSUME ProofInit PROVE ProofInv
    OBVIOUS
  <1>1. Holds(NoLeaves, NoLeaves) /\ done = 0
    BY InitHolds DEF ProofInit
  <1>2. ~InProof
    BY <1>1, NotInProof
  <1>3. ProofHolds(NoLeaves, NoLeaves)
    BY <1>1, <1>2 DEF ProofHolds
  <1> QED BY <1>3 DEF ProofInv

\* A multi-proof leaves the leaves as they are.
LEMMA ProofStepHolds ==
  ASSUME NEW m, NEW d, ProofHolds(m, d), ProofStep \/ \E ks \in KeySequences : GetMultiProof(ks)
  PROVE  ProofHolds(m, d)'
  <1>1. ASSUME NEW ks \in KeySequences, GetMultiProof(ks) PROVE ProofHolds(m, d)'
    BY <1>1, GetMultiProofHolds
  <1>2. CASE KeyLengthError \/ ProofReadFails \/ DropProof
    BY <1>2, ReturnHolds
  <1>3. CASE ResumeAtLastKept
    BY <1>3, ResumeAtLastKeptHolds
  <1>4. CASE ResumeAtRoot
    BY <1>4, ResumeAtRootHolds
  <1>5. CASE VisitNode
    BY <1>5, VisitNodeHolds
  <1>6. CASE DescendOne
    BY <1>6, DescendOneHolds
  <1>7. CASE ReturnProof
    BY <1>7, ReturnProofHolds
  <1> QED BY <1>1, <1>2, <1>3, <1>4, <1>5, <1>6, <1>7 DEF ProofStep

\* It is no call of LeafMap, before the step or after it.
LEMMA ProofIsNoCall ==
  ASSUME NEW m, NEW d, ProofHolds(m, d), ProofStep \/ \E ks \in KeySequences : GetMultiProof(ks)
  PROVE  AbstractCall = [op |-> "none"] /\ AbstractCall' = [op |-> "none"]
  <1>1. pc \in {"Idle", "ProofKey", "ProofVisit", "ProofDescend", "Proved"}
    BY DEF ProofStep, KeyLengthError, ResumeAtLastKept, ResumeAtRoot, AtKey, VisitNode, DescendOne,
           ProofReadFails, ReturnProof, DropProof, GetMultiProof
  <1>2. CASE VisitNode \/ DescendOne
    <2>1. pc' \in {"Idle", "ProofKey", "ProofVisit", "ProofDescend"}
      BY <1>2, VisitKeeps DEF DescendOne, Descend, Fail, FailFrame, Return
    <2> QED BY <1>1, <2>1, CallIs, CallIsNext
  <1>3. CASE ~(VisitNode \/ DescendOne)
    <2>1. pc' \in {"Idle", "ProofKey", "ProofVisit", "ProofDescend", "Proved"}
      BY <1>3 DEF ProofStep, KeyLengthError, ResumeAtLastKept, ResumeAtRoot,
           ProofReadFails, ReturnProof, DropProof, GetMultiProof, Return
    <2> QED BY <1>1, <2>1, CallIs, CallIsNext
  <1> QED BY <1>2, <1>3

\* A restart forgets what is pending.
LEMMA ProofNextHolds ==
  ASSUME "remove" \notin ReadErrors, NEW m, NEW d, ProofHolds(m, d), [ProofNext]_all_vars
  PROVE  \E m2, d2 : ProofHolds(m2, d2)' /\ Moves(m, d, m2, d2)
  <1>1. CASE Next /\ ResetProof
    <2>1. CASE InProof
      <3>1. ProofHolds(d, d)' /\ Reopen
        BY <1>1, <2>1, OnlyReopens, RestartHolds
      <3>2. Restarts
        BY <3>1, CallIsNext DEF Reopen, Return, Restarts
      <3> QED BY <3>1, <3>2 DEF Moves
    <2>2. CASE ~InProof
      BY <1>1, <2>2, CallHolds
    <2> QED BY <2>1, <2>2
  <1>2. CASE ProofStep \/ \E ks \in KeySequences : GetMultiProof(ks)
    <2>1. ProofHolds(m, d)' /\ CallGoesOn
      BY <1>2, ProofStepHolds, ProofIsNoCall DEF CallGoesOn
    <2> QED BY <2>1 DEF Moves
  <1>3. CASE UNCHANGED all_vars
    <2>1. AbstractCall' = AbstractCall
      BY <1>3 DEF all_vars, vars, iter, AbstractCall
    <2>2. ProofHolds(m, d)' /\ CallGoesOn
      BY <1>3, <2>1, StutterProofHolds DEF CallGoesOn
    <2> QED BY <2>2 DEF Moves
  <1> QED BY <1>1, <1>2, <1>3 DEF ProofNext

LEMMA ProofNextInv == "remove" \notin ReadErrors /\ ProofInv /\ [ProofNext]_all_vars => ProofInv'
  <1> SUFFICES ASSUME "remove" \notin ReadErrors, ProofInv, [ProofNext]_all_vars PROVE ProofInv'
    OBVIOUS
  <1>1. PICK m, d : ProofHolds(m, d)
    BY DEF ProofInv
  <1>2. PICK m2, d2 : ProofHolds(m2, d2)'
    BY <1>1, ProofNextHolds
  <1> QED BY <1>2 DEF ProofInv

(***************************************************************************)
(* Hashes are free terms: from a hash, or from a sequence that begins with *)
(* one, the node can be read back.                                         *)
(***************************************************************************)
\* No value looks like the hash of a node, and none is the beginning of
\* another, as it is for values of one length that do not begin with 2 or 3.
\* A hash of the model is the sequence of what it is computed from, so that is
\* what makes different nodes have different hashes.
SelfDelimiting(V) ==
    /\ V \subseteq Felt \ {ZERO}
    /\ \A v \in V : v[1] \notin {2, 3}
    /\ \A v, w \in V : IsPrefixOf(v, w) => v = w

LeafMaps(V) == [Key -> V \cup {None}]

\* The hashes of the subtrees that have a leaf, of any tree with leaves in V.
TreeHashes(V) ==
    {h \in Felt : \E m \in LeafMaps(V), p \in Path :
                      Through(m, p) # {} /\ h = SubtreeHash(m)[p]}

LEMMA FeltConcat ==
  ASSUME NEW s \in Felt, NEW t \in Felt
  PROVE  /\ s \o t \in Felt /\ Len(s \o t) = Len(s) + Len(t)
         /\ \A i \in 1..Len(s) : (s \o t)[i] = s[i]
         /\ \A i \in 1..Len(t) : (s \o t)[Len(s) + i] = t[i]
  BY DEF Felt

LEMMA SameFelt ==
  ASSUME NEW s \in Felt, NEW t \in Felt, Len(s) = Len(t), \A i \in 1..Len(s) : s[i] = t[i]
  PROVE  s = t
  BY DEF Felt

LEMMA FeltAssoc ==
  ASSUME NEW s \in Felt, NEW t \in Felt, NEW u \in Felt
  PROVE  (s \o t) \o u = s \o (t \o u)
  <1>1. s \in Seq(Nat) /\ t \in Seq(Nat) /\ u \in Seq(Nat)
    BY DEF Felt
  <1> QED BY ONLY <1>1

\* Sequences that begin alike for the same length go on alike.
LEMMA FeltCancel ==
  ASSUME NEW a \in Felt, NEW b \in Felt, NEW s \in Felt, NEW t \in Felt,
         Len(a) = Len(b), a \o s = b \o t
  PROVE  a = b /\ s = t
  <1>1. PICK x : x = a \o s
    OBVIOUS
  <1>2. /\ Len(x) = Len(a) + Len(s) /\ \A i \in 1..Len(a) : x[i] = a[i]
        /\ \A i \in 1..Len(s) : x[Len(a) + i] = s[i]
    <2>1. /\ Len(a \o s) = Len(a) + Len(s) /\ \A i \in 1..Len(a) : (a \o s)[i] = a[i]
          /\ \A i \in 1..Len(s) : (a \o s)[Len(a) + i] = s[i]
      BY FeltConcat, Zenon
    <2> QED BY <1>1, <2>1
  <1>3. /\ Len(x) = Len(b) + Len(t) /\ \A i \in 1..Len(b) : x[i] = b[i]
        /\ \A i \in 1..Len(t) : x[Len(b) + i] = t[i]
    <2>1. /\ Len(b \o t) = Len(b) + Len(t) /\ \A i \in 1..Len(b) : (b \o t)[i] = b[i]
          /\ \A i \in 1..Len(t) : (b \o t)[Len(b) + i] = t[i]
      BY FeltConcat, Zenon
    <2>2. x = b \o t
      BY <1>1
    <2> QED BY <2>1, <2>2
  <1>4. Len(a) \in Nat /\ Len(b) \in Nat /\ Len(s) \in Nat /\ Len(t) \in Nat
    BY DEF Felt
  <1>5. Len(s) = Len(t)
    BY <1>2, <1>3, <1>4
  <1>6. a = b
    BY <1>2, <1>3, SameFelt
  <1>7. \A i \in 1..Len(s) : s[i] = t[i]
    BY <1>2, <1>3, <1>5
  <1> QED BY <1>5, <1>6, <1>7, SameFelt

LEMMA Tag ==
  ASSUME NEW x \in Nat, NEW y \in Nat, NEW s \in Felt, NEW t \in Felt, <<x>> \o s = <<y>> \o t
  PROVE  x = y /\ s = t
  <1>1. <<x>> \in Felt /\ <<y>> \in Felt /\ Len(<<x>>) = 1 /\ Len(<<y>>) = 1
    BY DEF Felt
  <1>2. <<x>> = <<y>> /\ s = t
    BY <1>1, FeltCancel
  <1> QED BY <1>2

\* A path in a hash, and what follows it: the 4 ends the path.
PathThen(l, s) == l \o (<<4>> \o s)

LEMMA PathTag ==
  ASSUME NEW l \in Path, NEW j \in Path, NEW s \in Felt, NEW t \in Felt,
         PathThen(l, s) = PathThen(j, t)
  PROVE  l = j /\ s = t
  <1>1. ASSUME NEW a \in Path, NEW b \in Path, NEW u \in Felt, NEW v \in Felt,
               PathThen(a, u) = PathThen(b, v), Len(a) < Len(b)
        PROVE  FALSE
    <2>1. a \in Felt /\ b \in Felt /\ <<4>> \in Felt
      BY PathIsFelt DEF Felt
    <2>2. PICK y, z : y = <<4>> \o u /\ z = <<4>> \o v
      OBVIOUS
    <2>3. y \in Felt /\ Len(y) = 1 + Len(u) /\ y[1] = 4 /\ z \in Felt
      BY <2>2 DEF Felt
    <2>4. Len(a) \in Nat /\ Len(b) \in Nat /\ Len(u) \in Nat
      BY <2>1 DEF Felt
    <2>5. (a \o y)[Len(a) + 1] = 4
      <3>1. \A i \in 1..Len(y) : (a \o y)[Len(a) + i] = y[i]
        BY <2>1, <2>3, FeltConcat, Zenon
      <3>2. 1 \in 1..Len(y)
        BY <2>3, <2>4
      <3> QED BY <2>3, <3>1, <3>2
    <2>6. (b \o z)[Len(a) + 1] = b[Len(a) + 1]
      <3>1. \A i \in 1..Len(b) : (b \o z)[i] = b[i]
        BY <2>1, <2>3, FeltConcat, Zenon
      <3>2. Len(a) + 1 \in 1..Len(b)
        BY <1>1, <2>4
      <3> QED BY <3>1, <3>2
    <2>7. b[Len(a) + 1] \in Bit
      <3>1. b \in Seq(Bit) /\ Len(a) + 1 \in 1..Len(b)
        BY <1>1, <2>4, PathSeq
      <3> QED BY <3>1
    <2>8. a \o y = b \o z
      BY <1>1, <2>2, Zenon DEF PathThen
    <2>9. b[Len(a) + 1] = 4
      BY <2>5, <2>6, <2>8, Zenon
    <2> QED BY <2>7, <2>9 DEF Bit
  <1>2. Len(l) \in Nat /\ Len(j) \in Nat
    BY PathLen
  <1>3. Len(l) = Len(j)
    <2>1. ~(Len(l) < Len(j))
      BY <1>1, Zenon
    <2>2. ~(Len(j) < Len(l))
      BY <1>1, Zenon
    <2> QED BY <1>2, <2>1, <2>2
  <1>4. PICK y, z : y = <<4>> \o s /\ z = <<4>> \o t
    OBVIOUS
  <1>5. l \in Felt /\ j \in Felt /\ y \in Felt /\ z \in Felt /\ l \o y = j \o z
    <2>1. l \in Felt /\ j \in Felt
      BY PathIsFelt
    <2>2. <<4>> \in Felt
      BY DEF Felt
    <2>3. y \in Felt /\ z \in Felt
      BY <1>4, <2>2, FeltConcat, Zenon
    <2> QED BY <1>4, <2>1, <2>3, Zenon DEF PathThen
  <1>6. l = j /\ y = z
    BY <1>3, <1>5, FeltCancel, Zenon
  <1> QED BY <1>4, <1>6, Tag

\* The pieces a hash is made of.
Cat(s, t) == s \o t

Tagged(x, s) == <<x>> \o s

LEMMA PiecesType ==
  /\ \A s, t \in Felt : Cat(s, t) \in Felt
  /\ \A x \in Nat, s \in Felt : Tagged(x, s) \in Felt
  /\ \A l \in Path, s \in Felt : PathThen(l, s) \in Felt
  <1>1. \A s, t \in Felt : s \o t \in Felt
    BY FeltConcat, Zenon
  <1>2. <<4>> \in Felt /\ \A x \in Nat : <<x>> \in Felt
    BY DEF Felt
  <1>3. Path \subseteq Felt
    BY PathIsFelt
  <1> QED BY <1>1, <1>2, <1>3, Zenon DEF Cat, Tagged, PathThen

LEMMA PiecesCancel ==
  /\ \A a, s, t \in Felt : Cat(a, s) = Cat(a, t) => s = t
  /\ \A x, y \in Nat, s, t \in Felt : Tagged(x, s) = Tagged(y, t) => x = y /\ s = t
  /\ \A l, j \in Path, s, t \in Felt : PathThen(l, s) = PathThen(j, t) => l = j /\ s = t
  <1>1. ASSUME NEW a \in Felt, NEW s \in Felt, NEW t \in Felt, a \o s = a \o t PROVE s = t
    BY <1>1, FeltCancel, Zenon
  <1>2. ASSUME NEW x \in Nat, NEW y \in Nat, NEW s \in Felt, NEW t \in Felt, <<x>> \o s = <<y>> \o t
        PROVE  x = y /\ s = t
    BY <1>2, Tag
  <1>3. ASSUME NEW l \in Path, NEW j \in Path, NEW s \in Felt, NEW t \in Felt,
               PathThen(l, s) = PathThen(j, t)
        PROVE  l = j /\ s = t
    BY <1>3, PathTag
  <1> QED BY <1>1, <1>2, <1>3, Zenon DEF Cat, Tagged

LEMMA BinaryRest ==
  ASSUME NEW a \in Felt, NEW b \in Felt, NEW s \in Felt
  PROVE  /\ Cat(hash_binary_node(a, b), s) = Tagged(2, Cat(a, Cat(b, s)))
         /\ hash_binary_node(a, b) \in Felt
         /\ Len(hash_binary_node(a, b)) = 1 + Len(a) + Len(b)
  <1>1. <<2>> \in Felt /\ Len(<<2>>) = 1
    BY DEF Felt
  <1>2. /\ <<2>> \o a \in Felt /\ Len(<<2>> \o a) = 1 + Len(a)
        /\ (<<2>> \o a) \o b \in Felt /\ Len((<<2>> \o a) \o b) = Len(<<2>> \o a) + Len(b)
        /\ b \o s \in Felt /\ a \o (b \o s) \in Felt
    BY <1>1, FeltConcat
  <1>3. ((<<2>> \o a) \o b) \o s = (<<2>> \o a) \o (b \o s)
    <2>1. PICK x : x = <<2>> \o a
      OBVIOUS
    <2>2. x \in Felt
      BY <1>2, <2>1
    <2>3. (x \o b) \o s = x \o (b \o s)
      BY <2>2, FeltAssoc
    <2> QED BY <2>1, <2>3
  <1>4. (<<2>> \o a) \o (b \o s) = <<2>> \o (a \o (b \o s))
    BY <1>1, <1>2, FeltAssoc, Zenon
  <1>5. hash_binary_node(a, b) = (<<2>> \o a) \o b
    BY DEF hash_binary_node
  <1>6. hash_binary_node(a, b) \o s = <<2>> \o (a \o (b \o s))
    BY <1>3, <1>4, <1>5, Zenon
  <1>7. Cat(hash_binary_node(a, b), s) = Tagged(2, Cat(a, Cat(b, s)))
    BY <1>6, Zenon DEF Cat, Tagged
  <1>8. hash_binary_node(a, b) \in Felt /\ Len(hash_binary_node(a, b)) = 1 + Len(a) + Len(b)
    BY <1>2, <1>5
  <1> QED BY <1>7, <1>8, Zenon

LEMMA EdgeRest ==
  ASSUME NEW l \in Path, NEW c \in Felt, NEW s \in Felt
  PROVE  /\ Cat(hash_edge_node(l, c), s) = Tagged(3, PathThen(l, Cat(c, s)))
         /\ hash_edge_node(l, c) \in Felt
         /\ Len(hash_edge_node(l, c)) = 2 + Len(l) + Len(c)
  <1>1. <<3>> \in Felt /\ Len(<<3>>) = 1 /\ <<4>> \in Felt /\ Len(<<4>>) = 1 /\ l \in Felt
    BY PathIsFelt DEF Felt
  <1>2. PICK x, y, z : x = <<3>> \o l /\ y = x \o <<4>> /\ z = y \o c
    OBVIOUS
  <1>3. /\ x \in Felt /\ Len(x) = 1 + Len(l) /\ y \in Felt /\ Len(y) = Len(x) + 1
        /\ z \in Felt /\ Len(z) = Len(y) + Len(c)
    BY <1>1, <1>2, FeltConcat
  <1>4. PICK u, v, w : u = c \o s /\ v = <<4>> \o u /\ w = l \o v
    OBVIOUS
  <1>5. u \in Felt /\ v \in Felt /\ w \in Felt
    BY <1>1, <1>4, FeltConcat, Zenon
  <1>6. z \o s = y \o u
    <2>1. (y \o c) \o s = y \o (c \o s)
      BY <1>3, FeltAssoc
    <2> QED BY <1>2, <1>4, <2>1, Zenon
  <1>7. y \o u = x \o v
    <2>1. PICK four : four = <<4>> /\ four \in Felt
      BY <1>1
    <2>2. x \in Felt /\ four \in Felt /\ u \in Felt
      BY <1>3, <1>5, <2>1
    <2>3. (x \o four) \o u = x \o (four \o u)
      BY <2>2, FeltAssoc
    <2> QED BY <1>2, <1>4, <2>1, <2>3, Zenon
  <1>8. x \o v = <<3>> \o w
    <2>1. PICK three : three = <<3>> /\ three \in Felt
      BY <1>1
    <2>2. three \in Felt /\ l \in Felt /\ v \in Felt
      BY <1>1, <1>5, <2>1
    <2>3. (three \o l) \o v = three \o (l \o v)
      BY <2>2, FeltAssoc
    <2> QED BY <1>2, <1>4, <2>1, <2>3, Zenon
  <1>9. hash_edge_node(l, c) = z
    BY <1>2 DEF hash_edge_node
  <1>10. z \o s = <<3>> \o w
    BY <1>6, <1>7, <1>8
  <1>11. Len(z) = 2 + Len(l) + Len(c)
    BY <1>1, <1>3 DEF Felt
  <1>12. Cat(hash_edge_node(l, c), s) = Tagged(3, PathThen(l, Cat(c, s)))
    BY <1>4, <1>9, <1>10, Zenon DEF Cat, Tagged, PathThen
  <1> QED BY <1>3, <1>9, <1>11, <1>12, Zenon

\* A value is not empty, and its first number is that of no node.
LEMMA ValueRest ==
  ASSUME NEW V, SelfDelimiting(V), NEW v \in V, NEW s \in Felt
  PROVE  v \in Felt /\ \E x \in Nat, u \in Felt : x \notin {2, 3} /\ Cat(v, s) = Tagged(x, u)
  <1>1. v \in Felt /\ v # << >> /\ v[1] \notin {2, 3}
    BY DEF SelfDelimiting, ZERO
  <1>2. v[1] \in Nat /\ Tail(v) \in Felt /\ <<v[1]>> \in Felt /\ v = <<v[1]>> \o Tail(v)
    BY <1>1 DEF Felt
  <1>3. PICK x, r : x = v[1] /\ r = Tail(v)
    OBVIOUS
  <1>4. x \in Nat /\ x \notin {2, 3} /\ r \in Felt /\ <<x>> \in Felt /\ v = <<x>> \o r
    BY <1>1, <1>2, <1>3
  <1>5. r \o s \in Felt
    BY <1>4, FeltConcat, Zenon
  <1>6. (<<x>> \o r) \o s = <<x>> \o (r \o s)
    BY <1>4, FeltAssoc, Zenon
  <1>7. v \o s = <<x>> \o (r \o s)
    BY <1>4, <1>6, Zenon
  <1>8. Cat(v, s) = Tagged(x, r \o s)
    BY <1>7, Zenon DEF Cat, Tagged
  <1> QED BY <1>1, <1>4, <1>5, <1>8, Zenon

LEMMA ValuesDiffer ==
  ASSUME NEW V, SelfDelimiting(V), NEW v \in V, NEW w \in V, NEW s \in Felt, NEW t \in Felt,
         v \o s = w \o t
  PROVE  v = w
  <1>1. ASSUME NEW a \in V, NEW b \in V, NEW u \in Felt, NEW x \in Felt, a \o u = b \o x,
               Len(a) <= Len(b)
        PROVE  a = b
    <2>1. a \in Felt /\ b \in Felt
      BY DEF SelfDelimiting
    <2>2. \A i \in 1..Len(a) : (a \o u)[i] = a[i]
      BY <2>1, FeltConcat, Zenon
    <2>3. \A i \in 1..Len(b) : (b \o x)[i] = b[i]
      BY <2>1, FeltConcat, Zenon
    <2>4. PICK y : y = a \o u /\ y = b \o x
      BY <1>1
    <2>5. (\A i \in 1..Len(a) : y[i] = a[i]) /\ \A i \in 1..Len(b) : y[i] = b[i]
      BY <2>2, <2>3, <2>4, Zenon
    <2>6. Len(a) \in Nat /\ Len(b) \in Nat
      BY <2>1 DEF Felt
    <2>7. \A i \in 1..Len(a) : b[i] = a[i]
      BY <1>1, <2>5, <2>6
    <2>8. First(b, Len(a)) \in Felt /\ Len(First(b, Len(a))) = Len(a)
          /\ \A i \in 1..Len(a) : First(b, Len(a))[i] = b[i]
      BY <1>1, <2>1, <2>6 DEF First, Felt
    <2>9. First(b, Len(a)) = a
      BY <2>1, <2>7, <2>8, SameFelt
    <2>10. IsPrefixOf(a, b)
      BY <1>1, <2>9 DEF IsPrefixOf
    <2> QED BY <2>10 DEF SelfDelimiting
  <1>2. Len(v) \in Nat /\ Len(w) \in Nat
    BY DEF SelfDelimiting, Felt
  <1>3. CASE Len(v) <= Len(w)
    BY <1>1, <1>3, Zenon
  <1>4. CASE Len(w) <= Len(v)
    <2>1. w \o t = v \o s
      OBVIOUS
    <2>2. w = v
      BY <1>1, <1>4, <2>1, Zenon
    <2> QED BY <2>2
  <1> QED BY <1>2, <1>3, <1>4

\* The hash of a subtree is a value, or is made of the hashes below it.
LEMMA HashForm ==
  ASSUME NEW V, SelfDelimiting(V), NEW m \in LeafMaps(V), NEW p \in Path, Through(m, p) # {}
  PROVE  /\ SubtreeHash(m)[p] \in TreeHashes(V)
         /\ Len(p) = MaxHeight => SubtreeHash(m)[p] \in V
         /\ Len(p) # MaxHeight /\ Branches(m, p) =>
              /\ SubtreeHash(m)[Append(p, 0)] \in TreeHashes(V)
              /\ SubtreeHash(m)[Append(p, 1)] \in TreeHashes(V)
              /\ SubtreeHash(m)[p] = hash_binary_node(SubtreeHash(m)[Append(p, 0)],
                                                      SubtreeHash(m)[Append(p, 1)])
         /\ Len(p) # MaxHeight /\ ~Branches(m, p) =>
              /\ SharedPath(m, p) \in Path /\ SubtreeHash(m)[p \o SharedPath(m, p)] \in TreeHashes(V)
              /\ SubtreeHash(m)[p] = hash_edge_node(SharedPath(m, p), SubtreeHash(m)[p \o SharedPath(m, p)])
  <1> DEFINE H == SubtreeHash(m)
  <1>1. m \in [Key -> Felt \cup {None}]
    BY DEF LeafMaps, SelfDelimiting
  <1>2. ASSUME NEW q \in Path, Through(m, q) # {} PROVE H[q] \in TreeHashes(V)
    <2>1. H[q] \in Felt
      BY <1>1, <1>2, SubtreeHashType
    <2> QED BY <1>2, <2>1 DEF TreeHashes
  <1>3. H[p] = HashAt(m, H, p)
    BY SubtreeHashIs
  <1>4. Len(p) \in Nat /\ Len(p) <= MaxHeight
    BY PathLen
  <1>5. CASE Len(p) = MaxHeight
    <2>1. p \in Key /\ H[p] = m[p]
      BY <1>3, <1>5, KeySeq, PathSeq DEF HashAt
    <2>2. m[p] # None
      BY <2>1, ThroughKey
    <2>3. m[p] \in V
      BY <2>1, <2>2 DEF LeafMaps
    <2> QED BY <1>2, <1>5, <2>1, <2>3
  <1>6. CASE Len(p) # MaxHeight /\ Branches(m, p)
    <2>1. Len(p) < MaxHeight /\ \A b \in Bit : Through(m, Append(p, b)) # {}
      BY <1>6, BranchesIs
    <2>2. \A b \in Bit : Append(p, b) \in Path
      BY <2>1, AppendPath
    <2>3. 0 \in Bit /\ 1 \in Bit
      BY DEF Bit
    <2>4. H[Append(p, 0)] \in TreeHashes(V) /\ H[Append(p, 1)] \in TreeHashes(V)
      BY <1>2, <2>1, <2>2, <2>3
    <2> QED BY <1>2, <1>3, <1>6, <2>4 DEF HashAt
  <1>7. CASE Len(p) # MaxHeight /\ ~Branches(m, p)
    <2>1. Len(p) < MaxHeight
      BY <1>4, <1>7
    <2>2. PICK l : l = SharedPath(m, p)
      OBVIOUS
    <2>3. l \in Path /\ p \o l \in Path /\ Through(m, p \o l) = Through(m, p)
      BY <1>7, <2>1, <2>2, SharedPathType
    <2>4. H[p \o l] \in TreeHashes(V)
      BY <1>2, <2>3
    <2> QED BY <1>2, <1>3, <1>7, <2>2, <2>3, <2>4 DEF HashAt
  <1> QED BY <1>5, <1>6, <1>7

LEMMA HashKinds ==
  ASSUME NEW V, SelfDelimiting(V), NEW h \in TreeHashes(V)
  PROVE  /\ h \in Felt
         /\ \/ h \in V
            \/ \E a, b \in TreeHashes(V) : h = hash_binary_node(a, b)
            \/ \E l \in Path, c \in TreeHashes(V) : h = hash_edge_node(l, c)
  <1>1. PICK m \in LeafMaps(V), p \in Path : Through(m, p) # {} /\ h = SubtreeHash(m)[p]
    BY DEF TreeHashes
  <1>2. h \in Felt
    BY DEF TreeHashes
  <1> QED BY <1>1, <1>2, HashForm

\* Whatever follows h, no other hash can be read in its place.
Reads(V, h) == \A b \in TreeHashes(V), s, t \in Felt : Cat(h, s) = Cat(b, t) => h = b

\* A sequence that begins with a hash tells what kind of hash it is.
LEMMA KindsDiffer ==
  ASSUME NEW V, SelfDelimiting(V), NEW s \in Felt, NEW t \in Felt
  PROVE  /\ \A v \in V, a, b \in TreeHashes(V) : Cat(v, s) # Cat(hash_binary_node(a, b), t)
         /\ \A v \in V, l \in Path, c \in TreeHashes(V) : Cat(v, s) # Cat(hash_edge_node(l, c), t)
         /\ \A a, b \in TreeHashes(V), l \in Path, c \in TreeHashes(V) :
               Cat(hash_binary_node(a, b), s) # Cat(hash_edge_node(l, c), t)
  <1>0. \A h \in TreeHashes(V) : h \in Felt
    BY HashKinds
  <1>1. ASSUME NEW v \in V
        PROVE  \E x \in Nat, u \in Felt : x \notin {2, 3} /\ Cat(v, s) = Tagged(x, u)
    BY ValueRest
  <1>2. ASSUME NEW a \in TreeHashes(V), NEW b \in TreeHashes(V), NEW r \in Felt
        PROVE  \E u \in Felt : Cat(hash_binary_node(a, b), r) = Tagged(2, u)
    <2>1. a \in Felt /\ b \in Felt
      BY <1>0
    <2>2. Cat(a, Cat(b, r)) \in Felt
      BY <2>1, PiecesType
    <2> QED BY <2>1, <2>2, BinaryRest
  <1>3. ASSUME NEW l \in Path, NEW c \in TreeHashes(V)
        PROVE  \E u \in Felt : Cat(hash_edge_node(l, c), t) = Tagged(3, u)
    <2>1. c \in Felt
      BY <1>0
    <2>2. PathThen(l, Cat(c, t)) \in Felt
      BY <2>1, PiecesType
    <2> QED BY <2>1, <2>2, EdgeRest
  <1>4. \A x, y \in Nat, u, w \in Felt : Tagged(x, u) = Tagged(y, w) => x = y
    BY PiecesCancel
  <1>5. ASSUME NEW v \in V, NEW a \in TreeHashes(V), NEW b \in TreeHashes(V)
        PROVE  Cat(v, s) # Cat(hash_binary_node(a, b), t)
    <2>1. PICK x \in Nat, u \in Felt : x \notin {2, 3} /\ Cat(v, s) = Tagged(x, u)
      BY <1>1
    <2>2. PICK w \in Felt : Cat(hash_binary_node(a, b), t) = Tagged(2, w)
      BY <1>2
    <2> QED BY <1>4, <2>1, <2>2
  <1>6. ASSUME NEW v \in V, NEW l \in Path, NEW c \in TreeHashes(V)
        PROVE  Cat(v, s) # Cat(hash_edge_node(l, c), t)
    <2>1. PICK x \in Nat, u \in Felt : x \notin {2, 3} /\ Cat(v, s) = Tagged(x, u)
      BY <1>1
    <2>2. PICK w \in Felt : Cat(hash_edge_node(l, c), t) = Tagged(3, w)
      BY <1>3
    <2> QED BY <1>4, <2>1, <2>2
  <1>7. ASSUME NEW a \in TreeHashes(V), NEW b \in TreeHashes(V), NEW l \in Path, NEW c \in TreeHashes(V)
        PROVE  Cat(hash_binary_node(a, b), s) # Cat(hash_edge_node(l, c), t)
    <2>1. PICK u \in Felt : Cat(hash_binary_node(a, b), s) = Tagged(2, u)
      BY <1>2
    <2>2. PICK w \in Felt : Cat(hash_edge_node(l, c), t) = Tagged(3, w)
      BY <1>3
    <2> QED BY <1>4, <2>1, <2>2
  <1> QED BY <1>5, <1>6, <1>7

LEMMA ValueReads ==
  ASSUME NEW V, SelfDelimiting(V), NEW v \in V
  PROVE  Reads(V, v)
  <1> SUFFICES ASSUME NEW b \in TreeHashes(V), NEW s \in Felt, NEW t \in Felt, Cat(v, s) = Cat(b, t)
               PROVE  v = b
    BY DEF Reads
  <1>1. CASE b \in V
    BY <1>1, ValuesDiffer DEF Cat
  <1> QED BY <1>1, HashKinds, KindsDiffer

LEMMA BinaryReads ==
  ASSUME NEW V, SelfDelimiting(V), NEW a1 \in TreeHashes(V), NEW a2 \in TreeHashes(V),
         Reads(V, a1), Reads(V, a2)
  PROVE  Reads(V, hash_binary_node(a1, a2))
  <1> SUFFICES ASSUME NEW b \in TreeHashes(V), NEW s \in Felt, NEW t \in Felt,
                      Cat(hash_binary_node(a1, a2), s) = Cat(b, t)
               PROVE  hash_binary_node(a1, a2) = b
    BY DEF Reads
  <1>1. b \notin V /\ \A l \in Path, c \in TreeHashes(V) : b # hash_edge_node(l, c)
    BY KindsDiffer
  <1>2. PICK c1 \in TreeHashes(V), c2 \in TreeHashes(V) : b = hash_binary_node(c1, c2)
    BY <1>1, HashKinds
  <1>3. a1 \in Felt /\ a2 \in Felt /\ c1 \in Felt /\ c2 \in Felt
    BY HashKinds
  <1>4. PICK x, y : x = Cat(a2, s) /\ y = Cat(c2, t) /\ x \in Felt /\ y \in Felt
    BY <1>3, PiecesType
  <1>5. Tagged(2, Cat(a1, x)) = Tagged(2, Cat(c1, y))
    BY <1>2, <1>3, <1>4, BinaryRest
  <1>6. Cat(a1, x) = Cat(c1, y)
    BY <1>3, <1>4, <1>5, PiecesType, PiecesCancel
  <1>7. a1 = c1
    BY <1>4, <1>6 DEF Reads
  <1>8. x = y
    BY <1>3, <1>4, <1>6, <1>7, PiecesCancel
  <1>9. a2 = c2
    BY <1>4, <1>8 DEF Reads
  <1> QED BY <1>2, <1>7, <1>9

LEMMA EdgeReads ==
  ASSUME NEW V, SelfDelimiting(V), NEW l \in Path, NEW c \in TreeHashes(V), Reads(V, c)
  PROVE  Reads(V, hash_edge_node(l, c))
  <1> SUFFICES ASSUME NEW b \in TreeHashes(V), NEW s \in Felt, NEW t \in Felt,
                      Cat(hash_edge_node(l, c), s) = Cat(b, t)
               PROVE  hash_edge_node(l, c) = b
    BY DEF Reads
  <1>1. b \notin V /\ \A a1, a2 \in TreeHashes(V) : b # hash_binary_node(a1, a2)
    BY KindsDiffer
  <1>2. PICK j \in Path, e \in TreeHashes(V) : b = hash_edge_node(j, e)
    BY <1>1, HashKinds
  <1>3. c \in Felt /\ e \in Felt
    BY HashKinds
  <1>4. PICK x, y : x = Cat(c, s) /\ y = Cat(e, t) /\ x \in Felt /\ y \in Felt
    BY <1>3, PiecesType
  <1>5. Tagged(3, PathThen(l, x)) = Tagged(3, PathThen(j, y))
    BY <1>2, <1>3, <1>4, EdgeRest
  <1>6. PathThen(l, x) = PathThen(j, y)
    BY <1>4, <1>5, PiecesType, PiecesCancel
  <1>7. l = j /\ x = y
    BY <1>4, <1>6, PiecesCancel
  <1>8. c = e
    BY <1>4, <1>7 DEF Reads
  <1> QED BY <1>2, <1>7, <1>8

\* Every hash can be read: a shortest one that cannot be is made of shorter ones.
LEMMA AllRead ==
  ASSUME NEW V, SelfDelimiting(V), NEW h \in TreeHashes(V)
  PROVE  Reads(V, h)
  <1> SUFFICES ASSUME ~Reads(V, h) PROVE FALSE
    OBVIOUS
  <1> DEFINE S == {Len(x) : x \in {y \in TreeHashes(V) : ~Reads(V, y)}}
  <1>1. \A x \in TreeHashes(V) : Len(x) \in Nat
    BY HashKinds DEF Felt
  <1>2. S \in SUBSET Nat /\ S # {}
    BY <1>1
  <1>3. PICK n \in S : \A k \in S : n <= k
    BY <1>2, NatMin
  <1>4. PICK x \in TreeHashes(V) : ~Reads(V, x) /\ Len(x) = n
    BY <1>3
  <1>5. ASSUME NEW y \in TreeHashes(V), Len(y) < Len(x) PROVE Reads(V, y)
    <2> SUFFICES ASSUME ~Reads(V, y) PROVE FALSE
      OBVIOUS
    <2>1. Len(y) \in S
      OBVIOUS
    <2>2. n <= Len(y)
      BY <1>3, <2>1
    <2> QED BY <1>1, <1>4, <1>5, <2>2
  <1>6. x \notin V
    BY <1>4, ValueReads
  <1>7. ASSUME NEW a \in TreeHashes(V), NEW b \in TreeHashes(V), x = hash_binary_node(a, b) PROVE FALSE
    <2>1. a \in Felt /\ b \in Felt /\ << >> \in Felt
      BY HashKinds DEF Felt
    <2>2. Len(x) = 1 + Len(a) + Len(b)
      BY <1>7, <2>1, BinaryRest
    <2>3. Reads(V, a) /\ Reads(V, b)
      BY <1>1, <1>5, <2>2
    <2> QED BY <1>4, <1>7, <2>3, BinaryReads
  <1>8. ASSUME NEW l \in Path, NEW c \in TreeHashes(V), x = hash_edge_node(l, c) PROVE FALSE
    <2>1. c \in Felt /\ << >> \in Felt
      BY HashKinds DEF Felt
    <2>2. Len(x) = 2 + Len(l) + Len(c) /\ Len(l) \in Nat
      BY <1>8, <2>1, EdgeRest, PathLen
    <2>3. Reads(V, c)
      BY <1>1, <1>5, <2>2
    <2> QED BY <1>4, <1>8, <2>3, EdgeReads
  <1> QED BY <1>6, <1>7, <1>8, HashKinds

\* The hash of a binary node gives its children, that of an edge its path and
\* its child, and none is the hash of both.
LEMMA HashesInjective ==
  ASSUME NEW V, SelfDelimiting(V)
  PROVE  /\ \A a, b, c, d \in TreeHashes(V) :
              hash_binary_node(a, b) = hash_binary_node(c, d) => a = c /\ b = d
         /\ \A l, j \in Path, a, b \in TreeHashes(V) :
              hash_edge_node(l, a) = hash_edge_node(j, b) => l = j /\ a = b
         /\ \A l \in Path, a, b, c \in TreeHashes(V) : hash_binary_node(a, b) # hash_edge_node(l, c)
  <1>0. /\ ZERO \in Felt /\ \A h \in TreeHashes(V) : h \in Felt /\ Reads(V, h)
    BY HashKinds, AllRead DEF Felt, ZERO
  <1>1. ASSUME NEW a \in TreeHashes(V), NEW b \in TreeHashes(V), NEW c \in TreeHashes(V), NEW d \in TreeHashes(V),
               hash_binary_node(a, b) = hash_binary_node(c, d)
        PROVE  a = c /\ b = d
    <2>1. PICK x, y : x = Cat(b, ZERO) /\ y = Cat(d, ZERO) /\ x \in Felt /\ y \in Felt
      BY <1>0, PiecesType
    <2>2. Tagged(2, Cat(a, x)) = Tagged(2, Cat(c, y))
      BY <1>0, <1>1, <2>1, BinaryRest
    <2>3. Cat(a, x) = Cat(c, y)
      BY <1>0, <2>1, <2>2, PiecesType, PiecesCancel
    <2>4. a = c
      BY <1>0, <2>1, <2>3 DEF Reads
    <2>5. x = y
      BY <1>0, <2>1, <2>3, <2>4, PiecesCancel
    <2>6. b = d
      BY <1>0, <2>1, <2>5 DEF Reads
    <2> QED BY <2>4, <2>6
  <1>2. ASSUME NEW l \in Path, NEW j \in Path, NEW a \in TreeHashes(V), NEW b \in TreeHashes(V),
               hash_edge_node(l, a) = hash_edge_node(j, b)
        PROVE  l = j /\ a = b
    <2>1. PICK x, y : x = Cat(a, ZERO) /\ y = Cat(b, ZERO) /\ x \in Felt /\ y \in Felt
      BY <1>0, PiecesType
    <2>2. Tagged(3, PathThen(l, x)) = Tagged(3, PathThen(j, y))
      BY <1>0, <1>2, <2>1, EdgeRest
    <2>3. PathThen(l, x) = PathThen(j, y)
      BY <2>1, <2>2, PiecesType, PiecesCancel
    <2>4. l = j /\ x = y
      BY <2>1, <2>3, PiecesCancel
    <2>5. a = b
      BY <1>0, <2>1, <2>4 DEF Reads
    <2> QED BY <2>4, <2>5
  <1>3. ASSUME NEW l \in Path, NEW a \in TreeHashes(V), NEW b \in TreeHashes(V), NEW c \in TreeHashes(V)
        PROVE  hash_binary_node(a, b) # hash_edge_node(l, c)
    BY <1>0, KindsDiffer
  <1> QED BY <1>1, <1>2, <1>3

(***************************************************************************)
(* MultiProof::verify_proof                                                *)
(***************************************************************************)
\* A node of a proof: its handles are hashes.
IsProofNode(n, H) ==
    \/ n.type = "Binary" /\ n.next \in [Directions -> H]
    \/ n.type = "Edge" /\ \E l \in Path : n.next \in [{l} -> H]

\* A node of a proof with the hash of a subtree is the node of that subtree.
LEMMA NodeOfHash ==
  ASSUME NEW V, SelfDelimiting(V), NEW m \in LeafMaps(V), NEW p \in Path, HasNode(m, p),
         NEW n, IsProofNode(n, TreeHashes(V)), NodeHash(n, n.next) = SubtreeHash(m)[p]
  PROVE  /\ IsBinary(n) <=> Branches(m, p)
         /\ DOMAIN n.next = Labels(m, p)
         /\ \A l \in Labels(m, p) : n.next[l] = SubtreeHash(m)[p \o l]
  <1> DEFINE H == TreeHashes(V)
  <1>1. Len(p) < MaxHeight /\ Len(p) # MaxHeight /\ Through(m, p) # {}
    BY PathLen DEF HasNode
  <1>0. /\ \A a, b, c, d \in H : hash_binary_node(a, b) = hash_binary_node(c, d) => a = c /\ b = d
        /\ \A i, j \in Path, a, b \in H : hash_edge_node(i, a) = hash_edge_node(j, b) => i = j /\ a = b
        /\ \A i \in Path, a, b, c \in H : hash_binary_node(a, b) # hash_edge_node(i, c)
    BY HashesInjective, Zenon
  <1> HIDE DEF H
  <1>2. PICK h0, h1, l : /\ h0 = SubtreeHash(m)[Append(p, 0)] /\ h1 = SubtreeHash(m)[Append(p, 1)]
                         /\ l = SharedPath(m, p)
    OBVIOUS
  <1>3. CASE n.type = "Binary" /\ n.next \in [Directions -> H]
    <2>1. PICK a, b : a = n.next[<<0>>] /\ b = n.next[<<1>>] /\ a \in H /\ b \in H
      BY <1>3 DEF Directions
    <2>2. SubtreeHash(m)[p] = hash_binary_node(a, b)
      BY <1>3, <2>1 DEF NodeHash, IsBinary
    <2>3. Branches(m, p)
      <3> SUFFICES ASSUME ~Branches(m, p) PROVE FALSE
        OBVIOUS
      <3>1. l \in Path /\ SubtreeHash(m)[p \o l] \in H
            /\ SubtreeHash(m)[p] = hash_edge_node(l, SubtreeHash(m)[p \o l])
        BY <1>1, <1>2, HashForm DEF H
      <3>2. hash_binary_node(a, b) = hash_edge_node(l, SubtreeHash(m)[p \o l])
        BY <2>2, <3>1
      <3> QED BY <1>0, <2>1, <3>1, <3>2
    <2>4. h0 \in H /\ h1 \in H /\ SubtreeHash(m)[p] = hash_binary_node(h0, h1)
      BY <1>1, <1>2, <2>3, HashForm DEF H
    <2>5. a = h0 /\ b = h1
      <3>1. hash_binary_node(a, b) = hash_binary_node(h0, h1)
        BY <2>2, <2>4
      <3> QED BY <1>0, <2>1, <2>4, <3>1
    <2>6. Labels(m, p) = Directions
      BY <2>3 DEF Labels
    <2>7. ASSUME NEW x \in Directions PROVE n.next[x] = SubtreeHash(m)[p \o x]
      <3>1. PICK bit \in Bit : x = <<bit>> /\ p \o x = Append(p, bit)
        BY <1>1, BranchLabel
      <3>2. CASE bit = 0
        BY <1>2, <2>1, <2>5, <3>1, <3>2
      <3>3. CASE bit = 1
        BY <1>2, <2>1, <2>5, <3>1, <3>3
      <3> QED BY <3>2, <3>3 DEF Bit
    <2> QED BY <1>3, <2>3, <2>6, <2>7 DEF IsBinary
  <1>4. CASE n.type = "Edge" /\ \E j \in Path : n.next \in [{j} -> H]
    <2>1. PICK j \in Path : n.next \in [{j} -> H]
      BY <1>4
    <2>2. EdgePath(n) = j /\ n.next[j] \in H /\ ~IsBinary(n)
      BY <1>4, <2>1 DEF EdgePath, IsBinary
    <2>3. SubtreeHash(m)[p] = hash_edge_node(j, n.next[j])
      BY <2>2 DEF NodeHash
    <2>4. ~Branches(m, p)
      <3> SUFFICES ASSUME Branches(m, p) PROVE FALSE
        OBVIOUS
      <3>1. h0 \in H /\ h1 \in H /\ SubtreeHash(m)[p] = hash_binary_node(h0, h1)
        BY <1>1, <1>2, HashForm DEF H
      <3>2. hash_binary_node(h0, h1) = hash_edge_node(j, n.next[j])
        BY <2>3, <3>1
      <3> QED BY <1>0, <2>2, <3>1, <3>2
    <2>5. l \in Path /\ SubtreeHash(m)[p \o l] \in H
          /\ SubtreeHash(m)[p] = hash_edge_node(l, SubtreeHash(m)[p \o l])
      BY <1>1, <1>2, <2>4, HashForm DEF H
    <2>6. j = l /\ n.next[j] = SubtreeHash(m)[p \o l]
      <3>1. hash_edge_node(j, n.next[j]) = hash_edge_node(l, SubtreeHash(m)[p \o l])
        BY <2>3, <2>5
      <3> QED BY <1>0, <2>2, <2>5, <3>1
    <2>7. Labels(m, p) = {l}
      BY <1>2, <2>4 DEF Labels
    <2> QED BY <2>1, <2>2, <2>4, <2>6, <2>7
  <1> QED BY <1>3, <1>4 DEF IsProofNode, H

\* What verify_proof returns for the key k of the tree with the leaves m.
ValueIn(m, k) == IF m[k] = None THEN ZERO ELSE m[k]

\* The walk is at a subtree of m.
AtSubtree(m, k, s) ==
    /\ Through(m, First(k, s.len)) # {}
    /\ s.len < MaxHeight => HasNode(m, First(k, s.len))
    /\ s.felt = SubtreeHash(m)[First(k, s.len)]

WalkState(S) == [len : 0..MaxHeight, felt : Felt, status : S]

\* The states of a walk that agree with m.
WalkStates(m, k, S) ==
    {s \in WalkState(S) : /\ s.status = "Walking" => AtSubtree(m, k, s)
                          /\ s.status = "Ok" => s.felt = ValueIn(m, k)}

\* Every node of m on the way to k is in the proof.
CoversWay(pf, m, k) ==
    \A p \in Path : IsPrefixOf(p, k) /\ HasNode(m, p) =>
        /\ SubtreeHash(m)[p] \in DOMAIN pf
        /\ NodeHash(pf[SubtreeHash(m)[p]], pf[SubtreeHash(m)[p]].next) = SubtreeHash(m)[p]

ProofNodes(pf, V) == \A h \in DOMAIN pf : IsProofNode(pf[h], TreeHashes(V))

Endings == {"MissingNode", "HashMismatch"}

LEMMA LabelOnKey ==
  ASSUME NEW p \in Path, NEW k \in Key, IsPrefixOf(p, k), NEW l \in Path, p \o l \in Path
  PROVE  /\ IsPrefixOf(l, From(k, Len(p))) <=> IsPrefixOf(p \o l, k)
         /\ Len(p \o l) = Len(p) + Len(l) /\ Len(From(k, Len(p))) = MaxHeight - Len(p)
  <1>1. k \in Path /\ k \in Seq(Bit) /\ Len(k) = MaxHeight /\ p \in Seq(Bit) /\ l \in Seq(Bit)
    BY KeyInPath, KeySeq, PathSeq
  <1>2. Len(p) \in Nat /\ Len(l) \in Nat /\ Len(p) <= MaxHeight /\ \A i \in 1..Len(p) : p[i] = k[i]
    BY <1>1, PathLen, PrefixIs
  <1>3. PICK r, q : r = From(k, Len(p)) /\ q = p \o l
    OBVIOUS
  <1>4. /\ q \in Seq(Bit) /\ Len(q) = Len(p) + Len(l) /\ \A i \in 1..Len(p) : q[i] = p[i]
        /\ \A i \in 1..Len(l) : q[Len(p) + i] = l[i]
    BY <1>1, <1>3, ConcatSeq
  <1>5. r \in Seq(Bit) /\ Len(r) = MaxHeight - Len(p) /\ \A i \in 1..Len(r) : r[i] = k[Len(p) + i]
    <2>1. Len(p) \in Nat /\ Len(k) \in Len(p)..Len(k)
      BY <1>1, <1>2
    <2>2. /\ SubSeq(k, Len(p) + 1, Len(k)) \in Seq(Bit) /\ Len(SubSeq(k, Len(p) + 1, Len(k))) = Len(k) - Len(p)
          /\ \A i \in 1..(Len(k) - Len(p)) : SubSeq(k, Len(p) + 1, Len(k))[i] = k[Len(p) + i]
      BY <1>1, <2>1, PieceIs
    <2> QED BY <1>1, <1>3, <2>2 DEF From
  <1>6. ASSUME IsPrefixOf(l, r) PROVE IsPrefixOf(q, k)
    <2>1. Len(l) <= Len(r) /\ \A i \in 1..Len(l) : l[i] = r[i]
      BY <1>1, <1>5, <1>6, PrefixIs
    <2>2. ASSUME NEW i \in 1..Len(q) PROVE q[i] = k[i]
      <3>1. CASE i <= Len(p)
        <4>1. i \in 1..Len(p)
          BY <1>2, <3>1
        <4> QED BY <1>2, <1>4, <4>1
      <3>2. CASE i > Len(p)
        <4>1. PICK j \in 1..Len(l) : i = Len(p) + j
          <5>1. i - Len(p) \in 1..Len(l) /\ i = Len(p) + (i - Len(p))
            BY <1>2, <1>4, <3>2
          <5> QED BY <5>1
        <4>2. j \in 1..Len(r)
          BY <1>2, <1>5, <2>1
        <4> QED BY <1>4, <1>5, <2>1, <4>1, <4>2
      <3> QED BY <1>2, <3>1, <3>2
    <2>3. Len(q) <= Len(k)
      BY <1>1, <1>2, <1>4, <1>5, <2>1
    <2> QED BY <1>1, <1>4, <2>2, <2>3, PrefixIs
  <1>7. ASSUME IsPrefixOf(q, k) PROVE IsPrefixOf(l, r)
    <2>1. Len(q) <= Len(k) /\ \A i \in 1..Len(q) : q[i] = k[i]
      BY <1>1, <1>4, <1>7, PrefixIs
    <2>2. ASSUME NEW i \in 1..Len(l) PROVE l[i] = r[i]
      <3>1. Len(p) + i \in 1..Len(q) /\ i \in 1..Len(r)
        BY <1>1, <1>2, <1>4, <1>5, <2>1
      <3> QED BY <1>4, <1>5, <2>1, <3>1
    <2>3. Len(l) <= Len(r)
      BY <1>1, <1>2, <1>4, <1>5, <2>1
    <2> QED BY <1>1, <1>5, <2>2, <2>3, PrefixIs
  <1> QED BY <1>3, <1>4, <1>5, <1>6, <1>7

VerifyLabel(n, k, len) == IF IsBinary(n) THEN <<k[len + 1]>> ELSE EdgePath(n)

\* The arc that verify_proof follows is the one of m, and a key that is not
\* behind it is not in m.
LEMMA VerifyArc ==
  ASSUME NEW V, SelfDelimiting(V), NEW m \in LeafMaps(V), NEW k \in Key, NEW p \in Path,
         IsPrefixOf(p, k), HasNode(m, p), NEW n, IsProofNode(n, TreeHashes(V)),
         NodeHash(n, n.next) = SubtreeHash(m)[p], NEW l, l = VerifyLabel(n, k, Len(p))
  PROVE  /\ ArcOf(m, p, l) /\ n.next[l] = SubtreeHash(m)[p \o l]
         /\ IsPrefixOf(l, From(k, Len(p))) <=> IsPrefixOf(p \o l, k)
         /\ Len(p \o l) = Len(p) + Len(l)
         /\ ~IsPrefixOf(l, From(k, Len(p))) => m[k] = None
  <1>1. /\ IsBinary(n) <=> Branches(m, p)
        /\ DOMAIN n.next = Labels(m, p)
        /\ \A j \in Labels(m, p) : n.next[j] = SubtreeHash(m)[p \o j]
    BY NodeOfHash
  <1>2. k \in Path /\ Len(k) = MaxHeight /\ Len(p) < MaxHeight /\ Len(p) < Len(k) /\ p # k
    BY KeyInPath, KeySeq DEF HasNode
  <1>3. CASE IsBinary(n)
    <2>1. l = <<k[Len(p) + 1]>> /\ k[Len(p) + 1] \in Bit /\ IsPrefixOf(Append(p, k[Len(p) + 1]), k)
      BY <1>2, <1>3, NextBit DEF VerifyLabel
    <2>2. l \in Directions /\ p \o l = Append(p, k[Len(p) + 1])
      <3>1. p \in Seq(Bit)
        BY PathSeq
      <3> QED BY <2>1, <3>1, DirectionIs
    <2>3. l \in Labels(m, p) /\ IsPrefixOf(p \o l, k)
      BY <1>1, <1>3, <2>1, <2>2 DEF Labels
    <2>4. ArcOf(m, p, l)
      BY <2>3, Arc
    <2> QED BY <1>1, <2>3, <2>4, LabelOnKey DEF ArcOf
  <1>4. CASE ~IsBinary(n)
    <2>1. Labels(m, p) = {SharedPath(m, p)}
      BY <1>1, <1>4 DEF Labels
    <2>2. l = SharedPath(m, p) /\ l \in Labels(m, p) /\ Labels(m, p) = {l}
      BY <1>1, <1>4, <2>1 DEF VerifyLabel, EdgePath
    <2>3. ArcOf(m, p, l)
      BY <2>2, Arc
    <2>4. IsPrefixOf(l, From(k, Len(p))) <=> IsPrefixOf(p \o l, k)
      BY <2>3, LabelOnKey DEF ArcOf
    <2>5. ASSUME ~IsPrefixOf(l, From(k, Len(p))), m[k] # None PROVE FALSE
      <3>1. Through(m, k) # {}
        BY <2>5, ThroughKey
      <3>2. PICK x \in Labels(m, p) : IsPrefixOf(p \o x, k)
        BY <1>2, <3>1, ArcToward
      <3> QED BY <2>2, <2>4, <2>5, <3>2
    <2> QED BY <1>1, <2>2, <2>3, <2>4, <2>5 DEF ArcOf
  <1> QED BY <1>3, <1>4

\* The walk goes on agreeing with m, one node further down each time.
LEMMA VerifyStepKeeps ==
  ASSUME NEW V, SelfDelimiting(V), NEW m \in LeafMaps(V), NEW k \in Key, NEW pf, ProofNodes(pf, V),
         NEW S, {"Walking", "Ok"} \subseteq S, Endings \subseteq S \/ CoversWay(pf, m, k),
         NEW s \in WalkStates(m, k, S)
  PROVE  /\ VerifyStep(pf, k, s) \in WalkStates(m, k, S)
         /\ VerifyStep(pf, k, s).status = "Walking" =>
               s.status = "Walking" /\ VerifyStep(pf, k, s).len > s.len
  <1>1. /\ s \in WalkState(S) /\ s.len \in 0..MaxHeight /\ s.felt \in Felt /\ s.status \in S
        /\ s.status = "Walking" => AtSubtree(m, k, s)
        /\ s.status = "Ok" => s.felt = ValueIn(m, k)
    BY DEF WalkStates, WalkState
  <1>2. k \in Path /\ k \in Seq(Bit) /\ Len(k) = MaxHeight
    BY KeyInPath, KeySeq
  <1>3. ASSUME NEW v \in S, v # "Walking", v # "Ok"
        PROVE  Verdict(s, v) \in WalkStates(m, k, S) /\ Verdict(s, v).status # "Walking"
    <2>1. Verdict(s, v) \in WalkState(S) /\ Verdict(s, v).status = v
      BY <1>1, <1>3 DEF Verdict, WalkState
    <2> QED BY <1>3, <2>1 DEF WalkStates
  <1>4. CASE s.status # "Walking"
    <2>1. VerifyStep(pf, k, s) = s
      BY <1>4 DEF VerifyStep
    <2> QED BY <1>4, <2>1
  <1>5. CASE s.status = "Walking" /\ s.len = MaxHeight
    <2>1. VerifyStep(pf, k, s) = Verdict(s, "Ok")
      BY <1>2, <1>5 DEF VerifyStep
    <2>2. First(k, MaxHeight) = k
      BY <1>2 DEF First
    <2>3. Through(m, k) # {} /\ s.felt = SubtreeHash(m)[k]
      BY <1>1, <1>5, <2>2 DEF AtSubtree
    <2>4. m[k] # None /\ SubtreeHash(m)[k] = m[k]
      BY <1>2, <2>3, ThroughKey, SubtreeHashIs DEF HashAt
    <2>5. Verdict(s, "Ok") \in WalkState(S) /\ Verdict(s, "Ok").status = "Ok" /\ Verdict(s, "Ok").felt = s.felt
      BY <1>1 DEF Verdict, WalkState
    <2>6. Verdict(s, "Ok") \in WalkStates(m, k, S)
      BY <2>3, <2>4, <2>5 DEF WalkStates, ValueIn
    <2> QED BY <2>1, <2>5, <2>6
  <1>6. CASE s.status = "Walking" /\ s.len < MaxHeight
    <2>1. PICK p, n : p = First(k, s.len) /\ n = pf[s.felt]
      OBVIOUS
    <2>2. p \in Path /\ Len(p) = s.len /\ IsPrefixOf(p, k)
      <3>1. s.len \in 0..Len(k)
        BY <1>1, <1>2
      <3>2. p \in Seq(Bit) /\ Len(p) = s.len /\ \A i \in 1..Len(p) : p[i] = k[i]
        BY <1>2, <2>1, <3>1, FirstSeq
      <3> QED BY <1>2, <1>6, <3>1, <3>2, PathSeq, PrefixIs
    <2>3. HasNode(m, p) /\ s.felt = SubtreeHash(m)[p]
      BY <1>1, <1>6, <2>1 DEF AtSubtree
    <2>4. CASE s.felt \notin DOMAIN pf
      <3>1. VerifyStep(pf, k, s) = Verdict(s, "MissingNode")
        BY <1>1, <1>2, <1>6, <2>4 DEF VerifyStep
      <3>2. "MissingNode" \in S
        BY <2>2, <2>3, <2>4 DEF Endings, CoversWay
      <3> QED BY <1>3, <3>1, <3>2
    <2>5. CASE s.felt \in DOMAIN pf /\ NodeHash(n, n.next) # s.felt
      <3>1. VerifyStep(pf, k, s) = Verdict(s, "HashMismatch")
        BY <1>1, <1>2, <1>6, <2>1, <2>5 DEF VerifyStep
      <3>2. "HashMismatch" \in S
        BY <2>1, <2>2, <2>3, <2>5 DEF Endings, CoversWay
      <3> QED BY <1>3, <3>1, <3>2
    <2>6. CASE s.felt \in DOMAIN pf /\ NodeHash(n, n.next) = s.felt
      <3>1. IsProofNode(n, TreeHashes(V))
        BY <2>1, <2>6 DEF ProofNodes
      <3>2. PICK l : l = VerifyLabel(n, k, s.len)
        OBVIOUS
      <3>3. /\ ArcOf(m, p, l) /\ n.next[l] = SubtreeHash(m)[p \o l]
            /\ IsPrefixOf(l, From(k, s.len)) <=> IsPrefixOf(p \o l, k)
            /\ Len(p \o l) = s.len + Len(l)
            /\ ~IsPrefixOf(l, From(k, s.len)) => m[k] = None
        BY <2>2, <2>3, <2>6, <3>1, <3>2, VerifyArc
      <3>4. CASE ~IsPrefixOf(l, From(k, s.len))
        <4>1. PICK e : e = [s EXCEPT !.status = "Ok", !.felt = ZERO]
          OBVIOUS
        <4>2. VerifyStep(pf, k, s) = e
          BY <1>1, <1>2, <1>6, <2>1, <2>6, <3>2, <3>4, <4>1 DEF VerifyStep, VerifyLabel
        <4>3. ZERO \in Felt
          BY DEF ZERO, Felt
        <4>4. e \in WalkState(S) /\ e.status = "Ok" /\ e.felt = ZERO
          BY <1>1, <4>1, <4>3 DEF WalkState
        <4>5. e \in WalkStates(m, k, S)
          BY <3>3, <3>4, <4>4 DEF WalkStates, ValueIn
        <4> QED BY <4>2, <4>4, <4>5
      <3>5. CASE IsPrefixOf(l, From(k, s.len))
        <4>1. PICK e : e = [s EXCEPT !.len = s.len + Len(l), !.felt = n.next[l]]
          OBVIOUS
        <4>2. VerifyStep(pf, k, s) = e
          BY <1>1, <1>2, <1>6, <2>1, <2>6, <3>2, <3>5, <4>1 DEF VerifyStep, VerifyLabel
        <4>3. p \o l \in Path /\ IsPrefixOf(p \o l, k) /\ Through(m, p \o l) # {} /\ Len(p \o l) > s.len
              /\ (Len(p \o l) < MaxHeight => HasNode(m, p \o l)) /\ Len(p \o l) \in 0..MaxHeight
          <5>1. /\ p \o l \in Path /\ Through(m, p \o l) # {} /\ Len(p \o l) > Len(p)
                /\ (Len(p \o l) < MaxHeight => HasNode(m, p \o l))
            BY <3>3 DEF ArcOf
          <5>2. Len(p \o l) \in 0..MaxHeight
            <6>1. PICK q : q = p \o l
              OBVIOUS
            <6>2. Len(q) \in Nat /\ Len(q) <= MaxHeight
              BY <5>1, <6>1, PathLen
            <6> QED BY <6>1, <6>2
          <5> QED BY <2>2, <3>3, <3>5, <5>1, <5>2
        <4>4. m \in [Key -> Felt \cup {None}]
          BY DEF LeafMaps, SelfDelimiting
        <4>5. n.next[l] \in Felt
          BY <3>3, <4>3, <4>4, SubtreeHashType
        <4>6. /\ e \in WalkState(S) /\ e.len = Len(p \o l) /\ e.felt = SubtreeHash(m)[p \o l]
              /\ e.status = "Walking"
          BY <1>1, <1>6, <3>3, <4>1, <4>3, <4>5 DEF WalkState
        <4>7. First(k, Len(p \o l)) = p \o l
          BY <4>3 DEF IsPrefixOf
        <4>8. AtSubtree(m, k, e)
          BY <4>3, <4>6, <4>7 DEF AtSubtree
        <4>9. e \in WalkStates(m, k, S)
          BY <4>6, <4>8 DEF WalkStates
        <4> QED BY <1>6, <4>2, <4>3, <4>6, <4>9
      <3> QED BY <3>4, <3>5
    <2> QED BY <2>4, <2>5, <2>6
  <1> QED BY <1>1, <1>4, <1>5, <1>6

\* The states of a walk, as the recursive function of VerifyProof.
WalkFrom(f, pf, k, a) ==
    f = [n \in 0..(MaxHeight + 1) |-> IF n = 0 THEN a ELSE VerifyStep(pf, k, f[n - 1])]

LEMMA WalkExists ==
  ASSUME NEW W, NEW a \in W, NEW pf, NEW k, \A s \in W : VerifyStep(pf, k, s) \in W
  PROVE  \E f : WalkFrom(f, pf, k, a)
  <1>1. PICK N \in Nat : N = MaxHeight + 1
    OBVIOUS
  <1>2. PICK g : g = [x \in (1..N) \X W |-> VerifyStep(pf, k, x[2])]
    OBVIOUS
  <1>3. g \in Steps(N, W)
    BY <1>2 DEF Steps
  <1>4. PICK f : Solution(f, N, W, a, g)
    BY <1>3, RecursionUpTo
  <1>5. f \in [0..N -> W] /\ f[0] = a /\ \A n \in 1..N : f[n] = g[<<n, f[n - 1]>>]
    BY <1>4 DEF Solution
  <1>6. ASSUME NEW n \in 1..N PROVE f[n] = VerifyStep(pf, k, f[n - 1])
    <2>1. PICK w : w = f[n - 1]
      OBVIOUS
    <2>2. n - 1 \in 0..N
      OBVIOUS
    <2>3. w \in W
      BY <1>5, <2>1, <2>2
    <2>4. g[<<n, w>>] = VerifyStep(pf, k, w)
      BY <1>2, <2>3
    <2> QED BY <1>5, <2>1, <2>4
  <1>7. ASSUME NEW n \in 0..N PROVE f[n] = IF n = 0 THEN a ELSE VerifyStep(pf, k, f[n - 1])
    <2>1. n = 0 \/ n \in 1..N
      OBVIOUS
    <2> QED BY <1>5, <1>6, <2>1
  <1>8. f = [n \in 0..N |-> IF n = 0 THEN a ELSE VerifyStep(pf, k, f[n - 1])]
    BY <1>5, <1>7
  <1> QED BY <1>1, <1>8 DEF WalkFrom

LEMMA WalkIs ==
  ASSUME NEW f, NEW pf, NEW k, NEW a, WalkFrom(f, pf, k, a)
  PROVE  f[0] = a /\ \A n \in 1..(MaxHeight + 1) : f[n] = VerifyStep(pf, k, f[n - 1])
  <1>1. PICK N \in Nat : N = MaxHeight + 1
    OBVIOUS
  <1>2. f = [n \in 0..N |-> IF n = 0 THEN a ELSE VerifyStep(pf, k, f[n - 1])]
    BY <1>1 DEF WalkFrom
  <1>3. 0 \in 0..N /\ \A n \in 1..N : n \in 0..N /\ n # 0
    OBVIOUS
  <1>4. ASSUME NEW n \in 0..N PROVE f[n] = IF n = 0 THEN a ELSE VerifyStep(pf, k, f[n - 1])
    BY <1>2
  <1> QED BY <1>1, <1>3, <1>4

StartOf(m) == [len |-> 0, felt |-> SubtreeHash(m)[<< >>], status |-> "Walking"]

LEMMA StartAgrees ==
  ASSUME NEW V, SelfDelimiting(V), NEW m \in LeafMaps(V), NEW k \in Key, NEW S, "Walking" \in S,
         HasNode(m, << >>)
  PROVE  StartOf(m) \in WalkStates(m, k, S) /\ StartOf(m).len = 0
  <1>1. k \in Seq(Bit) /\ << >> \in Path
    BY KeySeq, RootInPath
  <1>2. m \in [Key -> Felt \cup {None}] /\ Through(m, << >>) # {}
    BY DEF LeafMaps, SelfDelimiting, HasNode
  <1>3. SubtreeHash(m)[<< >>] \in Felt
    BY <1>1, <1>2, SubtreeHashType
  <1>4. PICK a : a = StartOf(m)
    OBVIOUS
  <1>5. a \in WalkState(S) /\ a.status = "Walking" /\ a.len = 0 /\ a.felt = SubtreeHash(m)[<< >>]
    BY <1>3, <1>4 DEF WalkState, StartOf
  <1>6. First(k, a.len) = << >>
    BY <1>1, <1>5 DEF First
  <1>7. AtSubtree(m, k, a)
    BY <1>2, <1>5, <1>6 DEF AtSubtree
  <1>8. a \in WalkStates(m, k, S)
    BY <1>5, <1>7 DEF WalkStates
  <1> QED BY <1>4, <1>5, <1>8

ResultOf(s) == [status |-> s.status, value |-> s.felt]

\* The result of verify_proof is the end of a walk that starts at the root.
LEMMA VerifyResult ==
  ASSUME NEW pf, NEW m, NEW k \in Key, \E f : WalkFrom(f, pf, k, StartOf(m))
  PROVE  \E f : /\ WalkFrom(f, pf, k, StartOf(m))
                /\ VerifyProof(pf, SubtreeHash(m)[<< >>], k) = ResultOf(f[MaxHeight + 1])
  <1> DEFINE F == CHOOSE f : WalkFrom(f, pf, k, StartOf(m))
  <1>1. WalkFrom(F, pf, k, StartOf(m))
    OBVIOUS
  <1>2. Len(k) = MaxHeight
    BY KeySeq
  <1>3. VerifyProof(pf, SubtreeHash(m)[<< >>], k) = ResultOf(F[MaxHeight + 1])
    BY <1>2 DEF VerifyProof, WalkFrom, StartOf, ResultOf
  <1> HIDE DEF F
  <1> QED BY <1>1, <1>3

\* Hence verify_proof gives no wrong value, and ends well where the proof
\* covers the way to the key.
LEMMA VerifyWalk ==
  ASSUME NEW V, SelfDelimiting(V), NEW m \in LeafMaps(V), NEW k \in Key, NEW pf, ProofNodes(pf, V),
         NEW S, {"Walking", "Ok"} \subseteq S, Endings \subseteq S \/ CoversWay(pf, m, k),
         HasNode(m, << >>)
  PROVE  \E r : /\ VerifyProof(pf, SubtreeHash(m)[<< >>], k) = ResultOf(r)
                /\ r.status \in S \ {"Walking"}
                /\ r.status = "Ok" => r.felt = ValueIn(m, k)
  <1>1. PICK W, a : W = WalkStates(m, k, S) /\ a = StartOf(m)
    OBVIOUS
  <1>2. a \in W /\ a.len = 0
    BY <1>1, StartAgrees
  <1>3. ASSUME NEW s \in W
        PROVE  /\ VerifyStep(pf, k, s) \in W
               /\ VerifyStep(pf, k, s).status = "Walking" =>
                     s.status = "Walking" /\ VerifyStep(pf, k, s).len > s.len
    BY <1>1, VerifyStepKeeps
  <1>4. ASSUME NEW s \in W
        PROVE  /\ s.len \in 0..MaxHeight /\ s.status \in S
               /\ s.status = "Ok" => s.felt = ValueIn(m, k)
    BY <1>1 DEF WalkStates, WalkState
  <1>5. \E f : WalkFrom(f, pf, k, a)
    BY <1>2, <1>3, WalkExists
  <1>6. PICK N \in Nat : N = MaxHeight + 1
    OBVIOUS
  <1>7. PICK f : /\ WalkFrom(f, pf, k, a)
                 /\ VerifyProof(pf, SubtreeHash(m)[<< >>], k) = ResultOf(f[N])
    BY <1>1, <1>5, <1>6, VerifyResult
  <1>8. f[0] = a /\ \A n \in 1..N : f[n] = VerifyStep(pf, k, f[n - 1])
    <2>1. WalkFrom(f, pf, k, a)
      BY <1>7
    <2>2. f[0] = a /\ \A n \in 1..(MaxHeight + 1) : f[n] = VerifyStep(pf, k, f[n - 1])
      BY ONLY <2>1, WalkIs
    <2> QED BY <1>6, <2>2, Zenon
  <1> DEFINE T == {n \in 0..N : f[n] \in W /\ (f[n].status = "Walking" => f[n].len >= n)}
  <1>9. 0 \in T
    <2>1. f[0] \in W /\ f[0].len = 0
      BY <1>2, <1>8, Zenon
    <2>2. 0 \in 0..N /\ f[0].len >= 0
      BY <2>1
    <2> QED BY <2>1, <2>2, Zenon
  <1>10. ASSUME NEW n \in 0..(N - 1), n \in T PROVE n + 1 \in T
    <2>1. n + 1 \in 1..N /\ (n + 1) - 1 = n /\ n \in Nat
      OBVIOUS
    <2>2. PICK s, t : s = f[n] /\ t = f[n + 1]
      OBVIOUS
    <2>3. t = VerifyStep(pf, k, s)
      BY <1>8, <2>1, <2>2
    <2>4. s \in W /\ t \in W /\ (t.status = "Walking" => s.status = "Walking" /\ t.len > s.len)
      BY <1>3, <1>10, <2>2, <2>3
    <2>5. s.len \in 0..MaxHeight /\ t.len \in 0..MaxHeight
      BY <1>4, <2>4
    <2>6. s.status = "Walking" => s.len >= n
      BY <1>10, <2>2
    <2>7. t.status = "Walking" => t.len >= n + 1
      BY <2>1, <2>4, <2>5, <2>6
    <2> QED BY <2>1, <2>2, <2>4, <2>7
  <1>11. N \in T
    <2>1. 0..N \subseteq T
      <3> HIDE DEF T
      <3> QED BY <1>9, <1>10, UpTo
    <2> QED BY <2>1
  <1>12. PICK r : r = f[N]
    OBVIOUS
  <1>13. r \in W /\ (r.status = "Walking" => r.len >= N)
    BY <1>11, <1>12
  <1>14. r.len \in 0..MaxHeight /\ r.status \in S /\ (r.status = "Ok" => r.felt = ValueIn(m, k))
    BY <1>4, <1>13
  <1>15. r.status # "Walking"
    BY <1>6, <1>13, <1>14
  <1> QED BY <1>7, <1>12, <1>14, <1>15

(***************************************************************************)
(* What a proof of a tree without pending changes holds.  As long as       *)
(* nothing is pending, memory mirrors the database: only reads load nodes, *)
(* and the hashes a visit finds in them are those of the last commit.      *)
(***************************************************************************)
\* n is the node t of the database, some of its children loaded.
Mirror(n, t) ==
    /\ t # NoNode /\ n.type = t.type /\ n.hash = t.hash /\ DOMAIN n.next = DOMAIN t.next
    /\ \A l \in DOMAIN n.next : n.next[l] \in {InMemory, t.next[l]}

Mirrors == \A p \in Path : nodes[p] # NoNode => Mirror(nodes[p], trie_db[p])

\* With nothing pending, memory holds nodes of the database with their hashes.
CleanInv == NoPendingChanges /\ pc \notin {"CommitSubtree", "Write"} => Mirrors

\* A removal is in the cache before the tree is touched.
MarkInv == Removing => cache_leaf_modified[args.key] = Remove

\* b is a, some of its children loaded.
Loads(a, b) ==
    /\ b.type = a.type /\ b.hash = a.hash /\ DOMAIN b.next = DOMAIN a.next
    /\ \A l \in DOMAIN b.next : b.next[l] \in {InMemory, a.next[l]}

LEMMA LoadMirrors ==
  ASSUME Mirrors, trie_db' = trie_db,
         \A p \in Path : nodes'[p] # NoNode => \/ nodes'[p] = nodes[p] \/ nodes'[p] = trie_db[p]
                                               \/ nodes[p] # NoNode /\ Loads(nodes[p], nodes'[p])
  PROVE  Mirrors'
  <1> SUFFICES ASSUME NEW p \in Path, nodes'[p] # NoNode PROVE Mirror(nodes'[p], trie_db[p])
    BY DEF Mirrors
  <1>1. CASE nodes'[p] = nodes[p]
    BY <1>1 DEF Mirrors
  <1>2. CASE nodes'[p] = trie_db[p]
    BY <1>2 DEF Mirror
  <1>3. CASE nodes[p] # NoNode /\ Loads(nodes[p], nodes'[p])
    <2>1. Mirror(nodes[p], trie_db[p])
      BY <1>3 DEF Mirrors
    <2> QED BY <1>3, <2>1 DEF Mirror, Loads
  <1> QED BY <1>1, <1>2, <1>3

LEMMA RootMirrors ==
  ASSUME CoreInv, RootKnown, LoadsRoot, updates = NoUpdates, UNCHANGED <<trie_db, death_row, updates>>,
         Mirrors
  PROVE  Mirrors'
  <1>1. /\ \A p \in Path : p # << >> => nodes'[p] = nodes[p]
        /\ nodes'[<< >>] = nodes[<< >>] \/ nodes'[<< >>] = DbNode(<< >>)
    BY LoadedRoot
  <1>2. DbNode(<< >>) \in {NoNode, trie_db[<< >>]}
    BY DEF DbNode
  <1>3. \A p \in Path : nodes'[p] # NoNode => nodes'[p] = nodes[p] \/ nodes'[p] = trie_db[p]
    BY <1>1, <1>2
  <1> QED BY <1>3, LoadMirrors

LEMMA ChildMirrors ==
  ASSUME NEW p, NEW l, LoadsAt(p, l), UNCHANGED <<trie_db, death_row, updates>>,
         nodes' = LoadChild(p, l), Mirrors
  PROVE  Mirrors'
  <1>0. /\ CoreInv /\ updates = NoUpdates /\ p \in Path /\ nodes[p] # NoNode
        /\ l \in DOMAIN nodes[p].next /\ Len(p \o l) < MaxHeight
    BY DEF LoadsAt
  <1>1. PICK c : c = p \o l
    OBVIOUS
  <1>2. /\ c \in Path /\ nodes'[c] = View[c] /\ nodes'[p] = WithChild(nodes[p], l, InMemory)
        /\ \A q \in Path : q \notin {p, c} => nodes'[q] = nodes[q]
    BY <1>0, <1>1, LoadsChild
  <1>3. Loads(nodes[p], WithChild(nodes[p], l, InMemory))
    BY <1>0 DEF Loads, WithChild
  <1>4. View[c] \in {NoNode, nodes[c], trie_db[c]}
    BY <1>0, <1>2, ViewInCall DEF DbNode
  <1>5. \A q \in Path : nodes'[q] # NoNode => \/ nodes'[q] = nodes[q] \/ nodes'[q] = trie_db[q]
                                              \/ nodes[q] # NoNode /\ Loads(nodes[q], nodes'[q])
    BY <1>0, <1>2, <1>3, <1>4
  <1> QED BY <1>5, LoadMirrors

LEMMA CleanSame ==
  ASSUME CleanInv, UNCHANGED <<nodes, trie_db, cache_leaf_modified>>, pc \notin {"CommitSubtree", "Write"}
  PROVE  CleanInv'
  <1> SUFFICES ASSUME NoPendingChanges PROVE Mirrors'
    BY DEF CleanInv, NoPendingChanges
  <1>1. Mirrors
    BY DEF CleanInv
  <1> QED BY <1>1, LoadMirrors

LEMMA NotClean ==
  ASSUME NEW k \in Key, cache_leaf_modified'[k] # None
  PROVE  CleanInv'
  <1>1. NoLeaves[k] = None
    BY DEF NoLeaves
  <1> QED BY <1>1 DEF CleanInv, NoPendingChanges

\* The calls that change the tree keep the mirror, or have something pending.
LEMMA StartClean ==
  ASSUME TypeOK, CleanInv, NEW key \in Keys, NEW value \in Values,
         SetCached(key, value) \/ SetSame(key, value) \/ SetSeek(key, value)
  PROVE  CleanInv' /\ MarkInv'
  <1>1. /\ key \in Key /\ value \in Felt /\ value # ZERO /\ None \notin Felt
        /\ DOMAIN cache_leaf_modified = Key
    BY KeysAssumption, ValuesAssumption DEF TypeOK
  <1>2. pc = "Idle"
    BY DEF SetCached, SetSame, SetSeek, StartSet
  <1>3. CASE SetCached(key, value)
    <2>1. cache_leaf_modified'[key] = value /\ pc' = pc
      BY <1>1, <1>3 DEF SetCached
    <2>2. CleanInv'
      BY <1>1, <2>1, NotClean
    <2> QED BY <1>2, <2>1, <2>2 DEF MarkInv, Removing
  <1>4. CASE SetSame(key, value)
    <2>1. UNCHANGED <<nodes, trie_db, cache_leaf_modified, pc>>
      BY <1>4 DEF SetSame, db, tree
    <2>2. CleanInv'
      BY <1>2, <2>1, CleanSame
    <2> QED BY <1>2, <2>1, <2>2 DEF MarkInv, Removing
  <1>5. CASE SetSeek(key, value)
    <2>1. UNCHANGED <<nodes, trie_db, cache_leaf_modified>> /\ args'.value = value
      BY <1>5 DEF SetSeek, Seek, db
    <2>2. CleanInv'
      BY <1>2, <2>1, CleanSame
    <2> QED BY <1>1, <2>1, <2>2 DEF MarkInv, Removing
  <1> QED BY <1>3, <1>4, <1>5

LEMMA DeleteClean ==
  ASSUME TypeOK, CleanInv, NEW key \in Keys, DeleteAbsent(key) \/ DeleteSeek(key)
  PROVE  CleanInv' /\ MarkInv'
  <1>1. key \in Key /\ Remove # None /\ DOMAIN cache_leaf_modified = Key
    BY KeysAssumption, RemoveAssumption DEF TypeOK
  <1>2. pc = "Idle"
    BY DEF DeleteAbsent, DeleteSeek, StartDelete
  <1>3. CASE DeleteAbsent(key)
    <2>1. UNCHANGED <<nodes, trie_db, cache_leaf_modified, pc>>
      BY <1>3 DEF DeleteAbsent, db, tree
    <2>2. CleanInv'
      BY <1>2, <2>1, CleanSame
    <2> QED BY <1>2, <2>1, <2>2 DEF MarkInv, Removing
  <1>4. CASE DeleteSeek(key)
    <2>1. cache_leaf_modified'[key] = Remove /\ args'.key = key
      BY <1>1, <1>4 DEF DeleteSeek, Seek
    <2>2. CleanInv'
      BY <1>1, <2>1, NotClean
    <2> QED BY <2>1, <2>2 DEF MarkInv
  <1> QED BY <1>3, <1>4

LEMMA TraverseClean ==
  ASSUME ShapeInv, CleanInv, MarkInv, LoadRootNode \/ TraverseOne, ~failed'
  PROVE  CleanInv' /\ MarkInv'
  <1>1. pc \in {"LoadRoot", "Traverse"} /\ updates = NoUpdates
    BY DEF LoadRootNode, TraverseOne, ShapeInv, PhaseInv
  <1>2. CASE LoadRootNode
    <2>1. LoadsRoot /\ UNCHANGED <<trie_db, death_row, updates, cache_leaf_modified, args>>
      BY <1>2 DEF LoadRootNode, LoadsRoot, db, commit, iter
    <2>2. CoreInv /\ RootKnown
      BY <1>1, ShapeCore DEF ShapeInv, TInv, TypeOK, RootInv, RootKnown
    <2>3. ASSUME NoPendingChanges' PROVE Mirrors'
      <3>1. Mirrors
        BY <1>1, <2>1, <2>3 DEF CleanInv, NoPendingChanges
      <3> QED BY <1>1, <2>1, <2>2, <3>1, RootMirrors
    <2>4. MarkInv'
      BY <1>1, <2>1 DEF MarkInv, Removing
    <2> QED BY <2>3, <2>4 DEF CleanInv
  <1>3. CASE TraverseOne
    <2>1. PICK p, n, l : p = current_path /\ n = nodes[current_path] /\ l = NextLabel(n)
      OBVIOUS
    <2>2. Advance(n)
      BY <1>3, <2>1 DEF TraverseOne, Fail, FailFrame
    <2>3. UNCHANGED <<trie_db, death_row, updates, cache_leaf_modified, args>> /\ pc = "Traverse"
      BY <1>3, <2>2 DEF Advance, TraverseOne, db, commit
    <2>4. CASE EndOfTraversal(n)
      <3>1. nodes' = nodes
        BY <2>2, <2>4 DEF Advance
      <3> QED BY <1>1, <2>3, <3>1, CleanSame DEF MarkInv, Removing
    <2>5. CASE ~EndOfTraversal(n)
      <3>1. nodes' = LoadChild(p, l)
        BY <2>1, <2>2, <2>5 DEF Advance
      <3>2. LoadsAt(p, l)
        BY <2>1, <2>3, <2>5, NextLoads
      <3>3. ASSUME NoPendingChanges' PROVE Mirrors'
        <4>1. Mirrors
          BY <1>1, <2>3, <3>3 DEF CleanInv, NoPendingChanges
        <4> QED BY <2>3, <3>1, <3>2, <4>1, ChildMirrors
      <3> QED BY <1>1, <2>3, <3>3 DEF CleanInv, MarkInv, Removing
    <2> QED BY <2>4, <2>5
  <1> QED BY <1>2, <1>3

LEMMA FinishClean ==
  ASSUME TypeOK, CleanInv, MarkInv, ~failed',
         \/ SetFirstLeaf \/ SetLeafUnderEdge \/ SetLeafUnderBinary \/ SetSplitsEdge
         \/ DeleteLastLeaf \/ DeleteAtBranch \/ DeleteAtBranchUnderEdge
  PROVE  CleanInv' /\ MarkInv'
  <1>1. /\ args.key \in Key /\ args.value \in Felt /\ None \notin Felt /\ Remove # None
        /\ DOMAIN cache_leaf_modified = Key
    BY RemoveAssumption DEF TypeOK
  <1>2. CASE SetFirstLeaf \/ SetLeafUnderEdge \/ SetSplitsEdge
    <2>1. cache_leaf_modified'[args.key] = args.value /\ pc' = "Idle"
      BY <1>1, <1>2 DEF SetFirstLeaf, SetLeafUnderEdge, SetSplitsEdge, SetLeafInCache, FinishSetFrame, Return
    <2>2. CleanInv'
      BY <1>1, <2>1, NotClean
    <2> QED BY <2>1, <2>2 DEF MarkInv, Removing
  <1>3. CASE SetLeafUnderBinary
    <2>1. /\ cache_leaf_modified'[args.key] = args.value \/ UNCHANGED <<nodes, cache_leaf_modified>>
          /\ pc' = "Idle" /\ trie_db' = trie_db /\ pc = "Finish"
      BY <1>1, <1>3 DEF SetLeafUnderBinary, Setting, SetLeafInCache, FinishSetFrame, Return, db
    <2>2. CleanInv'
      BY <1>1, <2>1, NotClean, CleanSame
    <2> QED BY <2>1, <2>2 DEF MarkInv, Removing
  <1>4. CASE DeleteLastLeaf \/ DeleteAtBranch \/ DeleteAtBranchUnderEdge
    <2>1. FinishDeleteFrame /\ Deleting
      BY <1>4 DEF DeleteLastLeaf, DeleteAtBranch, DeleteAtBranchUnderEdge, FailAtBranch, FailFrame
    <2>2. cache_leaf_modified' = cache_leaf_modified /\ pc' = "Idle"
      BY <2>1 DEF FinishDeleteFrame, Return
    <2>3. cache_leaf_modified[args.key] = Remove
      BY <2>1 DEF MarkInv, Removing, Deleting
    <2>4. CleanInv'
      BY <1>1, <2>2, <2>3, NotClean
    <2> QED BY <2>2, <2>4 DEF MarkInv, Removing
  <1> QED BY <1>2, <1>3, <1>4

LEMMA CommitClean ==
  ASSUME ShapeInv, CleanInv, ~failed',
         \/ CommitStart \/ (\E p \in Path : ComputeHash(p) \/ CommitSubtree(p))
         \/ CommitWrite \/ CommitWriteFails \/ Reopen
  PROVE  CleanInv' /\ MarkInv'
  <1>1. CASE CommitStart \/ \E p \in Path : ComputeHash(p)
    <2>1. /\ UNCHANGED <<nodes, trie_db, cache_leaf_modified>> /\ pc \in {"Idle", "Hash"}
          /\ pc' \in {"Hash", "Write", "CommitSubtree"}
      <3>1. ~Fail
        BY DEF Fail, FailFrame
      <3> QED BY <1>1, <3>1 DEF CommitStart, ComputeHash, db, tree
    <2>2. CleanInv'
      BY <2>1, CleanSame
    <2> QED BY <2>1, <2>2 DEF MarkInv, Removing
  <1>2. CASE \E p \in Path : CommitSubtree(p)
    <2>1. pc' \in {"Write", "CommitSubtree"}
      BY <1>2 DEF CommitSubtree, Fail, FailFrame
    <2> QED BY <2>1 DEF CleanInv, MarkInv, Removing
  <1>3. CASE CommitWrite \/ CommitWriteFails \/ Reopen
    <2>1. pc' = "Idle" /\ \A p \in Path : nodes'[p] = NoNode
      <3>1. CASE CommitWrite \/ CommitWriteFails
        <4>1. pc = "Write" /\ nodes' = nodes /\ pc' = "Idle"
          BY <3>1 DEF CommitWrite, CommitWriteFails, ClearTree
        <4>2. \A p \in Path : nodes[p] = NoNode
          BY <4>1 DEF ShapeInv, PhaseInv
        <4> QED BY <4>1, <4>2
      <3>2. CASE Reopen
        BY <3>2 DEF Reopen, Return, NoNodes
      <3> QED BY <1>3, <3>1, <3>2
    <2> QED BY <2>1 DEF CleanInv, MarkInv, Removing, Mirrors
  <1> QED BY <1>1, <1>2, <1>3

LEMMA NextClean ==
  ASSUME "remove" \notin ReadErrors, NEW m, NEW d, Holds(m, d), CleanInv, MarkInv, Next, ~failed'
  PROVE  CleanInv' /\ MarkInv'
  <1>1. ShapeInv /\ TypeOK
    BY DEF Holds, ShapeInv, TInv
  <1>2. CASE Step
    <2>1. CASE \/ SetFirstLeaf \/ SetLeafUnderEdge \/ SetLeafUnderBinary \/ SetSplitsEdge
               \/ DeleteLastLeaf \/ DeleteAtBranch \/ DeleteAtBranchUnderEdge
      BY <1>1, <2>1, FinishClean
    <2>2. CASE LoadRootNode \/ TraverseOne
      BY <1>1, <2>2, TraverseClean
    <2>3. CASE (\E p \in Path : ComputeHash(p) \/ CommitSubtree(p)) \/ CommitWrite \/ CommitWriteFails
      BY <1>1, <2>3, CommitClean
    <2>4. CASE SeekFails
      <3>1. /\ pc \in {"LoadRoot", "Traverse"} /\ pc' = "Idle"
            /\ UNCHANGED <<nodes, trie_db, cache_leaf_modified>>
        BY <2>4 DEF SeekFails, SeekReadsDb, ReadErrorFrame, Return, db
      <3> QED BY <3>1, CleanSame DEF MarkInv, Removing
    <2> QED BY <1>2, <2>1, <2>2, <2>3, <2>4, NoMergeReadFails DEF Step
  <1>3. CASE CommitStart \/ Reopen
    BY <1>1, <1>3, CommitClean
  <1>4. ASSUME NEW key \in Keys, NEW value \in Values,
               SetCached(key, value) \/ SetSame(key, value) \/ SetSeek(key, value)
        PROVE  CleanInv' /\ MarkInv'
    BY <1>1, <1>4, StartClean
  <1>5. ASSUME NEW key \in Keys, DeleteAbsent(key) \/ DeleteSeek(key)
        PROVE  CleanInv' /\ MarkInv'
    BY <1>1, <1>5, DeleteClean
  <1> QED BY <1>2, <1>3, <1>4, <1>5 DEF Next

\* A node of the database has the hash of its subtree.
LEMMA RowIs ==
  ASSUME NEW d, InDb(d), NEW p \in Path, trie_db[p] # NoNode
  PROVE  /\ HasNode(d, p) /\ DOMAIN trie_db[p].next = Labels(d, p)
         /\ trie_db[p].next = [l \in Labels(d, p) |-> SubtreeHash(d)[p \o l]]
         /\ trie_db[p].type = IF Branches(d, p) THEN "Binary" ELSE "Edge"
         /\ trie_db[p].hash = SubtreeHash(d)[p] /\ trie_db[p].hash \in Felt /\ trie_db[p].hash # None
  <1>1. trie_db = StoredTrie(d) /\ d \in [Key -> Felt \cup {None}]
    BY DEF InDb
  <1>2. HasNode(d, p)
    BY <1>1, StoredIs
  <1>3. trie_db[p] = [type   |-> IF Branches(d, p) THEN "Binary" ELSE "Edge",
                      hash   |-> SubtreeHash(d)[p],
                      height |-> Len(p),
                      next   |-> [l \in Labels(d, p) |-> SubtreeHash(d)[p \o l]]]
    BY <1>1, <1>2, StoredIs
  <1>4. /\ trie_db[p].type = IF Branches(d, p) THEN "Binary" ELSE "Edge"
        /\ trie_db[p].hash = SubtreeHash(d)[p]
    BY <1>3
  <1>5. trie_db[p].next = [l \in Labels(d, p) |-> SubtreeHash(d)[p \o l]]
    BY <1>1, <1>2, StoredNext
  <1>6. SubtreeHash(d)[p] \in Felt /\ None \notin Felt
    BY <1>1, <1>2, SubtreeHashType DEF HasNode
  <1> QED BY <1>2, <1>4, <1>5, <1>6

\* What a visit finds in a node that mirrors the database.
LEMMA CleanHash ==
  ASSUME NEW m, NEW d, Rests(m, d), Mirrors, NEW q \in Path, nodes[q] # NoNode
  PROVE  NodeHashes[q] = trie_db[q].hash /\ nodes[q].hash = trie_db[q].hash /\ trie_db[q] # NoNode
  <1>1. Mirror(nodes[q], trie_db[q])
    BY DEF Mirrors
  <1>2. trie_db[q] # NoNode /\ nodes[q].hash = trie_db[q].hash
    BY <1>1 DEF Mirror
  <1>3. trie_db[q].hash # None
    BY <1>2, RowIs DEF Rests
  <1>4. NodeHashes[q] = NodeHashAt(NodeHashes, q)
    BY NodeHashesAre DEF Rests, CoreInv
  <1>5. NodeHashes[q] = nodes[q].hash
    BY <1>2, <1>3, <1>4 DEF NodeHashAt
  <1> QED BY <1>2, <1>5

\* A step of a proof keeps the mirror: it loads nodes as they are stored, and
\* the hashes it caches are there already.
LEMMA VisitClean ==
  ASSUME NEW m, NEW d, ProofHolds(m, d), CleanInv, VisitNode
  PROVE  CleanInv'
  <1>1. /\ pc = "ProofVisit" /\ UNCHANGED <<trie_db, cache_leaf_modified>>
        /\ \A q \in Path : \/ nodes'[q] = nodes[q]
                           \/ nodes[q] # NoNode /\ nodes'[q] = Hashed(nodes[q], NodeHashes[q])
    BY VisitKeeps
  <1>2. Rests(m, d)
    BY <1>1 DEF ProofHolds, InProof
  <1> SUFFICES ASSUME NoPendingChanges PROVE Mirrors'
    BY <1>1 DEF CleanInv, NoPendingChanges
  <1>3. Mirrors
    BY <1>1 DEF CleanInv
  <1>4. ASSUME NEW q \in Path, nodes[q] # NoNode PROVE Loads(nodes[q], Hashed(nodes[q], NodeHashes[q]))
    <2>1. NodeHashes[q] = nodes[q].hash
      BY <1>2, <1>3, <1>4, CleanHash
    <2> QED BY <2>1 DEF Loads, Hashed
  <1>5. \A q \in Path : nodes'[q] # NoNode => \/ nodes'[q] = nodes[q] \/ nodes'[q] = trie_db[q]
                                              \/ nodes[q] # NoNode /\ Loads(nodes[q], nodes'[q])
    BY <1>1, <1>4
  <1> QED BY <1>1, <1>3, <1>5, LoadMirrors

\* What DescendOne does, at a node that is where the iterator expects it.
LEMMA DescendIs ==
  ASSUME NEW m, NEW d, ProofHolds(m, d), DescendOne,
         NEW p, NEW n, NEW l, p = current_path, n = nodes[current_path], l = NextLabel(n)
  PROVE  /\ Rests(m, d) /\ ProofAt(m) /\ OnTheWay /\ pc = "ProofDescend" /\ current_path' = p \o l
         /\ UNCHANGED <<trie_db, flat_db, death_row, updates, cache_leaf_modified, args, keys, proof>>
         /\ \/ EndOfTraversal(n) /\ pc' = "ProofKey" /\ done' = done + 1 /\ nodes' = nodes
            \/ ~EndOfTraversal(n) /\ pc' = "ProofVisit" /\ done' = done /\ nodes' = LoadChild(p, l)
               /\ LoadsAt(p, l)
  <1>1. pc = "ProofDescend"
    BY DEF DescendOne
  <1>2. Rests(m, d) /\ ProofAt(m) /\ OnTheWay /\ CoreInv /\ updates = NoUpdates
    BY <1>1 DEF ProofHolds, InProof, ProofAt, Rests
  <1>3. Descend(n)
    BY <1>2, DescendHolds DEF DescendOne
  <1>4. /\ p \in Path /\ nodes[p] # NoNode /\ l \in DOMAIN nodes[p].next /\ Len(p \o l) \in Nat
    BY <1>2, NextStep, PathLen
  <1>5. ~EndOfTraversal(n) => LoadsAt(p, l)
    BY <1>2, <1>4 DEF EndOfTraversal, LoadsAt
  <1> QED BY <1>1, <1>2, <1>3, <1>5 DEF Descend, db, commit

LEMMA DescendClean ==
  ASSUME NEW m, NEW d, ProofHolds(m, d), CleanInv, DescendOne
  PROVE  CleanInv'
  <1>1. PICK p, n, l : p = current_path /\ n = nodes[current_path] /\ l = NextLabel(n)
    OBVIOUS
  <1>2. /\ pc = "ProofDescend" /\ UNCHANGED <<trie_db, death_row, updates, cache_leaf_modified>>
        /\ \/ nodes' = nodes
           \/ nodes' = LoadChild(p, l) /\ LoadsAt(p, l)
    BY <1>1, DescendIs
  <1>3. CASE nodes' = nodes
    BY <1>2, <1>3, CleanSame
  <1>4. CASE nodes' = LoadChild(p, l) /\ LoadsAt(p, l)
    <2> SUFFICES ASSUME NoPendingChanges PROVE Mirrors'
      BY <1>2 DEF CleanInv, NoPendingChanges
    <2>1. Mirrors
      BY <1>2 DEF CleanInv
    <2> QED BY <1>2, <1>4, <2>1, ChildMirrors
  <1> QED BY <1>2, <1>3, <1>4

LEMMA ProofStepClean ==
  ASSUME NEW m, NEW d, ProofHolds(m, d), CleanInv, ProofStep \/ \E ks \in KeySequences : GetMultiProof(ks)
  PROVE  CleanInv' /\ MarkInv'
  <1>1. pc \in {"Idle", "ProofKey", "ProofVisit", "ProofDescend", "Proved"}
    BY DEF ProofStep, KeyLengthError, ResumeAtLastKept, ResumeAtRoot, AtKey, VisitNode, DescendOne,
           ProofReadFails, ReturnProof, DropProof, GetMultiProof
  <1>2. CASE \/ KeyLengthError \/ ResumeAtLastKept \/ ProofReadFails \/ ReturnProof \/ DropProof
             \/ \E ks \in KeySequences : GetMultiProof(ks)
    <2>1. /\ UNCHANGED <<nodes, trie_db, cache_leaf_modified>>
          /\ pc' \in {"Idle", "ProofKey", "ProofDescend", "Proved"}
      BY <1>2 DEF KeyLengthError, ResumeAtLastKept, ResumeFrame, ProofReadFails, ReturnProof, DropProof,
                  GetMultiProof, Return, db, tree
    <2>2. CleanInv'
      BY <1>1, <2>1, CleanSame
    <2> QED BY <2>1, <2>2 DEF MarkInv, Removing
  <1>3. CASE ResumeAtRoot
    <2>1. /\ pc = "ProofKey" /\ LoadsRoot /\ pc' \in {"ProofVisit", "ProofKey"}
          /\ UNCHANGED <<trie_db, death_row, updates, cache_leaf_modified>>
      BY <1>3 DEF ResumeAtRoot, ResumeFrame, AtKey, LoadsRoot, db, commit
    <2>2. CoreInv /\ RootKnown /\ updates = NoUpdates
      BY <2>1 DEF ProofHolds, InProof, Rests
    <2>3. ASSUME NoPendingChanges' PROVE Mirrors'
      <3>1. Mirrors
        BY <2>1, <2>3 DEF CleanInv, NoPendingChanges
      <3> QED BY <2>1, <2>2, <3>1, RootMirrors
    <2> QED BY <2>1, <2>3 DEF CleanInv, MarkInv, Removing
  <1>4. CASE VisitNode
    <2>1. pc' = "ProofDescend"
      BY <1>4, VisitKeeps
    <2> QED BY <1>4, <2>1, VisitClean DEF MarkInv, Removing
  <1>5. CASE DescendOne
    <2>1. pc' \in {"ProofKey", "ProofVisit"}
      BY <1>5, DescendIs
    <2> QED BY <1>5, <2>1, DescendClean DEF MarkInv, Removing
  <1> QED BY <1>2, <1>3, <1>4, <1>5 DEF ProofStep

(***************************************************************************)
(* The nodes of a proof, as long as nothing is pending, are rows of the    *)
(* database, and every row on the way to a key that is done is there.      *)
(***************************************************************************)
Entry(p) == [type |-> trie_db[p].type, next |-> trie_db[p].next]

Shown(p) == trie_db[p] # NoNode => trie_db[p].hash \in DOMAIN proof

ShownTo(q) == \A p \in Path : IsPrefixOf(p, q) => Shown(p)

Entries ==
    \A h \in DOMAIN proof : \E p \in Path :
        trie_db[p] # NoNode /\ trie_db[p].hash = h /\ proof[h] = Entry(p)

KeysShown == \A i \in 1..done : keys[i] \in Key /\ ShownTo(keys[i])

\* The node the iterator stands at is in the proof once it has been visited.
WayShown ==
    pc # "Proved" =>
        \A p \in Path : IsPrefixOf(p, current_path) /\ (pc = "ProofDescend" \/ p # current_path) => Shown(p)

Contents == Entries /\ KeysShown /\ WayShown

\* Without pending changes the proof holds rows of the Trie column under their
\* hashes, among them every row on the way to a key that is done.
ContentInv ==
    IF InProof THEN /\ NoPendingChanges => Contents
                    /\ pc = "Proved" => done = Len(keys)
               ELSE proof = NoProof

\* With nothing pending the rows are the nodes of the tree.
LEMMA CleanRows ==
  ASSUME CoreInv, NoPendingChanges, ~Removing, NEW x \in Path
  PROVE  trie_db[x] # NoNode <=> HasNode(Pending, x)
  <1>1. \A k \in Key : Pending[k] = flat_db[k]
    BY GetNone DEF Pending, NoPendingChanges
  <1>2. HasShapeOf(trie_db, flat_db)
    BY DEF CoreInv
  <1>3. HasShapeOf(trie_db, Pending)
    BY <1>1, <1>2, ShapeOfKeys
  <1>4. Looks(trie_db, Pending, x)
    BY <1>3, ShapeIs
  <1> QED BY <1>4 DEF Looks

\* The node a visit adds to the proof is the row of the database.
LEMMA CleanEntry ==
  ASSUME NEW m, NEW d, Rests(m, d), Mirrors, NEW p \in Path, nodes[p] # NoNode
  PROVE  ProofNode(p) = Entry(p)
  <1>1. Mirror(nodes[p], trie_db[p]) /\ CoreInv /\ InDb(d)
    BY DEF Mirrors, Rests
  <1>2. /\ nodes[p].type = trie_db[p].type /\ trie_db[p] # NoNode
        /\ DOMAIN nodes[p].next = DOMAIN trie_db[p].next
        /\ \A l \in DOMAIN nodes[p].next : nodes[p].next[l] \in {InMemory, trie_db[p].next[l]}
    BY <1>1 DEF Mirror
  <1>3. /\ HasNode(d, p) /\ DOMAIN trie_db[p].next = Labels(d, p)
        /\ trie_db[p].next = [l \in Labels(d, p) |-> SubtreeHash(d)[p \o l]]
    BY <1>1, <1>2, RowIs
  <1>4. ASSUME NEW l \in Labels(d, p), nodes[p].next[l] = InMemory
        PROVE  NodeHashes[p \o l] = trie_db[p].next[l]
    <2>1. l \in DOMAIN nodes[p].next
      BY <1>2, <1>3
    <2>2. PICK c : c = p \o l
      OBVIOUS
    <2>3. c \in Path /\ nodes[c] # NoNode
      BY <1>1, <1>4, <2>1, <2>2, CoreArc DEF ArcOf
    <2>4. NodeHashes[c] = trie_db[c].hash /\ trie_db[c] # NoNode
      BY <2>3, CleanHash
    <2>5. trie_db[c].hash = SubtreeHash(d)[c]
      BY <1>1, <2>3, <2>4, RowIs
    <2>6. trie_db[p].next[l] = SubtreeHash(d)[p \o l]
      BY <1>3
    <2> QED BY <2>2, <2>4, <2>5, <2>6
  <1> DEFINE Next1(l) == IF nodes[p].next[l] = InMemory THEN NodeHashes[p \o l] ELSE nodes[p].next[l]
  <1>5. ASSUME NEW l \in Labels(d, p) PROVE Next1(l) = trie_db[p].next[l]
    BY <1>2, <1>3, <1>4
  <1>6. ProofNode(p) = [type |-> nodes[p].type, next |-> [l \in DOMAIN nodes[p].next |-> Next1(l)]]
    BY DEF ProofNode
  <1>7. [l \in DOMAIN nodes[p].next |-> Next1(l)] = trie_db[p].next
    <2> HIDE DEF Next1
    <2>1. [l \in DOMAIN nodes[p].next |-> Next1(l)] = [l \in Labels(d, p) |-> Next1(l)]
      BY <1>2, <1>3
    <2>2. [l \in Labels(d, p) |-> Next1(l)] = [l \in Labels(d, p) |-> trie_db[p].next[l]]
      BY <1>5
    <2>3. [l \in Labels(d, p) |-> trie_db[p].next[l]] = trie_db[p].next
      BY <1>3
    <2> QED BY <2>1, <2>2, <2>3
  <1> HIDE DEF Next1
  <1> QED BY <1>2, <1>6, <1>7 DEF Entry

LEMMA VisitContents ==
  ASSUME NEW m, NEW d, ProofHolds(m, d), CleanInv, VisitNode, NoPendingChanges, Contents
  PROVE  Contents'
  <1>1. /\ CoreInv /\ OnTheWay /\ pc = "ProofVisit" /\ pc' = "ProofDescend"
        /\ UNCHANGED <<trie_db, keys, done, current_path, failed>>
    BY VisitKeeps
  <1>2. PICK p : p = current_path
    OBVIOUS
  <1>3. Rests(m, d) /\ Mirrors /\ p \in Path /\ nodes[p] # NoNode
    BY <1>1, <1>2 DEF ProofHolds, InProof, CleanInv, OnTheWay, Walked, Heights
  <1>4. PICK new : new = trie_db[p].hash
    OBVIOUS
  <1>5. NodeHashes[p] = new /\ ProofNode(p) = Entry(p) /\ trie_db[p] # NoNode
    BY <1>3, <1>4, CleanHash, CleanEntry
  <1>6. proof' = [h \in DOMAIN proof \cup {NodeHashes[p]} |->
                    IF h = NodeHashes[p] THEN ProofNode(p) ELSE proof[h]]
    <2>1. ~VisitBroken(p)
      BY <1>1, <1>2, <1>3 DEF VisitNode, Fail, FailFrame, Rests
    <2> QED BY <1>2, <2>1 DEF VisitNode
  <1>7. /\ DOMAIN proof' = DOMAIN proof \cup {new} /\ proof'[new] = Entry(p)
        /\ \A h \in DOMAIN proof : h # new => proof'[h] = proof[h]
    BY <1>5, <1>6
  <1>8. \A x \in Path : Entry(x)' = Entry(x)
    BY <1>1 DEF Entry
  <1>9. Entries'
    <2> SUFFICES ASSUME NEW h \in DOMAIN proof'
                 PROVE  \E x \in Path : trie_db[x] # NoNode /\ trie_db[x].hash = h /\ proof'[h] = Entry(x)
      BY <1>1, <1>8 DEF Entries
    <2>1. CASE h = new
      BY <1>3, <1>4, <1>5, <1>7, <2>1
    <2>2. CASE h # new
      BY <1>7, <2>2 DEF Contents, Entries
    <2> QED BY <2>1, <2>2
  <1>10. /\ \A x \in Path : Shown(x) => Shown(x)'
         /\ Shown(p)'
    BY <1>1, <1>4, <1>7 DEF Shown
  <1>11. KeysShown'
    <2> SUFFICES ASSUME NEW i \in 1..done PROVE keys[i] \in Key /\ ShownTo(keys[i])'
      BY <1>1 DEF KeysShown, ShownTo
    <2>1. keys[i] \in Key /\ ShownTo(keys[i])
      BY DEF Contents, KeysShown
    <2> QED BY <1>1, <1>10, <2>1 DEF ShownTo, IsPrefixOf, First
  <1>12. WayShown'
    <2> SUFFICES ASSUME NEW x \in Path, IsPrefixOf(x, p) PROVE Shown(x)'
      BY <1>1, <1>2 DEF WayShown, IsPrefixOf, First
    <2>1. CASE x = p
      BY <1>10, <2>1
    <2>2. CASE x # p
      BY <1>1, <1>2, <1>10, <2>2 DEF Contents, WayShown
    <2> QED BY <2>1, <2>2
  <1> QED BY <1>9, <1>11, <1>12 DEF Contents

\* Where the traversal of a key ends, there is no further node on its way.
LEMMA NothingFurther ==
  ASSUME CoreInv, OnTheWay, EndOfTraversal(nodes[current_path]), NEW x \in Path,
         IsPrefixOf(x, args.key), HasNode(Pending, x)
  PROVE  IsPrefixOf(x, current_path)
  <1>1. PICK p, n, l, key, c : /\ p = current_path /\ n = nodes[current_path] /\ l = NextLabel(n)
                               /\ key = args.key /\ c = p \o l
    OBVIOUS
  <1>2. /\ p \in Path /\ n # NoNode /\ nodes[p] = n /\ IsNodeAt(n, p) /\ View[p] = n
        /\ l \in DOMAIN n.next /\ l \in Path /\ c \in Path /\ Len(c) <= MaxHeight
        /\ key \in Key /\ key \in Path /\ IsPrefixOf(p, key)
        /\ IsEdge(n) => l = EdgePath(n)
        /\ LabelMatches(n) => IsPrefixOf(c, key)
    BY <1>1, NextStep
  <1>3. HasNode(Pending, p) /\ DOMAIN n.next = Labels(Pending, p)
    BY <1>2, CoreNodeInMemory
  <1>4. Len(x) \in Nat /\ Len(p) \in Nat /\ Len(c) \in Nat /\ Len(x) < MaxHeight /\ Through(Pending, x) # {}
    BY <1>2, PathLen DEF HasNode
  <1>5. CASE Len(x) <= Len(p)
    BY <1>1, <1>2, <1>5, PrefixOfBoth
  <1>6. CASE Len(p) < Len(x)
    <2>1. IsPrefixOf(p, x) /\ p # x
      BY <1>1, <1>2, <1>4, <1>6, PrefixOfBoth
    <2>2. CASE LabelMatches(n)
      <3>1. Len(c) = MaxHeight
        <4>1. EndOfTraversal(n) /\ c = current_path \o NextLabel(n)
          BY <1>1
        <4>2. Len(c) >= MaxHeight
          BY <2>2, <4>1, Zenon DEF EndOfTraversal
        <4> QED BY <1>2, <1>4, <4>2
      <3>2. IsPrefixOf(x, c)
        <4>1. IsPrefixOf(c, key) /\ IsPrefixOf(x, key)
          BY <1>1, <1>2, <2>2
        <4>2. Len(x) <= Len(c)
          BY <1>4, <3>1
        <4> QED BY <1>2, <4>1, <4>2, PrefixOfBoth
      <3>3. x = c
        BY <1>1, <1>2, <1>3, <2>1, <3>2, ArcOnly
      <3> QED BY <1>4, <3>1, <3>3
    <2>3. CASE ~LabelMatches(n)
      <3>1. ~IsBinary(n) /\ ~PathMatches(EdgePath(n), key, Len(p))
        BY <1>1, <2>3 DEF LabelMatches
      <3>2. l = EdgePath(n) /\ DOMAIN n.next = {l}
        BY <1>2, <3>1, NodeKind, EdgeDomain
      <3>3. PICK j \in Labels(Pending, p) : IsPrefixOf(p \o j, x)
        BY <1>2, <1>3, <1>4, <2>1, ArcToward
      <3>4. IsPrefixOf(c, x)
        BY <1>1, <1>3, <3>2, <3>3
      <3>5. IsPrefixOf(c, key)
        BY <1>1, <1>2, <3>4, PathPrefixTrans
      <3>6. PathMatches(l, key, Len(p))
        BY <1>1, <1>2, <3>5, MatchesKey
      <3> QED BY <3>1, <3>2, <3>6
    <2> QED BY <2>2, <2>3
  <1> QED BY <1>4, <1>5, <1>6

LEMMA DescendContents ==
  ASSUME NEW m, NEW d, ProofHolds(m, d), DescendOne, NoPendingChanges, Contents
  PROVE  Contents'
  <1>1. PICK p, n, l, c, key : /\ p = current_path /\ n = nodes[current_path] /\ l = NextLabel(n)
                               /\ c = p \o l /\ key = args.key
    OBVIOUS
  <1>2. /\ Rests(m, d) /\ ProofAt(m) /\ OnTheWay /\ pc = "ProofDescend" /\ current_path' = c
        /\ UNCHANGED <<trie_db, keys, proof>>
        /\ \/ EndOfTraversal(n) /\ pc' = "ProofKey" /\ done' = done + 1
           \/ pc' = "ProofVisit" /\ done' = done
    BY <1>1, DescendIs
  <1>3. CoreInv /\ ~Removing
    BY <1>2 DEF Rests, Removing
  <1>4. /\ p \in Path /\ nodes[p] = n /\ n # NoNode /\ l \in DOMAIN n.next /\ c \in Path
        /\ key \in Key /\ key \in Path /\ IsPrefixOf(p, key) /\ IsPrefixOf(p, c)
    <2>1. /\ p \in Path /\ nodes[p] = n /\ n # NoNode /\ l \in DOMAIN n.next /\ c \in Path
          /\ key \in Key /\ key \in Path /\ IsPrefixOf(p, key)
      BY <1>1, <1>2, <1>3, NextStep
    <2>2. IsPrefixOf(p, c)
      BY <1>1, <1>3, <2>1, CoreArc DEF ArcOf
    <2> QED BY <2>1, <2>2
  <1>5. HasNode(Pending, p) /\ l \in Labels(Pending, p)
    BY <1>3, <1>4, CoreNodeInMemory
  <1>6. \A x \in Path : IsPrefixOf(x, p) => Shown(x)
    BY <1>1, <1>2 DEF Contents, WayShown
  <1>7. \A x \in Path : Shown(x)' = Shown(x) /\ Entry(x)' = Entry(x)
    BY <1>2 DEF Shown, Entry
  <1>8. Entries'
    BY <1>2, <1>7 DEF Contents, Entries
  <1>9. WayShown'
    <2> SUFFICES ASSUME NEW x \in Path, IsPrefixOf(x, c), x # c PROVE Shown(x)
      BY <1>2, <1>7 DEF WayShown, IsPrefixOf, First
    <2>1. Len(x) \in Nat /\ Len(p) \in Nat
      BY <1>4, PathLen
    <2>2. CASE Len(x) <= Len(p)
      BY <1>4, <1>6, <2>2, PrefixOfBoth
    <2>3. CASE Len(p) < Len(x)
      <3> SUFFICES ASSUME trie_db[x] # NoNode PROVE FALSE
        BY DEF Shown
      <3>1. HasNode(Pending, x)
        BY <1>3, CleanRows
      <3>2. IsPrefixOf(p, x) /\ p # x
        BY <1>4, <2>1, <2>3, PrefixOfBoth
      <3>3. x = c
        BY <1>1, <1>4, <1>5, <3>1, <3>2, ArcOnly
      <3> QED BY <3>3
    <2> QED BY <2>1, <2>2, <2>3
  <1>10. KeysShown'
    <2>1. ASSUME NEW i \in 1..done PROVE keys[i] \in Key /\ ShownTo(keys[i])
      BY DEF Contents, KeysShown
    <2>2. CASE pc' = "ProofVisit" /\ done' = done
      BY <1>2, <1>7, <2>1, <2>2 DEF KeysShown, ShownTo, IsPrefixOf, First
    <2>3. CASE EndOfTraversal(n) /\ done' = done + 1
      <3>1. ShownTo(key)
        <4> SUFFICES ASSUME NEW x \in Path, IsPrefixOf(x, key), trie_db[x] # NoNode PROVE Shown(x)
          BY DEF ShownTo, Shown
        <4>1. HasNode(Pending, x)
          BY <1>3, CleanRows
        <4>2. IsPrefixOf(x, p)
          BY <1>1, <1>2, <1>3, <2>3, <4>1, NothingFurther
        <4> QED BY <1>6, <4>2
      <3>2. key = keys[done + 1] /\ done \in Nat
        BY <1>1, <1>2 DEF OnTheWay, ProofAt
      <3>3. \A i \in 1..(done + 1) : i \in 1..done \/ i = done + 1
        BY <3>2
      <3>4. \A i \in 1..(done + 1) : keys[i] \in Key /\ ShownTo(keys[i])
        BY <1>4, <2>1, <3>1, <3>2, <3>3
      <3> QED BY <1>2, <1>7, <2>3, <3>4 DEF KeysShown, ShownTo, IsPrefixOf, First
    <2> QED BY <1>2, <2>2, <2>3
  <1> QED BY <1>8, <1>9, <1>10 DEF Contents

LEMMA ResumeContents ==
  ASSUME NEW m, NEW d, ProofHolds(m, d), ResumeAtLastKept, Contents
  PROVE  Contents'
  <1>1. PICK key, hs, path : key = NextKey /\ hs = current_nodes_heights /\ path = current_path
    OBVIOUS
  <1>2. /\ AtKey /\ Len(key) = MaxHeight /\ KeptHeights(key) # << >> /\ pc = "ProofKey"
        /\ current_path' = First(current_path, KeptHeights(key)[Len(KeptHeights(key))])
        /\ UNCHANGED <<trie_db, keys, done, proof>>
    BY <1>1 DEF ResumeAtLastKept, ResumeFrame, AtKey, db
  <1>3. ProofAt(m) /\ Walked(hs, path) /\ Heights(hs, path)
    BY <1>1, <1>2 DEF ProofHolds, InProof, ProofAt, BetweenKeys, Walked
  <1>4. key \in Key
    BY <1>1, <1>2, <1>3, NextKeyIs
  <1>5. PICK c \in 1..Len(hs) : KeptHeights(key)[Len(KeptHeights(key))] = hs[c]
    BY <1>1, <1>2, <1>3, <1>4, KeptIs
  <1>6. PICK path2 : path2 = First(path, hs[c])
    OBVIOUS
  <1>7. current_path' = path2
    BY <1>1, <1>2, <1>5, <1>6
  <1>8. /\ path2 \in Path /\ path \in Path /\ IsPrefixOf(path2, path) /\ Len(path2) < Len(path)
        /\ Len(path2) \in Nat /\ Len(path) \in Nat
    <2>1. hs[c] < Len(path)
      BY <1>3 DEF Heights
    <2> QED BY <1>3, <1>6, <2>1, WalkPlaces DEF Heights
  <1>9. \A x \in Path : Shown(x)' = Shown(x) /\ Entry(x)' = Entry(x)
    BY <1>2 DEF Shown, Entry
  <1>10. WayShown'
    <2> SUFFICES ASSUME NEW x \in Path, IsPrefixOf(x, path2) PROVE Shown(x)
      BY <1>7, <1>9 DEF WayShown, IsPrefixOf, First
    <2>1. IsPrefixOf(x, path)
      BY <1>8, PathPrefixTrans
    <2>2. Len(x) <= Len(path2) /\ Len(x) \in Nat
      BY <1>8, PrefixLen
    <2>3. x # path
      BY <1>8, <2>2
    <2> QED BY <1>1, <1>2, <2>1, <2>3 DEF Contents, WayShown
  <1>11. KeysShown' /\ Entries'
    BY <1>2, <1>9 DEF Contents, Entries, KeysShown, ShownTo, IsPrefixOf, First
  <1> QED BY <1>10, <1>11 DEF Contents

\* Nothing is shorter than the empty path.
AtTop == current_path = << >> /\ pc # "ProofDescend"

LEMMA EmptyWayShown == AtTop => WayShown
  <1> SUFFICES ASSUME AtTop PROVE WayShown
    OBVIOUS
  <1> SUFFICES ASSUME NEW x \in Path, IsPrefixOf(x, << >>), x # << >> PROVE FALSE
    BY DEF WayShown, AtTop
  <1>1. PICK e : e = << >>
    OBVIOUS
  <1>2. e \in Path /\ Len(e) = 0
    BY <1>1, RootInPath
  <1>3. Len(x) \in Nat /\ Len(x) <= Len(e)
    BY <1>1, <1>2, PrefixLen
  <1>4. x = e
    BY <1>1, <1>2, <1>3, PrefixSame
  <1> QED BY <1>1, <1>4

LEMMA EmptyWayShownNext == AtTop' => WayShown'
  <1>1. AtTop => WayShown
    BY EmptyWayShown
  <1> QED BY <1>1, PTL

LEMMA RootContents ==
  ASSUME NEW m, NEW d, ProofHolds(m, d), ResumeAtRoot, NoPendingChanges, Contents
  PROVE  Contents'
  <1>1. PICK key : key = NextKey
    OBVIOUS
  <1>2. /\ AtKey /\ Len(key) = MaxHeight /\ pc = "ProofKey" /\ LoadsRoot /\ current_path' = << >>
        /\ UNCHANGED <<trie_db, death_row, updates, keys, proof>>
        /\ \/ pc' = "ProofVisit" /\ done' = done
           \/ root_node' # "Loaded" /\ pc' = "ProofKey" /\ done' = done + 1
    BY <1>1 DEF ResumeAtRoot, ResumeFrame, AtKey, LoadsRoot, db, commit
  <1>3. /\ ProofAt(m) /\ CoreInv /\ RootKnown /\ updates = NoUpdates /\ ~Removing
    BY <1>2 DEF ProofHolds, InProof, Rests, Removing
  <1>4. key \in Key /\ done \in Nat /\ key = keys[done + 1]
    BY <1>1, <1>2, <1>3, NextKeyIs DEF ProofAt
  <1>5. root_node' \in {"Empty", "Loaded"} /\ RootKnown' /\ View' = View
    BY <1>2, <1>3, LoadedRoot
  <1>6. \A x \in Path : Shown(x)' = Shown(x) /\ Entry(x)' = Entry(x)
    BY <1>2 DEF Shown, Entry
  <1>7. WayShown'
    BY <1>2, EmptyWayShownNext DEF AtTop
  <1>8. Entries'
    BY <1>2, <1>6 DEF Contents, Entries
  <1>9. KeysShown'
    <2>1. ASSUME NEW i \in 1..done PROVE keys[i] \in Key /\ ShownTo(keys[i])
      BY DEF Contents, KeysShown
    <2>2. CASE done' = done
      BY <1>2, <1>6, <2>1, <2>2 DEF KeysShown, ShownTo, IsPrefixOf, First
    <2>3. CASE root_node' # "Loaded" /\ done' = done + 1
      <3>1. View[<< >>] = NoNode
        BY <1>5, <2>3 DEF RootKnown
      <3>2. \A x \in Path : View[x] = NoNode
        BY <1>3, <3>1, NoRoot DEF CoreInv
      <3>3. \A x \in Path : Shown(x)
        BY <1>3, <3>2, CoreNotInView, CleanRows DEF Shown
      <3>4. \A i \in 1..(done + 1) : i \in 1..done \/ i = done + 1
        BY <1>4
      <3>5. \A i \in 1..(done + 1) : keys[i] \in Key /\ ShownTo(keys[i])
        BY <1>4, <2>1, <3>3, <3>4 DEF ShownTo
      <3> QED BY <1>2, <1>6, <2>3, <3>5 DEF KeysShown, ShownTo, IsPrefixOf, First
    <2> QED BY <1>2, <2>2, <2>3
  <1> QED BY <1>7, <1>8, <1>9 DEF Contents

LEMMA ProofStepContents ==
  ASSUME NEW m, NEW d, ProofHolds(m, d), CleanInv, ContentInv,
         ProofStep \/ \E ks \in KeySequences : GetMultiProof(ks)
  PROVE  ContentInv'
  <1>1. ASSUME KeyLengthError \/ ProofReadFails \/ DropProof PROVE ContentInv'
    BY <1>1 DEF KeyLengthError, ProofReadFails, DropProof, Return, ResetProof, ContentInv, InProof
  <1>2. ASSUME NEW ks \in KeySequences, GetMultiProof(ks) PROVE ContentInv'
    <2>1. /\ pc = "Idle" /\ pc' = "ProofKey" /\ done' = done /\ proof' = proof /\ current_path' = current_path
      BY <1>2 DEF GetMultiProof, iter
    <2>2. Holds(m, d) /\ done = 0 /\ proof = NoProof
      BY <2>1 DEF ProofHolds, InProof, ContentInv
    <2>3. current_path = << >>
      BY <2>1, <2>2, IdleRests
    <2>4. WayShown'
      BY <2>1, <2>3, EmptyWayShownNext DEF AtTop
    <2>5. KeysShown' /\ Entries'
      BY <2>1, <2>2 DEF KeysShown, Entries, NoProof
    <2> QED BY <2>1, <2>4, <2>5 DEF ContentInv, InProof, Contents
  <1>3. ASSUME ResumeAtLastKept \/ ResumeAtRoot \/ VisitNode \/ DescendOne PROVE ContentInv'
    <2>1. /\ pc \in {"ProofKey", "ProofVisit", "ProofDescend"}
          /\ pc' \in {"ProofKey", "ProofVisit", "ProofDescend"}
          /\ cache_leaf_modified' = cache_leaf_modified
      BY <1>3, VisitKeeps, DescendIs DEF ResumeAtLastKept, ResumeAtRoot, ResumeFrame, AtKey
    <2> SUFFICES ASSUME NoPendingChanges PROVE Contents'
      BY <2>1 DEF ContentInv, InProof, NoPendingChanges
    <2>2. Contents
      BY <2>1 DEF ContentInv, InProof
    <2> QED BY <1>3, <2>2, ResumeContents, RootContents, VisitContents, DescendContents
  <1>4. ASSUME ReturnProof PROVE ContentInv'
    <2>1. /\ pc = "ProofKey" /\ pc' = "Proved" /\ done = Len(keys)
          /\ UNCHANGED <<trie_db, cache_leaf_modified, keys, done, proof>>
      BY <1>4 DEF ReturnProof, db, tree, proof_vars
    <2>2. WayShown'
      BY <2>1 DEF WayShown
    <2>3. Entries /\ KeysShown => Entries' /\ KeysShown'
      BY <2>1 DEF Entries, KeysShown, ShownTo, Shown, Entry, IsPrefixOf, First
    <2> QED BY <2>1, <2>2, <2>3 DEF ContentInv, InProof, Contents, NoPendingChanges
  <1> QED BY <1>1, <1>2, <1>3, <1>4 DEF ProofStep

(***************************************************************************)
(* The inductive invariant for what a proof holds                          *)
(***************************************************************************)
\* The leaves are those of the client.
ClientLeaves(m, d) == m \in LeafMaps(Values) /\ d \in LeafMaps(Values)

\* The inductive invariant.
VerifyInv ==
    /\ \E m, d : ProofHolds(m, d) /\ ClientLeaves(m, d)
    /\ CleanInv /\ MarkInv /\ ContentInv

LEMMA ClientMoves ==
  ASSUME NEW m, NEW d, ClientLeaves(m, d), NEW m2, NEW d2, Moves(m, d, m2, d2)
  PROVE  ClientLeaves(m2, d2)
  <1>1. Keys \subseteq Key
    BY KeysAssumption
  <1>2. ASSUME NEW k \in Keys, NEW v \in Values \cup {None}, m2 = [m EXCEPT ![k] = v]
        PROVE  m2 \in LeafMaps(Values)
    BY <1>1, <1>2 DEF ClientLeaves, LeafMaps
  <1> QED BY <1>2 DEF ClientLeaves, Moves

LEMMA VerifyInit == ProofInit => VerifyInv
  <1> SUFFICES ASSUME ProofInit PROVE VerifyInv
    OBVIOUS
  <1>1. Holds(NoLeaves, NoLeaves) /\ done = 0 /\ proof = NoProof
    BY InitHolds DEF ProofInit
  <1>2. ~InProof
    BY <1>1, NotInProof
  <1>3. ProofHolds(NoLeaves, NoLeaves)
    BY <1>1, <1>2 DEF ProofHolds
  <1>4. ClientLeaves(NoLeaves, NoLeaves)
    BY DEF ClientLeaves, LeafMaps, NoLeaves
  <1>5. CleanInv /\ MarkInv
    BY DEF ProofInit, Init, CleanInv, Mirrors, NoNodes, MarkInv, Removing
  <1> QED BY <1>1, <1>2, <1>3, <1>4, <1>5 DEF VerifyInv, ContentInv

LEMMA NotFailedNext ==
  ASSUME NEW m, NEW d
  PROVE  ProofHolds(m, d)' => ~failed'
  <1>1. ProofHolds(m, d) => NoFailure
    BY DEF ProofHolds, Rests, Holds, ShapeInv, NoFailure
  <1>2. ProofHolds(m, d)' => NoFailure'
    BY <1>1, PTL
  <1> QED BY <1>2 DEF NoFailure

LEMMA VerifyNext == "remove" \notin ReadErrors /\ VerifyInv /\ [ProofNext]_all_vars => VerifyInv'
  <1> SUFFICES ASSUME "remove" \notin ReadErrors, VerifyInv, [ProofNext]_all_vars PROVE VerifyInv'
    OBVIOUS
  <1>1. PICK m, d : ProofHolds(m, d) /\ ClientLeaves(m, d)
    BY DEF VerifyInv
  <1>2. PICK m2, d2 : ProofHolds(m2, d2)' /\ Moves(m, d, m2, d2)
    BY <1>1, ProofNextHolds
  <1>3. ClientLeaves(m2, d2)
    BY <1>1, <1>2, ClientMoves
  <1>4. CleanInv /\ MarkInv /\ ContentInv /\ ~failed'
    BY <1>2, NotFailedNext DEF VerifyInv
  <1>5. CleanInv' /\ MarkInv' /\ ContentInv'
    <2>1. CASE ProofStep \/ \E ks \in KeySequences : GetMultiProof(ks)
      BY <1>1, <1>4, <2>1, ProofStepClean, ProofStepContents
    <2>2. CASE Next /\ ResetProof
      <3>1. CASE InProof
        <4>1. pc' = "Idle" /\ nodes' = NoNodes /\ proof' = NoProof
          BY <2>2, <3>1, OnlyReopens DEF Reopen, Return, ResetProof
        <4> QED BY <4>1 DEF CleanInv, Mirrors, NoNodes, MarkInv, Removing, ContentInv, InProof
      <3>2. CASE ~InProof
        <4>1. Holds(m, d)
          BY <1>1, <3>2 DEF ProofHolds
        <4>2. CleanInv' /\ MarkInv'
          BY <1>4, <2>2, <4>1, NextClean
        <4>3. PICK m3, d3 : Holds(m3, d3)'
          BY <2>2, <4>1, NextHolds
        <4>4. ~InProof' /\ proof' = NoProof
          BY <2>2, <4>3, NotInProofNext DEF ResetProof
        <4> QED BY <4>2, <4>4 DEF ContentInv
      <3> QED BY <3>1, <3>2
    <2>3. CASE UNCHANGED all_vars
      <3>1. /\ UNCHANGED <<trie_db, nodes, cache_leaf_modified, pc, args, current_path, keys, done, proof>>
        BY <2>3 DEF all_vars, proof_vars, vars, db, tree, iter
      <3> QED BY <1>4, <3>1 DEF CleanInv, MarkInv, ContentInv, Mirrors, Mirror, NoPendingChanges, Removing,
                 InProof, Contents, Entries, KeysShown, WayShown, ShownTo, Shown, Entry, IsPrefixOf, First
    <2> QED BY <2>1, <2>2, <2>3 DEF ProofNext
  <1> QED BY <1>2, <1>3, <1>5 DEF VerifyInv, ClientLeaves, LeafMaps

(***************************************************************************)
(* What a proof made of rows of the database verifies                      *)
(***************************************************************************)
\* A row is a node of a proof, and has the hash it is filed under.
LEMMA EntryIs ==
  ASSUME NEW V, SelfDelimiting(V), NEW d \in LeafMaps(V), InDb(d), NEW p \in Path, trie_db[p] # NoNode
  PROVE  /\ IsProofNode(Entry(p), TreeHashes(V))
         /\ NodeHash(Entry(p), Entry(p).next) = SubtreeHash(d)[p]
  <1>1. /\ HasNode(d, p) /\ trie_db[p].next = [l \in Labels(d, p) |-> SubtreeHash(d)[p \o l]]
        /\ trie_db[p].type = IF Branches(d, p) THEN "Binary" ELSE "Edge"
    BY RowIs
  <1>2. Len(p) < MaxHeight /\ Len(p) # MaxHeight /\ Through(d, p) # {}
    BY <1>1, PathLen DEF HasNode
  <1>3. PICK n, H : n = Entry(p) /\ H = TreeHashes(V)
    OBVIOUS
  <1>4. n.type = trie_db[p].type /\ n.next = trie_db[p].next
    BY <1>3 DEF Entry
  <1>5. ASSUME NEW l \in Labels(d, p) PROVE SubtreeHash(d)[p \o l] \in H
    <2>1. p \o l \in Path /\ Through(d, p \o l) # {}
      BY <1>1, Arc DEF ArcOf
    <2> QED BY <1>3, <2>1, HashForm
  <1>6. n.next = [l \in Labels(d, p) |-> SubtreeHash(d)[p \o l]] /\ n.next \in [Labels(d, p) -> H]
    BY <1>1, <1>4, <1>5
  <1>7. CASE Branches(d, p)
    <2>1. n.type = "Binary" /\ Labels(d, p) = Directions
      BY <1>1, <1>4, <1>7 DEF Labels
    <2>2. IsProofNode(n, H)
      BY <1>6, <2>1 DEF IsProofNode
    <2>3. ASSUME NEW b \in Bit PROVE n.next[<<b>>] = SubtreeHash(d)[Append(p, b)]
      <3>1. <<b>> \in Labels(d, p) /\ p \o <<b>> = Append(p, b)
        BY <1>2, <2>1, DirectionIs, AppendPath
      <3>2. PICK x : x = <<b>>
        OBVIOUS
      <3>3. n.next[x] = SubtreeHash(d)[p \o x]
        BY <1>6, <3>1, <3>2
      <3> QED BY <3>1, <3>2, <3>3
    <2>4. n.next[<<0>>] = SubtreeHash(d)[Append(p, 0)] /\ n.next[<<1>>] = SubtreeHash(d)[Append(p, 1)]
      BY <2>3 DEF Bit
    <2>5. NodeHash(n, n.next) = hash_binary_node(n.next[<<0>>], n.next[<<1>>])
      BY <2>1 DEF NodeHash, IsBinary
    <2>6. SubtreeHash(d)[p] = hash_binary_node(SubtreeHash(d)[Append(p, 0)], SubtreeHash(d)[Append(p, 1)])
      BY <1>2, <1>7, HashForm
    <2>7. NodeHash(n, n.next) = SubtreeHash(d)[p]
      BY <2>4, <2>5, <2>6, Zenon
    <2> QED BY <1>3, <2>2, <2>7
  <1>8. CASE ~Branches(d, p)
    <2>1. PICK l : l = SharedPath(d, p)
      OBVIOUS
    <2>2. n.type = "Edge" /\ Labels(d, p) = {l}
      BY <1>1, <1>4, <1>8, <2>1 DEF Labels
    <2>3. l \in Path /\ SubtreeHash(d)[p] = hash_edge_node(l, SubtreeHash(d)[p \o l])
      BY <1>2, <1>8, <2>1, HashForm
    <2>4. IsProofNode(n, H)
      BY <1>6, <2>2, <2>3 DEF IsProofNode
    <2>5. DOMAIN n.next = {l} /\ n.next[l] = SubtreeHash(d)[p \o l]
      BY <1>6, <2>2
    <2>6. EdgePath(n) = l /\ ~IsBinary(n)
      BY <2>2, <2>5 DEF EdgePath, IsBinary
    <2>7. NodeHash(n, n.next) = hash_edge_node(l, n.next[l])
      BY <2>6 DEF NodeHash
    <2>8. NodeHash(n, n.next) = SubtreeHash(d)[p]
      BY <2>3, <2>5, <2>7, Zenon
    <2> QED BY <1>3, <2>4, <2>8
  <1> QED BY <1>7, <1>8

\* What verify_proof returns for a key of a finished proof.
ProvedValue(d, k) == VerifyProof(proof, root_hash, k) = [status |-> "Ok", value |-> ValueIn(d, k)]

\* A finished proof of a tree without pending changes verifies against the
\* root hash for each key it was asked for (get_multi_proof and verify_proof
\* of trie/proof.rs), and the value is the leaf of the committed trie.
ProofsShowTrie ==
    pc = "Proved" /\ NoPendingChanges /\ root_node = "Loaded" =>
        \A i \in 1..Len(keys) : ProvedValue(Leaves(trie_db), keys[i])

LEMMA ProofShows ==
  ASSUME SelfDelimiting(Values), NEW m, NEW d, ProofHolds(m, d), ClientLeaves(m, d), CleanInv, ContentInv,
         pc = "Proved", NoPendingChanges, root_node = "Loaded", NEW i \in 1..Len(keys)
  PROVE  ProvedValue(d, keys[i]) /\ InDb(d) /\ keys[i] \in Key
  <1>1. Rests(m, d) /\ CoreInv /\ RootKnown /\ InDb(d) /\ Mirrors
    BY DEF ProofHolds, InProof, Rests, CleanInv
  <1>2. Contents /\ done = Len(keys)
    BY DEF ContentInv, InProof
  <1>3. PICK k : k = keys[i]
    OBVIOUS
  <1>4. k \in Key /\ ShownTo(k)
    BY <1>2, <1>3 DEF Contents, KeysShown
  <1>5. d \in LeafMaps(Values)
    BY DEF ClientLeaves
  <1>6. HasNode(d, << >>) /\ root_hash = SubtreeHash(d)[<< >>]
    <2>1. nodes[<< >>] # NoNode
      BY <1>1 DEF RootKnown
    <2>2. nodes[<< >>].hash = trie_db[<< >>].hash /\ trie_db[<< >>] # NoNode
      BY <1>1, <2>1, RootInPath DEF Mirrors, Mirror
    <2>3. HasNode(d, << >>) /\ trie_db[<< >>].hash = SubtreeHash(d)[<< >>]
      BY <1>1, <2>2, RootInPath, RowIs
    <2>4. root_hash = nodes[<< >>].hash
      BY DEF root_hash
    <2> QED BY <2>2, <2>3, <2>4
  <1>7. ASSUME NEW h \in DOMAIN proof
        PROVE  IsProofNode(proof[h], TreeHashes(Values)) /\ NodeHash(proof[h], proof[h].next) = h
    <2>1. PICK p \in Path : trie_db[p] # NoNode /\ trie_db[p].hash = h /\ proof[h] = Entry(p)
      BY <1>2 DEF Contents, Entries
    <2>2. trie_db[p].hash = SubtreeHash(d)[p]
      BY <1>1, <2>1, RowIs
    <2>3. IsProofNode(Entry(p), TreeHashes(Values)) /\ NodeHash(Entry(p), Entry(p).next) = SubtreeHash(d)[p]
      BY <1>1, <1>5, <2>1, EntryIs
    <2> QED BY <2>1, <2>2, <2>3, Zenon
  <1>8. ProofNodes(proof, Values)
    BY <1>7 DEF ProofNodes
  <1>9. CoversWay(proof, d, k)
    <2> SUFFICES ASSUME NEW p \in Path, IsPrefixOf(p, k), HasNode(d, p)
                 PROVE  SubtreeHash(d)[p] \in DOMAIN proof
      BY <1>7 DEF CoversWay
    <2>1. trie_db[p] # NoNode
      BY <1>1, StoredIs DEF InDb
    <2>2. trie_db[p].hash = SubtreeHash(d)[p]
      BY <1>1, <2>1, RowIs
    <2> QED BY <1>4, <2>1, <2>2 DEF ShownTo, Shown
  <1>10. PICK S : S = {"Walking", "Ok"}
    OBVIOUS
  <1>11. PICK r : /\ VerifyProof(proof, SubtreeHash(d)[<< >>], k) = ResultOf(r)
                  /\ r.status \in S \ {"Walking"} /\ (r.status = "Ok" => r.felt = ValueIn(d, k))
    <2>1. {"Walking", "Ok"} \subseteq S
      BY <1>10
    <2> QED BY <1>4, <1>5, <1>6, <1>8, <1>9, <2>1, VerifyWalk
  <1>12. r.status = "Ok" /\ r.felt = ValueIn(d, k)
    BY <1>10, <1>11
  <1>13. ResultOf(r) = [status |-> "Ok", value |-> ValueIn(d, k)]
    BY <1>12 DEF ResultOf
  <1>14. VerifyProof(proof, root_hash, k) = [status |-> "Ok", value |-> ValueIn(d, k)]
    BY <1>6, <1>11, <1>13, Zenon
  <1> QED BY <1>1, <1>3, <1>4, <1>14 DEF ProvedValue

(***************************************************************************)
(* The leaf map, with proofs between the other calls                       *)
(***************************************************************************)
LEMMA ProofLeaves ==
  ASSUME NEW m, NEW d
  PROVE  ProofHolds(m, d) => LeavesAre(m, d) /\ m \in [Key -> Felt \cup {None}]
  <1> SUFFICES ASSUME ProofHolds(m, d) PROVE LeavesAre(m, d) /\ m \in [Key -> Felt \cup {None}]
    OBVIOUS
  <1>1. CASE InProof
    <2>1. CoreInv /\ InTree(m) /\ trie_db = StoredTrie(d)
      BY <1>1 DEF ProofHolds, Rests, InDb
    <2>2. \A k \in Keys : LeafIn(trie_db, k) = d[k] /\ LeafIn(View, k) = m[k]
      BY <2>1, KeysAssumption, LeavesOfStored, CoreLeaves
    <2> QED BY <2>1, <2>2 DEF LeavesAre, Committed, Uncommitted, OnKeys, InTree
  <1>2. CASE ~InProof
    <2>1. Holds(m, d)
      BY <1>2 DEF ProofHolds
    <2> QED BY <2>1, LeafMapIs DEF Holds, InTree
  <1> QED BY <1>1, <1>2

LEMMA ProofLeavesNext ==
  ASSUME NEW m, NEW d
  PROVE  ProofHolds(m, d)' => LeavesAre(m, d)'
  <1>1. ProofHolds(m, d) => LeavesAre(m, d)
    BY ProofLeaves
  <1> QED BY <1>1, PTL

LEMMA ProofLeafMapStep ==
  ASSUME "remove" \notin ReadErrors, ProofInv, [ProofNext]_all_vars
  PROVE  [LeafMapOfTrie!Next]_(LeafMapOfTrie!map_vars)
  <1>1. PICK m, d : ProofHolds(m, d)
    BY DEF ProofInv
  <1>2. PICK m2, d2 : ProofHolds(m2, d2)' /\ Moves(m, d, m2, d2)
    BY <1>1, ProofNextHolds
  <1>3. LeavesAre(m, d) /\ m \in [Key -> Felt \cup {None}]
    BY <1>1, ProofLeaves
  <1>4. LeavesAre(m2, d2)'
    BY <1>2, ProofLeavesNext
  <1> QED BY <1>2, <1>3, <1>4, LeafMapMoves, LeafMapNext

\* A step of a proof is none of LeafMap.
LEMMA ProofChangesNoLeaf ==
  ASSUME ProofInv, ProofStep \/ \E ks \in KeySequences : GetMultiProof(ks)
  PROVE  UNCHANGED LeafMapOfTrie!map_vars
  <1>1. PICK m, d : ProofHolds(m, d)
    BY DEF ProofInv
  <1>2. ProofHolds(m, d)' /\ AbstractCall' = AbstractCall
    BY <1>1, ProofStepHolds, ProofIsNoCall
  <1>3. LeavesAre(m, d) /\ LeavesAre(m, d)'
    BY <1>1, <1>2, ProofLeaves, ProofLeavesNext
  <1>4. Committed' = Committed /\ Uncommitted' = Uncommitted
    BY <1>3 DEF LeavesAre, OnKeys
  <1> QED BY <1>2, <1>4 DEF LeafMapOfTrie!map_vars, Committed, Uncommitted

(***************************************************************************)
(* The theorems                                                            *)
(***************************************************************************)
\* If removals can read every node, the nodes the iterator keeps from one key
\* to the next are in memory, and each leads to the next along its path, for
\* any list of keys in any order: traverse_to of trie/iterator.rs cuts the list
\* of heights and the path at the same node, and never resumes at a slot that
\* is not there.
THEOREM IteratorStaysOnPath == "remove" \notin ReadErrors => (ProofSpec => []IteratorOnPath)
  <1> SUFFICES ASSUME "remove" \notin ReadErrors PROVE ProofSpec => []IteratorOnPath
    OBVIOUS
  <1>0. ProofInv /\ [ProofNext]_all_vars => ProofInv'
    BY ProofNextInv
  <1>1. ProofInv => IteratorOnPath
    <2> SUFFICES ASSUME ProofInv, pc \in {"ProofKey", "ProofVisit", "ProofDescend"} PROVE IteratorOnPath
      BY DEF IteratorOnPath
    <2>1. PICK m, d : ProofHolds(m, d)
      BY DEF ProofInv
    <2>2. ProofAt(m)
      BY <2>1 DEF ProofHolds, InProof
    <2>3. Walked(current_nodes_heights, current_path)
      BY <2>2 DEF ProofAt, BetweenKeys, OnTheWay
    <2> QED BY <2>3, OnPath
  <1> QED BY <1>0, <1>1, ProofInitInv, PTL DEF ProofSpec

\* Under the same hypothesis, the leaf_hash of the iterator after each key is
\* the leaf a fresh traversal of the tree finds, and none where the key has
\* none, whatever the keys before it left the iterator at (traverse_to and
\* traverse_one of trie/iterator.rs, called by get_multi_proof of
\* trie/proof.rs).
THEOREM SeeksTheLeafCorrect == "remove" \notin ReadErrors => (ProofSpec => []SeeksTheLeaf)
  <1> SUFFICES ASSUME "remove" \notin ReadErrors PROVE ProofSpec => []SeeksTheLeaf
    OBVIOUS
  <1>0. ProofInv /\ [ProofNext]_all_vars => ProofInv'
    BY ProofNextInv
  <1>1. ProofInv => SeeksTheLeaf
    <2> SUFFICES ASSUME ProofInv, pc = "ProofKey", done > 0 PROVE leaf_hash = LeafIn(View, keys[done])
      BY DEF SeeksTheLeaf
    <2>1. PICK m, d : ProofHolds(m, d)
      BY DEF ProofInv
    <2>2. ProofAt(m) /\ Rests(m, d)
      BY <2>1 DEF ProofHolds, InProof
    <2>3. keys[done] \in Key /\ leaf_hash = m[keys[done]]
      BY <2>2 DEF ProofAt, BetweenKeys
    <2>4. CoreInv /\ InTree(m)
      BY <2>2 DEF Rests
    <2> QED BY <2>3, <2>4, CoreLeaves
  <1> QED BY <1>0, <1>1, ProofInitInv, PTL DEF ProofSpec

\* If removals can read every node, no call fails, a multi-proof or another,
\* however they follow each other: get_multi_proof never meets a slot or a row
\* that is not there, nor leaves one for set, remove or commit to meet
\* (visit_node of trie/proof.rs, traverse_one of trie/iterator.rs).
THEOREM ProofsNeverFail == "remove" \notin ReadErrors => (ProofSpec => []NoFailure)
  <1> SUFFICES ASSUME "remove" \notin ReadErrors PROVE ProofSpec => []NoFailure
    OBVIOUS
  <1>0. ProofInv /\ [ProofNext]_all_vars => ProofInv'
    BY ProofNextInv
  <1>1. ProofInv => NoFailure
    <2> SUFFICES ASSUME ProofInv PROVE NoFailure
      OBVIOUS
    <2>1. PICK m, d : ProofHolds(m, d)
      BY DEF ProofInv
    <2> QED BY <2>1 DEF ProofHolds, Rests, Holds, ShapeInv, NoFailure
  <1> QED BY <1>0, <1>1, ProofInitInv, PTL DEF ProofSpec

\* Likewise, the hashes a multi-proof caches in the nodes of a tree, which may
\* be out of date when the next commit comes, never reach the database: each
\* commit still leaves the one Merkle-Patricia trie of its leaves
\* (get_or_compute_node_hash and compute_hashes of trie/tree.rs).
THEOREM CommitsAfterProofs == "remove" \notin ReadErrors => (ProofSpec => []CommittedTrieIsCanonical)
  <1> SUFFICES ASSUME "remove" \notin ReadErrors PROVE ProofSpec => []CommittedTrieIsCanonical
    OBVIOUS
  <1>0. ProofInv /\ [ProofNext]_all_vars => ProofInv'
    BY ProofNextInv
  <1>1. ProofInv => CommittedTrieIsCanonical
    <2> SUFFICES ASSUME ProofInv PROVE trie_db = StoredTrie(Leaves(trie_db))
      BY DEF CommittedTrieIsCanonical
    <2>1. PICK m, d : ProofHolds(m, d)
      BY DEF ProofInv
    <2>2. d \in [Key -> Felt \cup {None}] /\ trie_db = StoredTrie(d)
      BY <2>1 DEF ProofHolds, Rests, Holds, InDb
    <2>3. \A k \in Key : LeafIn(trie_db, k) = d[k]
      BY <2>2, LeavesOfStored
    <2>4. Leaves(trie_db) = d
      BY <2>2, <2>3, FunctionIs DEF Leaves
    <2> QED BY <2>2, <2>4
  <1> QED BY <1>0, <1>1, ProofInitInv, PTL DEF ProofSpec

\* verify_proof never confirms a wrong value. The nodes of a proof may be of
\* this tree or of no tree at all, their children any subtrees of any trees
\* with leaves in V, and they may be missing or filed under the wrong hash: if
\* the walk from the root hash ends well, the value is the one the tree has
\* for the key, or zero where it has none (verify_proof of trie/proof.rs).
THEOREM VerifyIsSound ==
  ASSUME NEW V, SelfDelimiting(V), NEW m \in LeafMaps(V), HasNode(m, << >>), NEW k \in Key,
         NEW pf, ProofNodes(pf, V), VerifyProof(pf, SubtreeHash(m)[<< >>], k).status = "Ok"
  PROVE  VerifyProof(pf, SubtreeHash(m)[<< >>], k).value = ValueIn(m, k)
  <1>1. PICK S : S = {"Walking", "Ok"} \cup Endings
    OBVIOUS
  <1>2. PICK r : /\ VerifyProof(pf, SubtreeHash(m)[<< >>], k) = ResultOf(r)
                 /\ r.status = "Ok" => r.felt = ValueIn(m, k)
    <2>1. {"Walking", "Ok"} \subseteq S /\ Endings \subseteq S
      BY <1>1
    <2> QED BY <2>1, VerifyWalk
  <1>3. ResultOf(r).status = "Ok" /\ ResultOf(r).value = r.felt /\ ResultOf(r).status = r.status
    BY <1>2 DEF ResultOf
  <1> QED BY <1>2, <1>3

\* With any client, if removals can read every node: a proof of a tree without
\* pending changes verifies against its root hash, for every key it was asked
\* for, in any order and however often, and gives the leaf of the committed
\* trie, or zero (get_multi_proof and verify_proof of trie/proof.rs).
THEOREM ProofsShowTheTrie ==
  SelfDelimiting(Values) /\ "remove" \notin ReadErrors => (ProofSpec => []ProofsShowTrie)
  <1> SUFFICES ASSUME SelfDelimiting(Values), "remove" \notin ReadErrors
               PROVE  ProofSpec => []ProofsShowTrie
    OBVIOUS
  <1>0. VerifyInv /\ [ProofNext]_all_vars => VerifyInv'
    BY VerifyNext
  <1>1. VerifyInv => ProofsShowTrie
    <2> SUFFICES ASSUME VerifyInv, pc = "Proved", NoPendingChanges, root_node = "Loaded",
                        NEW i \in 1..Len(keys)
                 PROVE  ProvedValue(Leaves(trie_db), keys[i])
      BY DEF ProofsShowTrie
    <2>1. PICK m, d : ProofHolds(m, d) /\ ClientLeaves(m, d)
      BY DEF VerifyInv
    <2>2. ProvedValue(d, keys[i]) /\ InDb(d) /\ keys[i] \in Key
      BY <2>1, ProofShows DEF VerifyInv
    <2>3. Leaves(trie_db)[keys[i]] = d[keys[i]]
      BY <2>2, LeavesOfStored DEF InDb, Leaves
    <2> QED BY <2>2, <2>3 DEF ProvedValue, ValueIn
  <1> QED BY <1>0, <1>1, VerifyInit, PTL DEF ProofSpec

\* With a client that makes none of the rewrites of UnsafeRewrite, and if
\* removals can read every node, the value a proof gives is the one `get`
\* returns: whatever the order of the keys, and whatever nodes and hashes
\* earlier calls have left in memory (get_multi_proof and verify_proof of
\* trie/proof.rs).
THEOREM ProofsVerifyCorrect ==
  SafeRewrites /\ SelfDelimiting(Values) /\ "remove" \notin ReadErrors => (ProofSpec => []ProofsVerify)
  <1> SUFFICES ASSUME SafeRewrites, SelfDelimiting(Values), "remove" \notin ReadErrors
               PROVE  ProofSpec => []ProofsVerify
    OBVIOUS
  <1>0. VerifyInv /\ [ProofNext]_all_vars => VerifyInv'
    BY VerifyNext
  <1>1. VerifyInv => ProofsVerify
    <2> SUFFICES ASSUME VerifyInv, pc = "Proved", NoPendingChanges, root_node = "Loaded",
                        NEW i \in 1..Len(keys)
                 PROVE  Proves(keys[i])
      BY DEF ProofsVerify
    <2>1. PICK m, d : ProofHolds(m, d) /\ ClientLeaves(m, d)
      BY DEF VerifyInv
    <2>2. ProvedValue(d, keys[i]) /\ InDb(d) /\ keys[i] \in Key
      BY <2>1, ProofShows DEF VerifyInv
    <2>3. d[keys[i]] = get(keys[i])
      BY <2>2, GetNone DEF InDb, NoPendingChanges
    <2> QED BY <2>2, <2>3 DEF ProvedValue, ValueIn, Proves, ValueOrZero
  <1> QED BY <1>0, <1>1, VerifyInit, PTL DEF ProofSpec

\* If removals can read every node, a tree that proofs are taken of between
\* the other calls still implements LeafMap: whatever nodes a proof has loaded
\* and hashed, or has left loaded when it failed, each later insert, remove
\* and commit changes the leaves it should and no other (get_multi_proof of
\* trie/proof.rs, next to insert, remove and commit of lib.rs).
THEOREM ProofsKeepTheLeafMap == "remove" \notin ReadErrors => (ProofSpec => ImplementsLeafMap)
  <1> SUFFICES ASSUME "remove" \notin ReadErrors PROVE ProofSpec => ImplementsLeafMap
    OBVIOUS
  <1>1. ProofInit => LeafMapOfTrie!Init
    BY InitLeafMap DEF ProofInit
  <1>2. ProofInv /\ [ProofNext]_all_vars => ProofInv'
    BY ProofNextInv
  <1>3. ProofInv /\ [ProofNext]_all_vars => [LeafMapOfTrie!Next]_(LeafMapOfTrie!map_vars)
    BY ProofLeafMapStep
  <1> QED BY <1>1, <1>2, <1>3, ProofInitInv, PTL DEF ProofSpec, ImplementsLeafMap, LeafMapOfTrie!Spec

\* If removals can read every node, no step of a multi-proof changes a leaf,
\* committed or pending, whether the proof returns, meets a key of the wrong
\* length or fails to read a node (get_multi_proof and visit_node of
\* trie/proof.rs, traverse_to of trie/iterator.rs).
THEOREM ProofsChangeNoLeafCorrect == "remove" \notin ReadErrors => (ProofSpec => ProofsChangeNoLeaf)
  <1> SUFFICES ASSUME "remove" \notin ReadErrors PROVE ProofSpec => ProofsChangeNoLeaf
    OBVIOUS
  <1>1. ProofInv /\ [ProofNext]_all_vars => ProofInv'
    BY ProofNextInv
  <1>2. ProofInv /\ [ProofNext]_all_vars =>
          [(\E ks \in KeySequences : GetMultiProof(ks)) \/ ProofStep =>
              UNCHANGED LeafMapOfTrie!map_vars]_all_vars
    BY ProofChangesNoLeaf
  <1> QED BY <1>1, <1>2, ProofInitInv, PTL DEF ProofSpec, ProofsChangeNoLeaf
=============================================================================
