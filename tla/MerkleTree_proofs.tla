-------------------------- MODULE MerkleTree_proofs --------------------------
(***************************************************************************)
(* Proofs about MerkleTree, for every height, every set of keys and values *)
(* and any client.                                                         *)
(***************************************************************************)
EXTENDS MerkleTree, CanonicalTrie_proofs

USE MaxHeightAssumption, OptionAssumption

(***************************************************************************)
(* Paths                                                                   *)
(***************************************************************************)
LEMMA DropLast ==
  ASSUME NEW S, NEW s \in Seq(S), Len(s) >= 1
  PROVE  LET t == First(s, Len(s) - 1)
         IN  /\ t \in Seq(S) /\ Len(t) + 1 = Len(s)
             /\ \A i \in 1..Len(t) : t[i] = s[i]
  <1>1. ASSUME NEW n \in 0..Len(s)
        PROVE  /\ First(s, n) \in Seq(S) /\ Len(First(s, n)) = n
               /\ \A i \in 1..n : First(s, n)[i] = s[i]
    BY DEF First
  <1>2. PICK n \in 0..Len(s) : n + 1 = Len(s) /\ n = Len(s) - 1
    <2>1. Len(s) - 1 \in 0..Len(s) /\ (Len(s) - 1) + 1 = Len(s)
      OBVIOUS
    <2> QED BY <2>1
  <1> QED BY <1>1, <1>2

LEMMA FirstOfKey ==
  ASSUME NEW k \in Key, NEW n \in 0..MaxHeight
  PROVE  First(k, n) \in Path /\ Len(First(k, n)) = n
  BY FirstSeq, KeySeq, PathSeq

LEMMA BitsInDirections == \A b \in Bit : <<b>> \in Directions /\ Invert(b) \in Bit
  BY DEF Bit, Directions, Invert

LEMMA DirectionSeq == \A d \in Directions : d \in Seq(Bit) /\ Len(d) = 1
  <1>1. <<0>> \in Seq(Bit) /\ Len(<<0>>) = 1 /\ <<1>> \in Seq(Bit) /\ Len(<<1>>) = 1
    BY DEF Bit
  <1> QED BY <1>1 DEF Directions

(***************************************************************************)
(* Nodes                                                                   *)
(***************************************************************************)
LEMMA EdgeLabel ==
  ASSUME NEW n, NEW p \in Path, IsNodeAt(n, p), IsEdge(n)
  PROVE  /\ EdgePath(n) \in Path /\ EdgePath(n) # << >>
         /\ EdgePath(n) \in DOMAIN n.next
         /\ p \o EdgePath(n) \in Path
         /\ EdgeChild(n) \in NodeHandle
  <1>1. PICK l \in Path \ {<< >>} : DOMAIN n.next = {l}
    BY DEF IsNodeAt, IsEdge, IsBinary
  <1>2. EdgePath(n) = l
    BY <1>1 DEF EdgePath
  <1> QED BY <1>1, <1>2 DEF IsNodeAt, EdgeChild

LEMMA BinaryLabels ==
  ASSUME NEW n, NEW p \in Path, IsNodeAt(n, p), IsBinary(n)
  PROVE  DOMAIN n.next = Directions
  BY DEF IsNodeAt, IsEdge, IsBinary

LEMMA NewEdge ==
  ASSUME NEW p \in Path, NEW l \in Path, l # << >>, p \o l \in Path,
         NEW hash \in Felt \cup {None}, NEW child \in NodeHandle
  PROVE  IsNodeAt(EdgeNode(hash, Len(p), l, child), p)
  BY DEF IsNodeAt, EdgeNode, IsEdge, IsBinary

LEMMA NewBinary ==
  ASSUME NEW p \in Path, Len(p) < MaxHeight, NEW next \in [Directions -> NodeHandle]
  PROVE  IsNodeAt(BinaryNode(None, Len(p), next), p)
  <1>1. ASSUME NEW l \in Directions PROVE p \o l \in Path
    <2>1. l \in Seq(Bit) /\ Len(l) = 1
      BY DirectionSeq
    <2>2. p \in Seq(Bit) /\ Len(p) + 1 <= MaxHeight
      BY PathSeq
    <2> QED BY <2>1, <2>2, PathConcat
  <1> QED BY <1>1 DEF IsNodeAt, BinaryNode, IsBinary, IsEdge

\* Replacing a handle changes neither the kind of a node nor its arcs.
LEMMA WithChildNode ==
  ASSUME NEW n, NEW p \in Path, IsNodeAt(n, p), NEW l \in DOMAIN n.next,
         NEW handle \in NodeHandle
  PROVE  /\ IsNodeAt(WithChild(n, l, handle), p)
         /\ IsEdge(WithChild(n, l, handle)) = IsEdge(n)
         /\ IsBinary(WithChild(n, l, handle)) = IsBinary(n)
         /\ EdgePath(WithChild(n, l, handle)) = EdgePath(n)
  <1>1. DOMAIN WithChild(n, l, handle).next = DOMAIN n.next
    BY DEF WithChild
  <1>2. \A m \in DOMAIN n.next : WithChild(n, l, handle).next[m] \in NodeHandle
    BY DEF WithChild, IsNodeAt
  <1>3. /\ WithChild(n, l, handle).type = n.type
        /\ WithChild(n, l, handle).height = n.height
        /\ WithChild(n, l, handle).hash = n.hash
    BY DEF WithChild
  <1> QED BY <1>1, <1>2, <1>3 DEF IsNodeAt, IsEdge, IsBinary, EdgePath

\* What is at a path of a map of nodes and is a node.
LEMMA NodeInMap ==
  ASSUME NEW f, NEW p \in Path, IsNodeMap(f, {NoNode}), f[p] # NoNode
  PROVE  IsNodeAt(f[p], p)
  BY DEF IsNodeMap

LEMMA EdgeOrBinaryInMap ==
  ASSUME NEW f, NEW p \in Path, IsNodeMap(f, {NoNode}), IsEdge(f[p]) \/ IsBinary(f[p])
  PROVE  IsNodeAt(f[p], p)
  BY DEF IsNodeMap, IsEdge, IsBinary, NoNode

LEMMA CommonLengthIs ==
  ASSUME NEW path \in Seq(Bit), NEW key, NEW height
  PROVE  /\ CommonLength(path, key, height) \in 0..Len(path)
         /\ \A i \in 1..CommonLength(path, key, height) : BitMatches(path, key, height, i)
         /\ ~BitMatches(path, key, height, CommonLength(path, key, height) + 1)
  <1> DEFINE S == {n \in Nat : ~BitMatches(path, key, height, n + 1)}
  <1>1. Len(path) \in S
    BY DEF BitMatches
  <1>2. PICK m \in S : \A n \in S : m <= n
    BY <1>1, NatMin
  <1>3. m \in 0..Len(path) /\ ~BitMatches(path, key, height, m + 1)
    BY <1>1, <1>2
  <1>4. ASSUME NEW i \in 1..m PROVE BitMatches(path, key, height, i)
    <2>1. i - 1 \in Nat /\ (i - 1) + 1 = i /\ ~(m <= i - 1)
      BY <1>3
    <2>2. i - 1 \notin S
      BY <2>1, <1>2
    <2> QED BY <2>1, <2>2
  <1> QED BY <1>3, <1>4 DEF CommonLength

(***************************************************************************)
(* The types, and the iterator on the key they depend on, form an          *)
(* inductive invariant.                                                    *)
(***************************************************************************)
TInv == TypeOK /\ IteratorOnKey

LEMMA EmptyTypes ==
  /\ NoArgs \in [key : Key, value : Felt]
  /\ IsNodeMap(NoNodes, {NoNode})
  /\ IsNodeMap(NoUpdates, {NoNode, NoChange})
  /\ NoHashes \in [Path -> Seq(Felt)]
  /\ NoLeaves \in [Key -> Felt \cup {None}]
  /\ NoLeaves \in [Key -> Felt \cup {None, Remove}]
  <1>1. NoArgs \in [key : Key, value : Felt]
    BY DEF NoArgs, Key, Bit, ZERO, Felt
  <1>2. NoHashes \in [Path -> Seq(Felt)]
    BY DEF NoHashes
  <1>3. /\ NoLeaves \in [Key -> Felt \cup {None}]
        /\ NoLeaves \in [Key -> Felt \cup {None, Remove}]
    BY DEF NoLeaves
  <1>4. /\ IsNodeMap(NoNodes, {NoNode})
        /\ IsNodeMap(NoUpdates, {NoNode, NoChange})
    BY DEF IsNodeMap, NoNodes, NoUpdates
  <1> QED BY <1>1, <1>2, <1>3, <1>4

\* An iterator that has not started, or is done with.
LEMMA IteratorAtRest ==
  ASSUME pc \notin {"Traverse", "Finish"},
         current_path = << >>, current_nodes_heights = << >>
  PROVE  /\ IteratorOnKey
         /\ current_path \in Path
         /\ current_nodes_heights \in Seq(0..(MaxHeight - 1))
  BY RootInPath DEF IteratorOnKey

LEMMA InitTInv == Init => TInv
  <1> SUFFICES ASSUME Init PROVE TInv
    OBVIOUS
  <1>1. pc = "Idle" /\ current_path = << >> /\ current_nodes_heights = << >>
    BY DEF Init
  <1> QED BY <1>1, IteratorAtRest, EmptyTypes DEF Init, TInv, TypeOK

LEMMA GetType ==
  ASSUME TypeOK
  PROVE  \A k \in Key : get(k) \in Felt \cup {None}
  BY DEF TypeOK, get

LEMMA DbNodeType ==
  ASSUME TypeOK, NEW p \in Path
  PROVE  DbNode(p) = NoNode \/ IsNodeAt(DbNode(p), p)
  BY DEF TypeOK, IsNodeMap, DbNode

\* The steps that begin a call; a deletion has no value.
LEMMA StartTInv ==
  ASSUME TInv, NEW key \in Keys, NEW value \in Felt,
         \/ SetCached(key, value) \/ SetSame(key, value) \/ SetSeek(key, value)
         \/ DeleteAbsent(key) \/ DeleteSeek(key)
  PROVE  TInv'
  <1>1. key \in Key /\ value \in Felt /\ ZERO \in Felt
    BY KeysAssumption DEF ZERO, Felt
  <1>2. pc = "Idle" /\ current_path = << >> /\ current_nodes_heights = << >>
    BY DEF TInv, IteratorOnKey, SetCached, SetSame, SetSeek, DeleteAbsent, DeleteSeek,
           StartSet, StartDelete
  <1>3. pc' \in {"Idle", "LoadRoot"} /\ current_path' = << >> /\ current_nodes_heights' = << >>
    BY <1>2 DEF SetCached, SetSame, SetSeek, DeleteAbsent, DeleteSeek, Seek, iter
  <1>4. IteratorOnKey' /\ (current_path \in Path)'
        /\ (current_nodes_heights \in Seq(0..(MaxHeight - 1)))'
    BY <1>3, IteratorAtRest, RootInPath DEF IteratorOnKey
  <1>5. latest' \in [Key -> Felt \cup {None}]
    BY <1>1 DEF TInv, TypeOK, SetCached, SetSame, SetSeek, DeleteAbsent, DeleteSeek,
                StartSet, StartDelete
  <1>6. cache_leaf_modified' \in [Key -> Felt \cup {None, Remove}]
    BY <1>1 DEF TInv, TypeOK, SetCached, SetSame, SetSeek, DeleteAbsent, DeleteSeek, tree
  <1>7. args' \in [key : Key, value : Felt]
    BY <1>1 DEF TInv, TypeOK, SetCached, SetSame, SetSeek, DeleteAbsent, DeleteSeek, Seek, iter
  <1>8. UNCHANGED <<db, root_node, nodes, death_row, commit, failed>>
    BY DEF SetCached, SetSame, SetSeek, DeleteAbsent, DeleteSeek, Seek, tree
  <1> QED BY <1>3, <1>4, <1>5, <1>6, <1>7, <1>8 DEF TInv, TypeOK, db, commit

\* The steps that end a call and leave the iterator at rest.
LEMMA ReturnTypes ==
  ASSUME Return
  PROVE  /\ IteratorOnKey'
         /\ (current_path \in Path)'
         /\ (current_nodes_heights \in Seq(0..(MaxHeight - 1)))'
         /\ args' \in [key : Key, value : Felt]
         /\ pc' = "Idle"
  <1>1. pc' = "Idle" /\ current_path' = << >> /\ current_nodes_heights' = << >>
        /\ args' = NoArgs
    BY DEF Return
  <1> QED BY <1>1, RootInPath, EmptyTypes DEF IteratorOnKey

LEMMA FailTInv ==
  ASSUME TInv, FailFrame, UNCHANGED <<root_node, cache_leaf_modified>>,
         IsNodeMap(nodes', {NoNode}), death_row' \subseteq Path
  PROVE  TInv'
  <1>1. Return
    BY DEF FailFrame
  <1>2. latest' \in [Key -> Felt \cup {None}]
    BY GetType DEF TInv, FailFrame
  <1>3. failed' = TRUE /\ hashes' = NoHashes /\ updates' = NoUpdates
        /\ trie_db' = trie_db /\ flat_db' = flat_db
    BY DEF FailFrame, db
  <1> QED BY <1>1, <1>2, <1>3, ReturnTypes, EmptyTypes DEF TInv, TypeOK

LEMMA ReopenTInv ==
  ASSUME TInv, Reopen
  PROVE  TInv'
  <1>1. Return
    BY DEF Reopen
  <1>2. /\ root_node' = "None" /\ nodes' = NoNodes /\ death_row' = {}
        /\ cache_leaf_modified' = NoLeaves
        /\ hashes' = NoHashes /\ updates' = NoUpdates
        /\ latest' = flat_db /\ failed' = failed
        /\ trie_db' = trie_db /\ flat_db' = flat_db
    BY DEF Reopen, db
  <1> QED BY <1>1, <1>2, ReturnTypes, EmptyTypes DEF TInv, TypeOK

LEMMA CommitStartTInv ==
  ASSUME TInv, CommitStart
  PROVE  TInv'
  <1>1. pc = "Idle" /\ current_path = << >> /\ current_nodes_heights = << >>
    BY DEF TInv, IteratorOnKey, CommitStart
  <1>2. pc' \in {"Hash", "Write"} /\ current_path' = << >> /\ current_nodes_heights' = << >>
        /\ args' = args
    BY <1>1 DEF CommitStart, iter
  <1>3. IsNodeMap(updates', {NoNode, NoChange})
    BY DEF CommitStart, IsNodeMap
  <1>4. /\ death_row' = {}
        /\ UNCHANGED <<trie_db, flat_db, root_node, nodes, cache_leaf_modified, hashes,
                       failed, latest>>
    BY DEF CommitStart, db
  <1> QED BY <1>2, <1>3, <1>4, RootInPath DEF TInv, TypeOK, IteratorOnKey

LEMMA CommitWriteTInv ==
  ASSUME TInv, CommitWrite \/ CommitWriteFails
  PROVE  TInv'
  <1>1. pc = "Write" /\ current_path = << >> /\ current_nodes_heights = << >>
    BY DEF TInv, IteratorOnKey, CommitWrite, CommitWriteFails
  <1>2. ClearTree
    BY DEF CommitWrite, CommitWriteFails
  <1>3. pc' = "Idle" /\ current_path' = << >> /\ current_nodes_heights' = << >>
        /\ args' = args
    BY <1>1, <1>2 DEF ClearTree, iter
  <1>4. IsNodeMap(trie_db', {NoNode})
    BY DEF TInv, TypeOK, CommitWrite, CommitWriteFails, IsNodeMap, Written, db
  <1>5. flat_db' \in [Key -> Felt \cup {None}] /\ latest' \in [Key -> Felt \cup {None}]
    BY GetType DEF TInv, TypeOK, CommitWrite, CommitWriteFails, db
  <1>6. /\ root_node' = "None" /\ cache_leaf_modified' = NoLeaves
        /\ hashes' = NoHashes /\ updates' = NoUpdates
        /\ UNCHANGED <<nodes, death_row, failed>>
    BY <1>2 DEF ClearTree
  <1> QED BY <1>3, <1>4, <1>5, <1>6, RootInPath, EmptyTypes DEF TInv, TypeOK, IteratorOnKey

(***************************************************************************)
(* The traversal                                                           *)
(***************************************************************************)
LEMMA LoadRootTInv ==
  ASSUME TInv, LoadRootNode
  PROVE  TInv'
  <1>1. pc = "LoadRoot" /\ current_path = << >> /\ current_nodes_heights = << >>
    BY DEF TInv, IteratorOnKey, LoadRootNode
  <1>2. /\ current_path' = << >> /\ current_nodes_heights' = << >> /\ args' = args
        /\ UNCHANGED <<trie_db, flat_db, death_row, cache_leaf_modified, hashes, updates,
                       failed, latest>>
    BY <1>1 DEF LoadRootNode, iter, db, commit
  <1>3. pc' \in {"Traverse", "Finish"} /\ root_node' \in {"None", "Empty", "Loaded"}
    BY DEF LoadRootNode, TInv, TypeOK
  <1>4. IsNodeMap(nodes', {NoNode})
    <2>1. nodes' = nodes \/ nodes' = [nodes EXCEPT ![<< >>] = DbNode(<< >>)]
      BY DEF LoadRootNode
    <2>2. DbNode(<< >>) = NoNode \/ IsNodeAt(DbNode(<< >>), << >>)
      BY DbNodeType, RootInPath DEF TInv
    <2>3. IsNodeMap(nodes, {NoNode})
      BY DEF TInv, TypeOK
    <2> QED BY <2>1, <2>2, <2>3, RootInPath DEF IsNodeMap
  <1>5. IteratorOnKey'
    <2>1. Consecutive(<< >>)' /\ Consecutive(Append(<< >>, Len(<< >>)))'
      BY DEF Consecutive
    <2> QED BY <1>2, <1>3, <2>1 DEF IteratorOnKey
  <1> QED BY <1>2, <1>3, <1>4, <1>5, RootInPath DEF TInv, TypeOK

\* The node under the iterator, the arc it follows and where the arc leads.
LEMMA ArcOnKey ==
  ASSUME current_path \in Path, args.key \in Key, Len(current_path) < MaxHeight,
         \A i \in 1..Len(current_path) : current_path[i] = args.key[i],
         IsNodeAt(nodes[current_path], current_path)
  PROVE  LET n == nodes[current_path]
             l == NextLabel(n)
         IN  /\ l \in DOMAIN n.next /\ l \in Seq(Bit) /\ Len(l) >= 1
             /\ current_path \o l \in Path
             /\ Len(current_path \o l) = Len(current_path) + Len(l)
             /\ IsBinary(n) => Len(l) = 1
             /\ IsEdge(n) => l = EdgePath(n)
             /\ LabelMatches(n) =>
                  \A i \in 1..Len(current_path \o l) : (current_path \o l)[i] = args.key[i]
  <1> DEFINE n == nodes[current_path]
             l == NextLabel(n)
  <1>1. /\ current_path \in Path /\ current_path \in Seq(Bit)
        /\ args.key \in Key /\ args.key \in Seq(Bit) /\ Len(args.key) = MaxHeight
        /\ Len(current_path) \in 0..(MaxHeight - 1)
        /\ \A i \in 1..Len(current_path) : current_path[i] = args.key[i]
    BY PathSeq, KeySeq
  <1>2. IsNodeAt(n, current_path)
    OBVIOUS
  <1>3. CASE IsBinary(n)
    <2>1. l = <<args.key[Len(current_path) + 1]>> /\ ~IsEdge(n)
      BY <1>3 DEF NextLabel, IsBinary, IsEdge
    <2>2. args.key[Len(current_path) + 1] \in Bit
      BY <1>1
    <2>3. l \in Directions /\ l \in Seq(Bit) /\ Len(l) = 1
          /\ l[1] = args.key[Len(current_path) + 1]
      BY <2>1, <2>2, BitsInDirections, DirectionSeq
    <2>4. l \in DOMAIN n.next
      BY <2>3, <1>1, <1>2, <1>3, BinaryLabels
    <2>5. /\ Len(current_path \o l) = Len(current_path) + 1 /\ current_path \o l \in Path
      <3> HIDE DEF l
      <3>1. /\ current_path \o l \in Seq(Bit)
            /\ Len(current_path \o l) = Len(current_path) + Len(l)
        BY <1>1, <2>3, ConcatSeq
      <3>2. Len(current_path \o l) <= MaxHeight
        BY <1>1, <2>3, <3>1
      <3> QED BY <2>3, <3>1, <3>2, PathSeq
    <2>6. ASSUME NEW i \in 1..Len(current_path \o l)
          PROVE  (current_path \o l)[i] = args.key[i]
      <3>1. CASE i <= Len(current_path)
        BY <1>1, <2>3, <2>5, <3>1, ConcatSeq
      <3>2. CASE i = Len(current_path) + 1
        BY <1>1, <2>3, <2>5, <3>2, ConcatSeq
      <3> QED BY <1>1, <2>5, <3>1, <3>2
    <2> QED BY <1>2, <1>3, <2>1, <2>3, <2>4, <2>5, <2>6
  <1>4. CASE ~IsBinary(n)
    <2>1. IsEdge(n) /\ l = EdgePath(n)
      BY <1>2, <1>4 DEF IsNodeAt, NextLabel
    <2>2. /\ l \in Path /\ l # << >> /\ l \in DOMAIN n.next /\ current_path \o l \in Path
      BY <1>1, <1>2, <2>1, EdgeLabel
    <2>3. l \in Seq(Bit) /\ Len(l) >= 1
      BY <2>2, PathSeq
    <2>4. Len(current_path \o l) = Len(current_path) + Len(l)
          /\ Len(current_path \o l) <= MaxHeight
      BY <1>1, <2>2, <2>3, ConcatSeq, PathSeq
    <2>5. ASSUME LabelMatches(n), NEW i \in 1..Len(current_path \o l)
          PROVE  (current_path \o l)[i] = args.key[i]
      <3>1. CASE i <= Len(current_path)
        BY <1>1, <2>3, <2>4, <3>1, ConcatSeq
      <3>2. CASE i > Len(current_path)
        <4> DEFINE j == i - Len(current_path)
        <4>1. j \in 1..Len(l) /\ i = Len(current_path) + j
          BY <1>1, <2>3, <2>4, <3>2
        <4> HIDE DEF j
        <4>2. l[j] = args.key[i]
          BY <1>1, <1>4, <2>1, <2>3, <2>4, <2>5, <4>1 DEF LabelMatches, PathMatches, BitMatches
        <4> QED BY <1>1, <2>3, <4>1, <4>2, ConcatSeq
      <3> QED BY <1>1, <2>4, <3>1, <3>2
    <2> QED BY <1>2, <1>4, <2>1, <2>2, <2>3, <2>4, <2>5
  <1> QED BY <1>3, <1>4

LEMMA NextArc ==
  ASSUME TInv, pc = "Traverse", ~BadNode(nodes[current_path])
  PROVE  LET n == nodes[current_path]
             l == NextLabel(n)
         IN  /\ IsNodeAt(n, current_path)
             /\ l \in DOMAIN n.next /\ l \in Seq(Bit) /\ Len(l) >= 1
             /\ current_path \o l \in Path
             /\ Len(current_path \o l) = Len(current_path) + Len(l)
             /\ IsBinary(n) => Len(l) = 1
             /\ IsEdge(n) => l = EdgePath(n)
             /\ LabelMatches(n) =>
                  \A i \in 1..Len(current_path \o l) : (current_path \o l)[i] = args.key[i]
  <1>1. IsNodeAt(nodes[current_path], current_path)
    BY NodeInMap DEF TInv, TypeOK, BadNode
  <1> QED BY <1>1, ArcOnKey DEF TInv, TypeOK, IteratorOnKey

LEMMA AppendHeight ==
  ASSUME NEW S \in SUBSET Nat, NEW hs \in Seq(S), NEW h \in S
  PROVE  /\ Append(hs, h) \in Seq(S) /\ Len(Append(hs, h)) = Len(hs) + 1
         /\ \A i \in 1..Len(hs) : Append(hs, h)[i] = hs[i]
         /\ Append(hs, h)[Len(hs) + 1] = h
  OBVIOUS

\* A height above the last one keeps the heights increasing.
LEMMA AppendIncreasing ==
  ASSUME NEW hs \in Seq(Nat), NEW h \in Nat,
         \A i, j \in 1..Len(hs) : i < j => hs[i] < hs[j],
         \A i \in 1..Len(hs) : hs[i] < h
  PROVE  LET new == Append(hs, h)
         IN  \A i, j \in 1..Len(new) : i < j => new[i] < new[j]
  OBVIOUS

LEMMA TraverseTInv ==
  ASSUME TInv, TraverseOne
  PROVE  TInv'
  <1> DEFINE n == nodes[current_path]
             l == NextLabel(n)
             hs == current_nodes_heights
             h == Len(current_path)
  <1>1. CASE TraversalBroken(n)
    <2>1. Fail
      BY <1>1 DEF TraverseOne
    <2>2. FailFrame /\ UNCHANGED <<root_node, nodes, death_row, cache_leaf_modified>>
      BY <2>1 DEF Fail, tree
    <2> QED BY <2>2, FailTInv DEF TInv, TypeOK
  <1>2. CASE ~TraversalBroken(n)
    <2>1. pc = "Traverse" /\ Advance(n) /\ ~BadNode(n)
      BY <1>2 DEF TraverseOne, TraversalBroken
    <2>2. /\ IsNodeAt(n, current_path)
          /\ l \in DOMAIN n.next /\ l \in Seq(Bit) /\ Len(l) >= 1
          /\ current_path \o l \in Path
          /\ Len(current_path \o l) = h + Len(l)
          /\ IsBinary(n) => Len(l) = 1
          /\ IsEdge(n) => l = EdgePath(n)
          /\ LabelMatches(n) =>
               \A i \in 1..Len(current_path \o l) : (current_path \o l)[i] = args.key[i]
      BY <2>1, NextArc
    <2>3. /\ current_path \in Path /\ current_path \in Seq(Bit)
          /\ args.key \in Key /\ args.key \in Seq(Bit) /\ Len(args.key) = MaxHeight
          /\ h \in 0..(MaxHeight - 1)
          /\ \A i \in 1..h : current_path[i] = args.key[i]
          /\ hs \in Seq(0..(MaxHeight - 1))
          /\ Consecutive(Append(hs, h))
      BY <2>1, PathSeq, KeySeq DEF TInv, TypeOK, IteratorOnKey
    <2>4. First(args.key, h) = current_path
      <3>1. First(args.key, h) \in Seq(Bit) /\ Len(First(args.key, h)) = h
            /\ \A i \in 1..h : First(args.key, h)[i] = args.key[i]
        BY <2>3, FirstSeq, h \in 0..Len(args.key)
      <3> QED BY <2>3, <3>1, SameSeq
    <2>5. /\ current_nodes_heights' = Append(hs, h)
          /\ current_path' = current_path \o l
          /\ args' = args
          /\ UNCHANGED <<trie_db, flat_db, root_node, death_row, cache_leaf_modified,
                         hashes, updates, failed, latest>>
      BY <2>1 DEF Advance, db, commit
    <2>6. current_nodes_heights' \in Seq(0..(MaxHeight - 1)) /\ current_path' \in Path
      BY <2>2, <2>3, <2>5
    <2>7. CASE EndOfTraversal(n)
      <3>1. pc' = "Finish" /\ nodes' = nodes
        BY <2>1, <2>7 DEF Advance
      <3>2. Consecutive(current_nodes_heights)'
        BY <2>3, <2>5, <3>1 DEF Consecutive, NodeAtHeight
      <3>3. LastHeight' = h /\ LastNode' = n
        <4>1. LastHeight' = h
          BY <2>3, <2>5 DEF LastHeight
        <4> QED BY <2>4, <2>5, <3>1, <4>1 DEF LastNode, LastPath
      <3>4. ASSUME IsBinary(n) PROVE h + 1 = MaxHeight
        <4>1. Len(l) = 1
          BY <2>2, <3>4
        <4>2. h + Len(l) >= MaxHeight
          BY <2>2, <2>7, <3>4 DEF EndOfTraversal, LabelMatches
        <4>3. h \in 0..(MaxHeight - 1)
          BY <2>3
        <4> QED BY <4>1, <4>2, <4>3
      <3>5. IteratorOnKey'
        BY <3>1, <3>2, <3>3, <3>4 DEF IteratorOnKey, IsBinary
      <3> QED BY <2>5, <2>6, <3>1, <3>5 DEF TInv, TypeOK
    <2>8. CASE ~EndOfTraversal(n)
      <3>1. pc' = "Traverse" /\ nodes' = LoadChild(current_path, l)
        BY <2>1, <2>8 DEF Advance
      <3>2. LabelMatches(n) /\ h + Len(l) < MaxHeight
        BY <2>2, <2>3, <2>8 DEF EndOfTraversal
      <3>3. InMemory \in NodeHandle /\ current_path # current_path \o l
        BY <2>2, <2>3 DEF NodeHandle
      <3>4. /\ nodes'[current_path] = WithChild(n, l, InMemory)
            /\ nodes'[current_path \o l] =
                 IF n.next[l] = InMemory THEN nodes[current_path \o l]
                                         ELSE DbNode(current_path \o l)
            /\ \A q \in Path \ {current_path, current_path \o l} : nodes'[q] = nodes[q]
            /\ DOMAIN nodes' = Path
        BY <2>2, <2>3, <3>1, <3>3 DEF LoadChild, TInv, TypeOK, IsNodeMap
      <3>5. /\ IsNodeAt(nodes'[current_path], current_path)
            /\ IsEdge(nodes'[current_path]) = IsEdge(n)
            /\ EdgePath(nodes'[current_path]) = EdgePath(n)
        BY <2>2, <2>3, <3>3, <3>4, WithChildNode
      <3>6. IsNodeMap(nodes', {NoNode})
        <4>1. nodes'[current_path \o l] = NoNode
              \/ IsNodeAt(nodes'[current_path \o l], current_path \o l)
          BY <2>2, <3>4, DbNodeType DEF TInv, TypeOK, IsNodeMap
        <4> QED BY <3>4, <3>5, <4>1 DEF TInv, TypeOK, IsNodeMap
      <3>7. Consecutive(Append(current_nodes_heights, Len(current_path)))'
        <4>1. PICK x : x = h
          OBVIOUS
        <4>2. PICK y : y = h + Len(l)
          OBVIOUS
        <4>3. PICK old : old = Append(hs, h)
          OBVIOUS
        <4>4. PICK new : new = Append(old, y)
          OBVIOUS
        <4>5. x \in 0..(MaxHeight - 1) /\ y \in 0..(MaxHeight - 1) /\ x < y
          BY <2>2, <2>3, <3>2, <4>1, <4>2
        <4>6. old \in Seq(0..(MaxHeight - 1)) /\ Len(old) >= 1 /\ old[Len(old)] = x
          BY <2>3, <4>1, <4>3, AppendHeight
        <4>7. new \in Seq(0..(MaxHeight - 1)) /\ Len(new) = Len(old) + 1
              /\ (\A i \in 1..Len(old) : new[i] = old[i]) /\ new[Len(new)] = y
          BY <4>4, <4>5, <4>6, AppendHeight
        <4>8. \A i, j \in 1..Len(old) : i < j => old[i] < old[j]
          BY <2>3, <4>3 DEF Consecutive
        <4>9. \A i \in 1..Len(old) : old[i] <= x
          BY <4>5, <4>6, <4>8
        <4>10. \A i, j \in 1..Len(new) : i < j => new[i] < new[j]
          BY <4>4, <4>5, <4>6, <4>8, <4>9, AppendIncreasing
        <4>11. ASSUME NEW i \in 1..(Len(new) - 1), IsEdge(NodeAtHeight(new[i])')
               PROVE  new[i] + Len(EdgePath(NodeAtHeight(new[i])')) = new[i + 1]
          <5>1. CASE i = Len(old)
            <6>1. new[i] = x /\ new[i + 1] = y
              BY <4>6, <4>7, <5>1
            <6>2. NodeAtHeight(new[i])' = nodes'[current_path]
              BY <2>4, <2>5, <4>1, <6>1 DEF NodeAtHeight
            <6>3. EdgePath(NodeAtHeight(new[i])') = l
              BY <2>2, <3>5, <4>11, <6>2
            <6> QED BY <4>1, <4>2, <6>1, <6>3
          <5>2. CASE i # Len(old)
            <6>1. i \in 1..(Len(old) - 1) /\ i \in 1..Len(old) /\ i + 1 \in 1..Len(old)
              BY <4>6, <4>7, <5>2
            <6>2. new[i] = old[i] /\ new[i + 1] = old[i + 1] /\ old[i] \in 0..(MaxHeight - 1)
              <7>1. old[i] \in 0..(MaxHeight - 1)
                BY <4>6, <6>1
              <7>2. \A k \in 1..Len(old) : new[k] = old[k]
                BY <4>7
              <7>3. i \in 1..Len(old) /\ i + 1 \in 1..Len(old)
                BY <6>1
              <7>4. new[i] = old[i] /\ new[i + 1] = old[i + 1]
                BY <7>2, <7>3
              <7> QED BY <7>1, <7>4
            <6>3. old[i] < x
              <7>1. i < Len(old) /\ Len(old) \in 1..Len(old)
                BY <4>6, <6>1
              <7>2. old[i] < old[Len(old)]
                BY <4>8, <6>1, <7>1
              <7> QED BY <4>6, <7>2
            <6>4. First(args.key, old[i]) \in Path /\ Len(First(args.key, old[i])) = old[i]
              BY <2>3, <6>2, FirstOfKey
            <6>5. First(args.key, old[i]) \notin {current_path, current_path \o l}
              <7>1. Len(current_path) = x /\ Len(current_path \o l) = y
                BY <2>2, <4>1, <4>2
              <7> QED BY <4>5, <6>2, <6>3, <6>4, <7>1
            <6>6. NodeAtHeight(new[i])' = NodeAtHeight(old[i])
              BY <2>5, <3>4, <6>2, <6>4, <6>5 DEF NodeAtHeight
            <6> QED BY <2>3, <4>3, <4>11, <6>1, <6>2, <6>6 DEF Consecutive
          <5> QED BY <5>1, <5>2
        <4>12. Append(current_nodes_heights, Len(current_path))' = new
          BY <2>2, <2>5, <4>2, <4>3, <4>4
        <4>13. Consecutive(new)'
          BY <4>10, <4>11 DEF Consecutive
        <4> QED BY <4>12, <4>13 DEF Consecutive
      <3>8. IteratorOnKey'
        BY <2>2, <2>5, <3>1, <3>2, <3>7 DEF IteratorOnKey
      <3> QED BY <2>5, <2>6, <3>1, <3>6, <3>8 DEF TInv, TypeOK
    <2> QED BY <2>7, <2>8
  <1> QED BY <1>1, <1>2

(***************************************************************************)
(* The ends of set                                                         *)
(***************************************************************************)
\* A call that ends leaves well-typed nodes, death row and leaves.
LEMMA FinishTInv ==
  ASSUME TInv, Return, UNCHANGED <<db, commit, failed, latest>>,
         IsNodeMap(nodes', {NoNode}), death_row' \subseteq Path,
         root_node' \in {"None", "Empty", "Loaded"},
         cache_leaf_modified' \in [Key -> Felt \cup {None, Remove}]
  PROVE  TInv'
  BY ReturnTypes DEF TInv, TypeOK, db, commit

LEMMA LastPathType ==
  ASSUME TInv, current_nodes_heights # << >>
  PROVE  /\ LastHeight \in 0..(MaxHeight - 1)
         /\ LastPath \in Path /\ Len(LastPath) = LastHeight
  <1>1. current_nodes_heights \in Seq(0..(MaxHeight - 1)) /\ args.key \in Key
    BY DEF TInv, TypeOK
  <1>2. LastHeight \in 0..(MaxHeight - 1)
    BY <1>1 DEF LastHeight
  <1> QED BY <1>1, <1>2, FirstOfKey DEF LastPath

LEMMA LeafCached ==
  ASSUME TInv, SetLeafInCache
  PROVE  cache_leaf_modified' \in [Key -> Felt \cup {None, Remove}]
  BY DEF TInv, TypeOK, SetLeafInCache

LEMMA SetFirstLeafTInv ==
  ASSUME TInv, SetFirstLeaf
  PROVE  TInv'
  <1>1. args.key \in Path /\ args.key \in Seq(Bit) /\ Len(args.key) = MaxHeight
        /\ args.value \in NodeHandle
    BY KeySeq, KeyInPath DEF TInv, TypeOK, NodeHandle
  <1>2. << >> \o args.key \in Path /\ args.key # << >> /\ Len(<< >>) = 0
    <2>1. << >> \in Seq(Bit) /\ Len(<< >>) = 0
      OBVIOUS
    <2>2. << >> \o args.key \in Path
      BY <1>1, <2>1, PathConcat
    <2>3. args.key # << >>
      BY <1>1, <2>1
    <2> QED BY <2>1, <2>2, <2>3
  <1>3. IsNodeAt(EdgeNode(None, 0, args.key, args.value), << >>)
    BY <1>1, <1>2, RootInPath, NewEdge
  <1>4. IsNodeMap(nodes', {NoNode})
    BY <1>3, RootInPath DEF TInv, TypeOK, IsNodeMap, SetFirstLeaf
  <1>5. cache_leaf_modified' \in [Key -> Felt \cup {None, Remove}]
    BY LeafCached DEF SetFirstLeaf
  <1>6. Return /\ UNCHANGED <<db, commit, failed, latest>>
        /\ death_row' = death_row /\ root_node' = "Loaded"
    BY DEF SetFirstLeaf, FinishSetFrame
  <1> QED BY <1>4, <1>5, <1>6, FinishTInv DEF TInv, TypeOK

LEMMA SetLeafUnderEdgeTInv ==
  ASSUME TInv, SetLeafUnderEdge
  PROVE  TInv'
  <1>1. LastPath \in Path /\ IsEdge(LastNode) /\ args.value \in NodeHandle
    BY LastPathType DEF SetLeafUnderEdge, TInv, TypeOK, NodeHandle
  <1>2. IsNodeAt(LastNode, LastPath)
    BY <1>1, EdgeOrBinaryInMap DEF TInv, TypeOK, LastNode
  <1>3. EdgePath(LastNode) \in DOMAIN LastNode.next
    BY <1>1, <1>2, EdgeLabel
  <1>4. IsNodeAt(WithChild(LastNode, EdgePath(LastNode), args.value), LastPath)
    BY <1>1, <1>2, <1>3, WithChildNode
  <1>5. IsNodeMap(nodes', {NoNode})
    BY <1>1, <1>4 DEF TInv, TypeOK, IsNodeMap, SetLeafUnderEdge
  <1>6. cache_leaf_modified' \in [Key -> Felt \cup {None, Remove}]
    BY LeafCached DEF SetLeafUnderEdge
  <1>7. Return /\ UNCHANGED <<db, commit, failed, latest>>
        /\ death_row' = death_row /\ root_node' = root_node
    BY DEF SetLeafUnderEdge, FinishSetFrame
  <1> QED BY <1>5, <1>6, <1>7, FinishTInv DEF TInv, TypeOK

\* The iterator stops below a binary node only at a leaf, so that set never
\* returns from a binary node without storing the value.
LEMMA UnderBinary ==
  ASSUME TInv, Setting, current_nodes_heights # << >>, IsBinary(LastNode)
  PROVE  /\ LastPath \in Path /\ IsNodeAt(LastNode, LastPath)
         /\ LastNode.height = LastHeight /\ LastNode.height + 1 = MaxHeight
  <1>1. LastPath \in Path /\ Len(LastPath) = LastHeight
    BY LastPathType
  <1>2. IsNodeAt(LastNode, LastPath)
    BY <1>1, EdgeOrBinaryInMap DEF TInv, TypeOK, LastNode
  <1>3. LastHeight + 1 = MaxHeight
    BY DEF TInv, IteratorOnKey, Setting
  <1>4. LastNode.height = Len(LastPath)
    BY <1>2 DEF IsNodeAt
  <1> QED BY <1>1, <1>2, <1>3, <1>4

LEMMA SetLeafUnderBinaryTInv ==
  ASSUME TInv, SetLeafUnderBinary
  PROVE  TInv'
  <1>1. Setting /\ current_nodes_heights # << >> /\ IsBinary(LastNode)
        /\ args.value \in NodeHandle
    BY DEF SetLeafUnderBinary, TInv, TypeOK, NodeHandle
  <1>2. /\ LastPath \in Path /\ IsNodeAt(LastNode, LastPath)
        /\ LastNode.height + 1 = MaxHeight
    BY <1>1, UnderBinary
  <1> DEFINE l == <<args.key[LastNode.height + 1]>>
  <1>3. l \in DOMAIN LastNode.next
    <2>1. args.key \in [1..MaxHeight -> Bit]
      BY DEF TInv, TypeOK, Key
    <2>2. args.key[LastNode.height + 1] \in Bit
      BY <1>2, <2>1
    <2> QED BY <1>1, <1>2, <2>2, BitsInDirections, BinaryLabels
  <1>4. IsNodeAt(WithChild(LastNode, l, args.value), LastPath)
    BY <1>1, <1>2, <1>3, WithChildNode
  <1>5. /\ nodes' = [nodes EXCEPT ![LastPath] = WithChild(LastNode, l, args.value)]
        /\ SetLeafInCache
    BY <1>2 DEF SetLeafUnderBinary
  <1>6. IsNodeMap(nodes', {NoNode})
    BY <1>2, <1>4, <1>5 DEF TInv, TypeOK, IsNodeMap
  <1>7. cache_leaf_modified' \in [Key -> Felt \cup {None, Remove}]
    BY <1>5, LeafCached
  <1>8. Return /\ UNCHANGED <<db, commit, failed, latest>>
        /\ death_row' = death_row /\ root_node' = root_node
    BY DEF SetLeafUnderBinary, FinishSetFrame
  <1> QED BY <1>6, <1>7, <1>8, FinishTInv DEF TInv, TypeOK

LEMMA SplitEdgeType ==
  ASSUME TInv, NEW n, NEW p \in Path, IsNodeAt(n, p), IsEdge(n),
         NEW key, key = args.key, NEW value \in NodeHandle, BranchHeight(n) # MaxHeight
  PROVE  IsNodeMap(SplitEdge(n, p, key, value), {NoNode})
  <1>1. PICK e : e = EdgePath(n)
    OBVIOUS
  <1>2. PICK c : c = CommonLength(e, key, n.height)
    OBVIOUS
  <1>3. PICK h : h = n.height
    OBVIOUS
  <1>4. PICK g : g = EdgeChild(n)
    OBVIOUS
  <1>5. /\ p \in Seq(Bit) /\ Len(p) = h
        /\ e \in Seq(Bit) /\ Len(e) >= 1 /\ h + Len(e) <= MaxHeight
        /\ g \in NodeHandle
    <2>1. e \in Path /\ e # << >> /\ p \o e \in Path /\ g \in NodeHandle
      BY <1>1, <1>4, EdgeLabel
    <2>2. p \in Seq(Bit) /\ e \in Seq(Bit) /\ Len(p) = h
      BY <1>3, <2>1, PathSeq DEF IsNodeAt
    <2>3. h + Len(e) <= MaxHeight
      BY <2>1, <2>2, PathConcat
    <2>4. Len(e) >= 1
      BY <2>1, <2>2
    <2> QED BY <2>1, <2>2, <2>3, <2>4
  <1>6. c \in 0..Len(e) /\ BranchHeight(n) = h + c
    BY <1>1, <1>2, <1>3, <1>5, CommonLengthIs DEF BranchHeight
  <1>7. h \in Nat /\ c \in Nat /\ h + c < MaxHeight
    BY <1>5, <1>6
  <1>8. key \in Seq(Bit) /\ Len(key) = MaxHeight
    BY KeySeq DEF TInv, TypeOK
  <1> DEFINE common == First(e, c)
             b == p \o common
             bit == key[h + c + 1]
             new_path == From(key, h + c + 1)
             old_path == From(e, Len(common) + 1)
             new == IF new_path = << >> THEN value ELSE InMemory
             old == IF old_path = << >> THEN g ELSE InMemory
             branch == BinaryNode(None, h + c, [d \in Directions |->
                                                  IF d = <<bit>> THEN new ELSE old])
             newEdge == EdgeNode(None, h + c + 1, new_path, value)
             oldEdge == EdgeNode(None, h + c + 1, old_path, g)
             upper == EdgeNode(None, h, common, InMemory)
  <1>9. SplitEdge(n, p, key, value) =
          [q \in Path |->
             CASE q = b \o <<bit>> /\ new_path # << >> -> newEdge
               [] q = b \o <<Invert(bit)>> /\ old_path # << >> -> oldEdge
               [] q = b -> branch
               [] q = p /\ common # << >> -> upper
               [] OTHER -> nodes[q]]
    BY <1>1, <1>2, <1>3, <1>4, <1>6 DEF SplitEdge, CommonPath
  <1>10. /\ common \in Seq(Bit) /\ Len(common) = c
         /\ bit \in Bit /\ Invert(bit) \in Bit
         /\ b \in Seq(Bit) /\ Len(b) = h + c /\ b \in Path
    <2>1. common \in Seq(Bit) /\ Len(common) = c
      BY <1>5, <1>6, FirstSeq
    <2>2. h + c + 1 \in 1..Len(key)
      BY <1>7, <1>8
    <2>3. bit \in Bit
      BY <1>8, <2>2
    <2>4. b \in Seq(Bit) /\ Len(b) = h + c
      BY <1>5, <2>1, ConcatSeq
    <2>5. Len(b) <= MaxHeight
      BY <1>7, <2>4
    <2>6. b \in Path
      BY <2>4, <2>5, PathSeq
    <2>7. Invert(bit) \in Bit
      BY <2>3, BitsInDirections
    <2> QED BY <2>1, <2>3, <2>4, <2>6, <2>7
  <1>11. /\ new_path \in Seq(Bit) /\ Len(new_path) = MaxHeight - (h + c + 1)
    BY <1>7, <1>8, FromSeq
  <1>12. c < Len(e) => old_path \in Seq(Bit) /\ Len(old_path) = Len(e) - (c + 1)
    <2> SUFFICES ASSUME c < Len(e)
                 PROVE  old_path \in Seq(Bit) /\ Len(old_path) = Len(e) - (c + 1)
      OBVIOUS
    <2>1. Len(common) + 1 = c + 1 /\ c + 1 \in 0..Len(e)
      BY <1>5, <1>6, <1>10
    <2> QED BY <1>5, <2>1, FromSeq
  <1>13. c = Len(e) => old_path = << >>
    BY <1>5, <1>6, <1>10 DEF From
  <1> HIDE DEF common, b, bit, new_path, old_path
  <1>14. ASSUME NEW d \in Bit
         PROVE  b \o <<d>> \in Path /\ b \o <<d>> \in Seq(Bit) /\ Len(b \o <<d>>) = h + c + 1
    <2>1. <<d>> \in Seq(Bit) /\ Len(<<d>>) = 1
      BY BitsInDirections, DirectionSeq
    <2>2. b \o <<d>> \in Seq(Bit) /\ Len(b \o <<d>>) = h + c + 1
      BY <1>7, <1>10, <2>1, ConcatSeq
    <2>3. Len(b \o <<d>>) <= MaxHeight
      BY <1>7, <2>2
    <2>4. b \o <<d>> \in Path
      BY <2>2, <2>3, PathSeq
    <2> QED BY <2>2, <2>4
  <1>15. ASSUME NEW l \in Seq(Bit), l # << >>, NEW q \in Path, NEW child \in NodeHandle,
                Len(q) + Len(l) <= MaxHeight
         PROVE  IsNodeAt(EdgeNode(None, Len(q), l, child), q)
    <2>1. q \in Seq(Bit) /\ q \o l \in Path
      BY <1>15, PathSeq, PathConcat
    <2>2. l \in Path
      BY <1>15, <2>1, PathSeq
    <2> QED BY <1>15, <2>1, <2>2, NewEdge
  <1>16. InMemory \in NodeHandle /\ new \in NodeHandle /\ old \in NodeHandle
    BY <1>5 DEF NodeHandle
  <1>17. new_path # << >> => IsNodeAt(newEdge, b \o <<bit>>)
    <2>1. Len(b \o <<bit>>) + Len(new_path) <= MaxHeight
      BY <1>7, <1>10, <1>11, <1>14
    <2> QED BY <1>10, <1>11, <1>14, <1>15, <2>1
  <1>18. old_path # << >> => IsNodeAt(oldEdge, b \o <<Invert(bit)>>)
    <2> SUFFICES ASSUME old_path # << >> PROVE IsNodeAt(oldEdge, b \o <<Invert(bit)>>)
      OBVIOUS
    <2>1. old_path \in Seq(Bit) /\ Len(old_path) = Len(e) - (c + 1)
      BY <1>6, <1>12, <1>13
    <2>2. Len(b \o <<Invert(bit)>>) = h + c + 1 /\ b \o <<Invert(bit)>> \in Path
      BY <1>10, <1>14
    <2>3. Len(b \o <<Invert(bit)>>) + Len(old_path) <= MaxHeight
      BY <1>5, <1>6, <1>7, <2>1, <2>2
    <2> QED BY <1>5, <1>15, <2>1, <2>2, <2>3
  <1>19. IsNodeAt(branch, b)
    BY <1>7, <1>10, <1>16, NewBinary
  <1>20. common # << >> => IsNodeAt(upper, p)
    BY <1>5, <1>7, <1>10, <1>15, <1>16
  <1> HIDE DEF newEdge, oldEdge, branch, upper
  <1>21. \A q \in Path : nodes[q] = NoNode \/ IsNodeAt(nodes[q], q)
    BY DEF TInv, TypeOK, IsNodeMap
  <1> QED BY <1>9, <1>17, <1>18, <1>19, <1>20, <1>21 DEF IsNodeMap

LEMMA SetSplitsEdgeTInv ==
  ASSUME TInv, SetSplitsEdge
  PROVE  TInv'
  <1>1. LastPath \in Path /\ IsEdge(LastNode) /\ args.value \in NodeHandle
        /\ BranchHeight(LastNode) # MaxHeight
    BY LastPathType DEF SetSplitsEdge, TInv, TypeOK, NodeHandle
  <1>2. IsNodeAt(LastNode, LastPath)
    BY <1>1, EdgeOrBinaryInMap DEF TInv, TypeOK, LastNode
  <1>3. IsNodeMap(SplitEdge(LastNode, LastPath, args.key, args.value), {NoNode})
    BY <1>1, <1>2, SplitEdgeType
  <1>4. IsNodeMap(nodes', {NoNode}) /\ death_row' \subseteq Path
    BY <1>1, <1>3 DEF SetSplitsEdge, SplitDeathRow, TInv, TypeOK
  <1>5. cache_leaf_modified' \in [Key -> Felt \cup {None, Remove}]
    BY LeafCached DEF SetSplitsEdge
  <1>6. Return /\ UNCHANGED <<db, commit, failed, latest>> /\ root_node' = root_node
    BY DEF SetSplitsEdge, FinishSetFrame
  <1> QED BY <1>4, <1>5, <1>6, FinishTInv DEF TInv, TypeOK

(***************************************************************************)
(* The ends of delete_leaf                                                 *)
(***************************************************************************)
LEMMA FinalEdgeType ==
  ASSUME TInv, FinalEdge
  PROVE  /\ LastHeight \in 0..(MaxHeight - 1) /\ LastPath \in Path
         /\ FinalEdgePath \in Path /\ Len(FinalEdgePath) \in LastHeight..MaxHeight
  <1>1. /\ current_nodes_heights # << >> /\ IsEdge(LastNode)
        /\ args.key \in Key
    BY DEF FinalEdge, TInv, TypeOK
  <1>2. LastHeight \in 0..(MaxHeight - 1) /\ LastPath \in Path /\ Len(LastPath) = LastHeight
    BY <1>1, LastPathType
  <1>3. IsNodeAt(LastNode, LastPath)
    BY <1>1, <1>2, EdgeOrBinaryInMap DEF TInv, TypeOK, LastNode
  <1>4. PICK e : e = EdgePath(LastNode)
    OBVIOUS
  <1>5. e \in Path /\ LastPath \o e \in Path
    BY <1>1, <1>2, <1>3, <1>4, EdgeLabel
  <1>6. e \in Seq(Bit) /\ LastPath \in Seq(Bit)
    BY <1>2, <1>5, PathSeq
  <1>7. Len(e) \in Nat /\ LastHeight + Len(e) <= MaxHeight
    BY <1>2, <1>5, <1>6, PathConcat
  <1>8. MaxHeight - Len(e) \in 0..MaxHeight /\ MaxHeight - Len(e) \in LastHeight..MaxHeight
    BY <1>2, <1>7
  <1>9. FinalEdgePath \in Path /\ Len(FinalEdgePath) = MaxHeight - Len(e)
    BY <1>1, <1>4, <1>8, FirstOfKey DEF FinalEdgePath
  <1> QED BY <1>2, <1>8, <1>9

\* The heights above the final edge are those of the iterator.
LEMMA BranchHeightsType ==
  ASSUME TInv, Deleting
  PROVE  /\ BranchHeights \in Seq(0..(MaxHeight - 1))
         /\ Len(BranchHeights) <= Len(current_nodes_heights)
         /\ FinalEdge => Len(BranchHeights) + 1 = Len(current_nodes_heights)
         /\ \A i \in 1..Len(BranchHeights) : BranchHeights[i] = current_nodes_heights[i]
  <1>1. current_nodes_heights \in Seq(0..(MaxHeight - 1))
    BY DEF TInv, TypeOK
  <1>2. CASE FinalEdge
    <2>1. Len(current_nodes_heights) >= 1
      BY <1>1, <1>2 DEF FinalEdge
    <2>2. BranchHeights = First(current_nodes_heights, Len(current_nodes_heights) - 1)
      BY <1>2 DEF BranchHeights
    <2>3. /\ BranchHeights \in Seq(0..(MaxHeight - 1))
          /\ Len(BranchHeights) + 1 = Len(current_nodes_heights)
          /\ \A i \in 1..Len(BranchHeights) : BranchHeights[i] = current_nodes_heights[i]
      BY <1>1, <2>1, <2>2, DropLast
    <2> QED BY <1>1, <2>3
  <1>3. CASE ~FinalEdge
    BY <1>1, <1>3 DEF BranchHeights
  <1> QED BY <1>2, <1>3

\* The branch ends where the path of its sibling's last bit begins, or above:
\* an edge that swallows the sibling stays within the tree.
LEMMA BranchType ==
  ASSUME TInv, Deleting, BranchHeights # << >>
  PROVE  /\ BranchPath \in Path /\ Len(BranchPath) \in 0..(MaxHeight - 1)
         /\ Len(BranchPath) = BranchHeights[Len(BranchHeights)]
         /\ FinalEdge => Len(FinalEdgePath) \in (Len(BranchPath) + 1)..MaxHeight
  <1>1. PICK bs : bs = BranchHeights
    OBVIOUS
  <1>2. PICK hs : hs = current_nodes_heights
    OBVIOUS
  <1>3. /\ bs \in Seq(0..(MaxHeight - 1)) /\ hs \in Seq(0..(MaxHeight - 1))
        /\ Len(bs) <= Len(hs)
        /\ FinalEdge => Len(bs) + 1 = Len(hs)
        /\ \A i \in 1..Len(bs) : bs[i] = hs[i]
        /\ Len(bs) \in 1..Len(bs)
        /\ args.key \in Key
    BY <1>1, <1>2, BranchHeightsType DEF TInv, TypeOK
  <1>4. bs[Len(bs)] \in 0..(MaxHeight - 1) /\ bs[Len(bs)] = hs[Len(bs)]
    BY <1>3
  <1>5. BranchPath \in Path /\ Len(BranchPath) = bs[Len(bs)]
    BY <1>1, <1>3, <1>4, FirstOfKey DEF BranchPath
  <1>6. ASSUME FinalEdge PROVE Len(FinalEdgePath) \in (Len(BranchPath) + 1)..MaxHeight
    <2>1. \A i, j \in 1..Len(hs) : i < j => hs[i] < hs[j]
      BY <1>2 DEF TInv, IteratorOnKey, Deleting, Consecutive
    <2>2. Len(bs) \in 1..Len(hs) /\ Len(hs) \in 1..Len(hs) /\ Len(bs) < Len(hs)
      BY <1>3, <1>6
    <2>3. hs[Len(bs)] < hs[Len(hs)]
      BY <2>1, <2>2
    <2>4. LastHeight = hs[Len(hs)]
      BY <1>2 DEF LastHeight
    <2>5. LastHeight \in 0..(MaxHeight - 1) /\ Len(FinalEdgePath) \in LastHeight..MaxHeight
      BY <1>6, FinalEdgeType
    <2> QED BY <1>4, <1>5, <2>3, <2>4, <2>5
  <1> QED BY <1>1, <1>4, <1>5, <1>6

LEMMA SiblingType ==
  ASSUME TInv, Deleting, BranchHeights # << >>, IsBinary(Branch)
  PROVE  /\ IsNodeAt(Branch, BranchPath) /\ Branch.height = Len(BranchPath)
         /\ SiblingBit \in Bit /\ SiblingHandle \in NodeHandle
         /\ SiblingPath \in Path /\ Len(SiblingPath) >= Len(BranchPath) + 1
         /\ Len(SiblingPath) >= 1
         /\ Sibling = NoNode \/ IsNodeAt(Sibling, SiblingPath)
  <1>1. /\ BranchPath \in Path /\ Len(BranchPath) \in 0..(MaxHeight - 1)
        /\ FinalEdge => Len(FinalEdgePath) \in (Len(BranchPath) + 1)..MaxHeight
    BY BranchType
  <1>2. IsNodeAt(Branch, BranchPath)
    BY <1>1, EdgeOrBinaryInMap DEF TInv, TypeOK, Branch
  <1>3. Branch.height = Len(BranchPath)
    BY <1>2 DEF IsNodeAt
  <1>4. args.key \in [1..MaxHeight -> Bit] /\ args.key \in Seq(Bit) /\ Len(args.key) = MaxHeight
    BY KeySeq DEF TInv, TypeOK, Key
  <1>5. args.key[Branch.height + 1] \in Bit
    BY <1>1, <1>3, <1>4
  <1>6. SiblingBit \in Bit /\ <<SiblingBit>> \in Directions
    BY <1>5, BitsInDirections DEF SiblingBit
  <1>7. SiblingHandle \in NodeHandle
    BY <1>1, <1>2, <1>6, BinaryLabels DEF SiblingHandle, IsNodeAt
  <1>8. PICK last : last = IF FinalEdge THEN FinalEdgePath ELSE args.key
    OBVIOUS
  <1>9. last \in Seq(Bit) /\ Len(last) \in (Len(BranchPath) + 1)..MaxHeight
    BY <1>1, <1>4, <1>8, FinalEdgeType, PathSeq
  <1>10. SiblingPath = Append(First(last, Len(last) - 1), SiblingBit)
    BY <1>8 DEF SiblingPath
  <1>11. First(last, Len(last) - 1) \in Seq(Bit)
         /\ Len(First(last, Len(last) - 1)) = Len(last) - 1
    BY <1>1, <1>9, FirstSeq
  <1>12. SiblingPath \in Seq(Bit) /\ Len(SiblingPath) = Len(last)
    BY <1>6, <1>9, <1>10, <1>11
  <1>13. SiblingPath \in Path /\ Len(SiblingPath) >= Len(BranchPath) + 1
         /\ Len(SiblingPath) >= 1
    <2>1. Len(SiblingPath) <= MaxHeight /\ Len(SiblingPath) >= Len(BranchPath) + 1
          /\ Len(SiblingPath) >= 1
      BY <1>1, <1>9, <1>12
    <2> QED BY <1>12, <2>1, PathSeq
  <1>14. Sibling = NoNode \/ IsNodeAt(Sibling, SiblingPath)
    BY <1>13, DbNodeType DEF Sibling, TInv, TypeOK, IsNodeMap
  <1> QED BY <1>2, <1>3, <1>6, <1>7, <1>13, <1>14

\* The path and the child of the edge that replaces the branch.
LEMMA MergedType ==
  ASSUME TInv, Deleting, BranchHeights # << >>, IsBinary(Branch)
  PROVE  /\ MergedPath \in Seq(Bit) /\ Len(MergedPath) >= 1
         /\ Len(BranchPath) + Len(MergedPath) <= MaxHeight
         /\ MergedChild \in NodeHandle
  <1>1. /\ BranchPath \in Path /\ Len(BranchPath) \in 0..(MaxHeight - 1)
    BY BranchType
  <1>2. /\ SiblingBit \in Bit /\ SiblingHandle \in NodeHandle
        /\ SiblingPath \in Path /\ Len(SiblingPath) >= Len(BranchPath) + 1
        /\ Sibling = NoNode \/ IsNodeAt(Sibling, SiblingPath)
    BY SiblingType
  <1>3. <<SiblingBit>> \in Seq(Bit) /\ Len(<<SiblingBit>>) = 1
    BY <1>2, BitsInDirections, DirectionSeq
  <1>4. CASE IsEdge(Sibling)
    <2>1. IsNodeAt(Sibling, SiblingPath)
      BY <1>2, <1>4 DEF IsEdge, NoNode
    <2>2. PICK e : e = EdgePath(Sibling)
      OBVIOUS
    <2>3. e \in Path /\ SiblingPath \o e \in Path /\ EdgeChild(Sibling) \in NodeHandle
      BY <1>2, <1>4, <2>1, <2>2, EdgeLabel
    <2>4. e \in Seq(Bit) /\ SiblingPath \in Seq(Bit)
      BY <1>2, <2>3, PathSeq
    <2>5. Len(SiblingPath) + Len(e) <= MaxHeight
      BY <2>3, <2>4, PathConcat
    <2>6. MergedPath = <<SiblingBit>> \o e /\ MergedChild = EdgeChild(Sibling)
      BY <1>4, <2>2 DEF MergedPath, MergedChild
    <2>7. MergedPath \in Seq(Bit) /\ Len(MergedPath) = 1 + Len(e)
      BY <1>3, <2>4, <2>6, ConcatSeq
    <2> QED BY <1>1, <1>2, <2>3, <2>4, <2>5, <2>6, <2>7
  <1>5. CASE ~IsEdge(Sibling)
    <2>1. << >> \in Seq(Bit) /\ Len(<< >>) = 0
      OBVIOUS
    <2>2. MergedPath = <<SiblingBit>> \o << >> /\ MergedChild = SiblingHandle
      BY <1>5 DEF MergedPath, MergedChild
    <2>3. MergedPath \in Seq(Bit) /\ Len(MergedPath) = 1
      BY <1>3, <2>1, <2>2, ConcatSeq
    <2> QED BY <1>1, <1>2, <2>2, <2>3
  <1> QED BY <1>4, <1>5

LEMMA DeleteLastLeafTInv ==
  ASSUME TInv, DeleteLastLeaf
  PROVE  TInv'
  <1>1. IsNodeMap(nodes', {NoNode})
    BY DEF DeleteLastLeaf, TInv, TypeOK, IsNodeMap
  <1>2. death_row' \subseteq Path
    BY FinalEdgeType, RootInPath DEF DeleteLastLeaf, TInv, TypeOK
  <1>3. /\ Return /\ UNCHANGED <<db, commit, failed, latest>>
        /\ root_node' = "Empty" /\ cache_leaf_modified' = cache_leaf_modified
    BY DEF DeleteLastLeaf, FinishDeleteFrame
  <1> QED BY <1>1, <1>2, <1>3, FinishTInv DEF TInv, TypeOK

LEMMA RemoveFinalEdgeTypes ==
  ASSUME TInv, RemoveFinalEdge
  PROVE  IsNodeMap(nodes', {NoNode}) /\ death_row' \subseteq Path
  <1>1. IsNodeMap(nodes', {NoNode})
    BY FinalEdgeType DEF RemoveFinalEdge, TInv, TypeOK, IsNodeMap
  <1>2. death_row' \subseteq Path
    BY FinalEdgeType DEF RemoveFinalEdge, TInv, TypeOK
  <1> QED BY <1>1, <1>2

LEMMA FailAtBranchTInv ==
  ASSUME TInv, FailAtBranch
  PROVE  TInv'
  <1>1. RemoveFinalEdge /\ FailFrame /\ UNCHANGED <<root_node, cache_leaf_modified>>
    BY DEF FailAtBranch
  <1> QED BY <1>1, RemoveFinalEdgeTypes, FailTInv

\* A call that returns because the database failed to read a node.
LEMMA ReadErrorTInv ==
  ASSUME TInv, SeekFails \/ MergeReadFails
  PROVE  TInv'
  <1>1. ReadErrorFrame
    BY DEF SeekFails, MergeReadFails
  <1>2. IsNodeMap(nodes', {NoNode}) /\ death_row' \subseteq Path
    <2>1. CASE SeekFails
      <3>1. nodes' = nodes /\ death_row' = death_row
        BY <2>1 DEF SeekFails
      <3> QED BY <3>1 DEF TInv, TypeOK
    <2>2. CASE MergeReadFails
      BY <2>2, RemoveFinalEdgeTypes DEF MergeReadFails
    <2> QED BY <2>1, <2>2
  <1>3. Return /\ latest' \in [Key -> Felt \cup {None}]
    BY <1>1, GetType DEF TInv, ReadErrorFrame
  <1>4. UNCHANGED <<trie_db, flat_db, root_node, cache_leaf_modified, hashes, updates, failed>>
    BY <1>1 DEF ReadErrorFrame, db, commit
  <1> QED BY <1>2, <1>3, <1>4, ReturnTypes DEF TInv, TypeOK

LEMMA DeadPathsType ==
  ASSUME TInv, Deleting, BranchHeights # << >>, IsBinary(Branch)
  PROVE  /\ DeadPaths \subseteq Path
         /\ First(SiblingPath, Len(SiblingPath) - 1) \in Path
  <1>1. SiblingPath \in Path /\ Len(SiblingPath) >= 1
    BY SiblingType
  <1>2. SiblingPath \in Seq(Bit) /\ Len(SiblingPath) <= MaxHeight
    BY <1>1, PathSeq
  <1>3. /\ First(SiblingPath, Len(SiblingPath) - 1) \in Seq(Bit)
        /\ Len(First(SiblingPath, Len(SiblingPath) - 1)) + 1 = Len(SiblingPath)
    BY <1>1, <1>2, DropLast
  <1>4. Len(First(SiblingPath, Len(SiblingPath) - 1)) <= MaxHeight
    BY <1>2, <1>3
  <1>5. First(SiblingPath, Len(SiblingPath) - 1) \in Path
    BY <1>3, <1>4, PathSeq
  <1> QED BY <1>1, <1>5, FinalEdgeType DEF DeadPaths

LEMMA DeleteAtBranchTInv ==
  ASSUME TInv, DeleteAtBranch
  PROVE  TInv'
  <1>1. Deleting /\ BranchHeights # << >>
    BY DEF DeleteAtBranch
  <1>2. CASE BranchBroken
    BY <1>2, FailAtBranchTInv DEF DeleteAtBranch
  <1>3. CASE ~BranchBroken
    <2>1. IsBinary(Branch) /\ TurnBranchIntoEdge /\ FinishDeleteFrame /\ root_node' = root_node
      BY <1>3 DEF DeleteAtBranch, BranchBroken
    <2>2. /\ BranchPath \in Path /\ Branch.height = Len(BranchPath)
          /\ MergedPath \in Seq(Bit) /\ Len(MergedPath) >= 1
          /\ Len(BranchPath) + Len(MergedPath) <= MaxHeight
          /\ MergedChild \in NodeHandle
      BY <1>1, <2>1, BranchType, SiblingType, MergedType
    <2>3. BranchPath \in Seq(Bit) /\ Len(MergedPath) <= MaxHeight /\ MergedPath # << >>
      BY <2>2, PathSeq
    <2>4. MergedPath \in Path /\ BranchPath \o MergedPath \in Path
      BY <2>2, <2>3, PathSeq, PathConcat
    <2>5. IsNodeAt(EdgeNode(None, Branch.height, MergedPath, MergedChild), BranchPath)
      BY <2>2, <2>3, <2>4, NewEdge
    <2>6. IsNodeMap(nodes', {NoNode})
      BY <2>1, <2>5 DEF TurnBranchIntoEdge, TInv, TypeOK, IsNodeMap
    <2>7. death_row' \subseteq Path
      BY <1>1, <2>1, DeadPathsType DEF TurnBranchIntoEdge, TInv, TypeOK
    <2>8. /\ Return /\ UNCHANGED <<db, commit, failed, latest>>
          /\ cache_leaf_modified' = cache_leaf_modified
      BY <2>1 DEF FinishDeleteFrame
    <2> QED BY <2>1, <2>6, <2>7, <2>8, FinishTInv DEF TInv, TypeOK
  <1> QED BY <1>2, <1>3

\* The edge above the branch ends where the branch is.
LEMMA ParentType ==
  ASSUME TInv, Deleting, BranchHeights # << >>, MergeIntoParent
  PROVE  LET parent == nodes[ParentPath]
         IN  /\ ParentPath \in Path /\ IsNodeAt(parent, ParentPath)
             /\ EdgePath(parent) \in Seq(Bit)
             /\ Len(ParentPath) + Len(EdgePath(parent)) = Len(BranchPath)
  <1>1. PICK bs : bs = BranchHeights
    OBVIOUS
  <1>2. PICK hs : hs = current_nodes_heights
    OBVIOUS
  <1>3. PICK m : m = Len(bs) - 1
    OBVIOUS
  <1>4. /\ bs \in Seq(0..(MaxHeight - 1)) /\ hs \in Seq(0..(MaxHeight - 1))
        /\ Len(bs) <= Len(hs)
        /\ \A i \in 1..Len(bs) : bs[i] = hs[i]
        /\ Len(bs) > 1
        /\ args.key \in Key
        /\ IsEdge(nodes[ParentPath])
        /\ ParentPath = First(args.key, bs[m])
    BY <1>1, <1>2, <1>3, BranchHeightsType DEF TInv, TypeOK, MergeIntoParent, ParentPath
  <1>5. m \in 1..Len(bs) /\ m + 1 \in 1..Len(bs) /\ m \in 1..(Len(hs) - 1) /\ m + 1 = Len(bs)
    BY <1>3, <1>4
  <1>6. bs[m] \in 0..(MaxHeight - 1) /\ bs[m] = hs[m] /\ bs[m + 1] = hs[m + 1]
    <2>1. bs[m] \in 0..(MaxHeight - 1)
      BY <1>4, <1>5
    <2>2. \A i \in 1..Len(bs) : bs[i] = hs[i]
      BY <1>4
    <2>3. m \in 1..Len(bs) /\ m + 1 \in 1..Len(bs)
      BY <1>5
    <2>4. bs[m] = hs[m] /\ bs[m + 1] = hs[m + 1]
      BY <2>2, <2>3
    <2> QED BY <2>1, <2>4
  <1>7. ParentPath \in Path /\ Len(ParentPath) = bs[m]
    <2>1. args.key \in Key /\ ParentPath = First(args.key, bs[m])
      BY <1>4
    <2>2. bs[m] \in 0..MaxHeight
      BY <1>6
    <2> QED BY <2>1, <2>2, FirstOfKey
  <1>8. IsNodeAt(nodes[ParentPath], ParentPath)
    BY <1>4, <1>7, EdgeOrBinaryInMap DEF TInv, TypeOK
  <1>9. EdgePath(nodes[ParentPath]) \in Seq(Bit)
    BY <1>4, <1>7, <1>8, EdgeLabel, PathSeq
  <1>10. NodeAtHeight(hs[m]) = nodes[ParentPath]
    BY <1>4, <1>6 DEF NodeAtHeight
  <1>11. hs[m] + Len(EdgePath(nodes[ParentPath])) = hs[m + 1]
    BY <1>2, <1>4, <1>5, <1>10 DEF TInv, IteratorOnKey, Deleting, Consecutive
  <1>12. Len(BranchPath) = bs[m + 1]
    BY <1>1, <1>5, BranchType
  <1> QED BY <1>6, <1>7, <1>8, <1>9, <1>11, <1>12

LEMMA DeleteAtBranchUnderEdgeTInv ==
  ASSUME TInv, DeleteAtBranchUnderEdge
  PROVE  TInv'
  <1>1. Deleting /\ BranchHeights # << >> /\ MergeIntoParent
    BY DEF DeleteAtBranchUnderEdge
  <1>2. CASE BranchBroken
    BY <1>2, FailAtBranchTInv DEF DeleteAtBranchUnderEdge
  <1>3. CASE ~BranchBroken
    <2>1. IsBinary(Branch) /\ ExtendParentEdge /\ FinishDeleteFrame /\ root_node' = root_node
      BY <1>3 DEF DeleteAtBranchUnderEdge, BranchBroken
    <2>2. PICK parent : parent = nodes[ParentPath]
      OBVIOUS
    <2>3. PICK e : e = EdgePath(parent)
      OBVIOUS
    <2>4. /\ ParentPath \in Path /\ IsNodeAt(parent, ParentPath) /\ e \in Seq(Bit)
          /\ Len(ParentPath) + Len(e) = Len(BranchPath)
      BY <1>1, <2>2, <2>3, ParentType
    <2>5. /\ MergedPath \in Seq(Bit) /\ Len(MergedPath) >= 1
          /\ Len(BranchPath) + Len(MergedPath) <= MaxHeight
          /\ MergedChild \in NodeHandle
      BY <1>1, <2>1, MergedType
    <2>6. e \o MergedPath \in Seq(Bit) /\ Len(e \o MergedPath) = Len(e) + Len(MergedPath)
      BY <2>4, <2>5, ConcatSeq
    <2>7. PICK l : l = e \o MergedPath
      OBVIOUS
    <2>8. /\ l \in Seq(Bit) /\ ParentPath \in Seq(Bit) /\ l # << >>
          /\ Len(ParentPath) + Len(l) <= MaxHeight /\ Len(l) <= MaxHeight
      <3>1. ParentPath \in Seq(Bit) /\ Len(ParentPath) \in Nat
        BY <2>4, PathSeq
      <3>2. Len(l) = Len(e) + Len(MergedPath) /\ Len(e) \in Nat /\ l \in Seq(Bit)
        BY <2>4, <2>6, <2>7
      <3>3. Len(l) >= 1 /\ Len(ParentPath) + Len(l) <= MaxHeight /\ Len(l) <= MaxHeight
        BY <2>4, <2>5, <3>1, <3>2
      <3> QED BY <3>1, <3>2, <3>3
    <2>9. l \in Path /\ ParentPath \o l \in Path
      BY <2>8, PathSeq, PathConcat
    <2>10. parent.height = Len(ParentPath) /\ parent.hash \in Felt \cup {None}
      BY <2>4 DEF IsNodeAt
    <2>11. IsNodeAt(EdgeNode(parent.hash, parent.height, l, MergedChild), ParentPath)
      BY <2>4, <2>5, <2>8, <2>9, <2>10, NewEdge
    <2>12. IsNodeMap(nodes', {NoNode})
      <3>1. nodes' = [p \in Path |->
                        IF p = ParentPath
                        THEN EdgeNode(parent.hash, parent.height, l, MergedChild)
                        ELSE IF p \in FreedPaths \cup {BranchPath} THEN NoNode ELSE nodes[p]]
        BY <2>1, <2>2, <2>3, <2>7 DEF ExtendParentEdge
      <3> QED BY <2>11, <3>1 DEF TInv, TypeOK, IsNodeMap
    <2>13. death_row' \subseteq Path
      BY <1>1, <2>1, DeadPathsType DEF ExtendParentEdge, TInv, TypeOK
    <2>14. /\ Return /\ UNCHANGED <<db, commit, failed, latest>>
           /\ cache_leaf_modified' = cache_leaf_modified
      BY <2>1 DEF FinishDeleteFrame
    <2> QED BY <2>1, <2>12, <2>13, <2>14, FinishTInv DEF TInv, TypeOK
  <1> QED BY <1>2, <1>3

(***************************************************************************)
(* Commit                                                                  *)
(***************************************************************************)
LEMMA ConcatFelts ==
  ASSUME NEW s \in Felt, NEW t \in Felt
  PROVE  s \o t \in Felt
  BY DEF Felt

LEMMA NodeHashType ==
  ASSUME NEW n, NEW p \in Path, IsNodeAt(n, p), NEW child \in [DOMAIN n.next -> Felt]
  PROVE  NodeHash(n, child) \in Felt
  <1>1. <<2>> \in Felt /\ <<3>> \in Felt /\ <<4>> \in Felt
    BY DEF Felt
  <1>2. CASE IsBinary(n)
    <2>1. child[<<0>>] \in Felt /\ child[<<1>>] \in Felt
      BY <1>2, BinaryLabels DEF Directions
    <2>2. <<2>> \o child[<<0>>] \in Felt
      BY <1>1, <2>1, ConcatFelts
    <2>3. (<<2>> \o child[<<0>>]) \o child[<<1>>] \in Felt
      BY <2>1, <2>2, ConcatFelts
    <2> QED BY <1>2, <2>3 DEF NodeHash, hash_binary_node
  <1>3. CASE ~IsBinary(n)
    <2>1. IsEdge(n)
      BY <1>3 DEF IsNodeAt
    <2>2. PICK e : e = EdgePath(n)
      OBVIOUS
    <2>3. e \in Path /\ child[e] \in Felt
      BY <2>1, <2>2, EdgeLabel
    <2>4. e \in Felt
      BY <2>3, PathSeq DEF Felt, Bit
    <2>5. <<3>> \o e \in Felt
      BY <1>1, <2>4, ConcatFelts
    <2>6. (<<3>> \o e) \o <<4>> \in Felt
      BY <1>1, <2>5, ConcatFelts
    <2>7. ((<<3>> \o e) \o <<4>>) \o child[e] \in Felt
      BY <2>3, <2>6, ConcatFelts
    <2> QED BY <1>3, <2>2, <2>7 DEF NodeHash, hash_edge_node
  <1> QED BY <1>2, <1>3

LEMMA ComputeHashTInv ==
  ASSUME TInv, NEW p \in Path, ComputeHash(p)
  PROVE  TInv'
  <1>1. CASE HashBroken(p)
    <2>1. Fail
      BY <1>1 DEF ComputeHash
    <2>2. FailFrame /\ UNCHANGED <<root_node, nodes, death_row, cache_leaf_modified>>
      BY <2>1 DEF Fail, tree
    <2> QED BY <2>2, FailTInv DEF TInv, TypeOK
  <1>2. CASE ~HashBroken(p)
    <2>1. IsNodeAt(nodes[p], p) /\ ChildrenHashed(p) /\ hashes \in [Path -> Seq(Felt)]
      BY <1>2, NodeInMap DEF TInv, TypeOK, ComputeHash
    <2>2. ASSUME NEW l \in DOMAIN nodes[p].next
          PROVE  p \o l \in Path /\ hashes[p \o l] \in Seq(Felt) /\ HashesBelow(p, l) \in Seq(Felt)
      BY <2>1 DEF HashesBelow, IsNodeAt
    <2>3. ASSUME NEW l \in DOMAIN nodes[p].next
          PROVE  ChildHash(p, l) \in Felt
      <3>1. CASE nodes[p].next[l] = InMemory
        <4>1. hashes[p \o l] \in Seq(Felt) /\ hashes[p \o l] # << >>
          BY <2>1, <2>2, <3>1 DEF ChildrenHashed
        <4> QED BY <3>1, <4>1 DEF ChildHash
      <3>2. CASE nodes[p].next[l] # InMemory
        BY <2>1, <3>2 DEF ChildHash, IsNodeAt, NodeHandle
      <3> QED BY <3>1, <3>2
    <2>4. ComputedHash(p) \in Felt
      <3>1. [l \in DOMAIN nodes[p].next |-> ChildHash(p, l)] \in [DOMAIN nodes[p].next -> Felt]
        BY <2>3
      <3> QED BY <2>1, <3>1, NodeHashType DEF ComputedHash
    <2>5. SubtreeHashes(p) \in Seq(Felt)
      <3>1. CASE IsBinary(nodes[p])
        <4>1. <<0>> \in DOMAIN nodes[p].next /\ <<1>> \in DOMAIN nodes[p].next
          BY <2>1, <3>1, BinaryLabels DEF Directions
        <4>2. HashesBelow(p, <<0>>) \in Seq(Felt) /\ HashesBelow(p, <<1>>) \in Seq(Felt)
          BY <2>2, <4>1
        <4> QED BY <3>1, <4>2 DEF SubtreeHashes
      <3>2. CASE ~IsBinary(nodes[p])
        <4>1. EdgePath(nodes[p]) \in DOMAIN nodes[p].next
          BY <2>1, <3>2, EdgeLabel DEF IsNodeAt
        <4> QED BY <2>2, <3>2, <4>1 DEF SubtreeHashes
      <3> QED BY <3>1, <3>2
    <2>6. hashes' \in [Path -> Seq(Felt)]
      <3>1. Append(SubtreeHashes(p), ComputedHash(p)) \in Seq(Felt)
        BY <2>4, <2>5
      <3> QED BY <1>2, <2>1, <3>1 DEF ComputeHash
    <2>7. /\ current_path' = << >> /\ current_nodes_heights' = << >>
          /\ pc' \in {"Hash", "CommitSubtree"}
      BY <1>2 DEF ComputeHash, TInv, IteratorOnKey, iter
    <2>8. UNCHANGED <<trie_db, flat_db, root_node, nodes, death_row, cache_leaf_modified,
                      args, updates, failed, latest>>
      BY <1>2 DEF ComputeHash, db, tree, iter
    <2> QED BY <2>6, <2>7, <2>8, RootInPath DEF TInv, TypeOK, IteratorOnKey
  <1> QED BY <1>1, <1>2

LEMMA ReplaceInParentType ==
  ASSUME TInv, NEW p \in Path, NEW hash \in Felt
  PROVE  IsNodeMap(ReplaceInParent(p, hash), {NoNode})
  <1> DEFINE N(q) == [type |-> nodes[q].type, hash |-> nodes[q].hash,
                      height |-> nodes[q].height,
                      next |-> [l \in DOMAIN nodes[q].next |->
                                  IF q \o l = p THEN hash ELSE nodes[q].next[l]]]
  <1>1. ASSUME NEW q \in Path, nodes[q] # NoNode
        PROVE  IsNodeAt(N(q), q)
    <2>1. IsNodeAt(nodes[q], q)
      BY <1>1, NodeInMap DEF TInv, TypeOK
    <2>2. /\ N(q).type = nodes[q].type /\ N(q).hash = nodes[q].hash
          /\ N(q).height = nodes[q].height /\ DOMAIN N(q).next = DOMAIN nodes[q].next
      OBVIOUS
    <2>3. \A l \in DOMAIN nodes[q].next : N(q).next[l] \in NodeHandle
      BY <2>1 DEF IsNodeAt, NodeHandle
    <2> HIDE DEF N
    <2> QED BY <2>1, <2>2, <2>3 DEF IsNodeAt, IsBinary, IsEdge
  <1>2. ReplaceInParent(p, hash) =
          [q \in Path |-> IF q = p \/ nodes[q] = NoNode THEN NoNode ELSE N(q)]
    BY DEF ReplaceInParent
  <1> HIDE DEF N
  <1> QED BY <1>1, <1>2 DEF IsNodeMap

LEMMA CommitSubtreeTInv ==
  ASSUME TInv, NEW p \in Path, CommitSubtree(p)
  PROVE  TInv'
  <1>1. CASE hashes[<< >>] = << >>
    <2>1. FailFrame /\ UNCHANGED <<root_node, nodes, death_row, cache_leaf_modified>>
      BY <1>1 DEF CommitSubtree, Fail, tree
    <2> QED BY <2>1, FailTInv DEF TInv, TypeOK
  <1>2. CASE hashes[<< >>] # << >>
    <2>1. hashes \in [Path -> Seq(Felt)] /\ hashes[<< >>] \in Seq(Felt)
      BY RootInPath DEF TInv, TypeOK
    <2>2. PICK hash : hash = Head(hashes[<< >>])
      OBVIOUS
    <2>3. hash \in Felt /\ Tail(hashes[<< >>]) \in Seq(Felt)
      BY <1>2, <2>1, <2>2
    <2>4. /\ updates' = [updates EXCEPT ![p] = Hashed(nodes[p], hash)]
          /\ nodes' = ReplaceInParent(p, hash)
          /\ hashes' = [hashes EXCEPT ![<< >>] = Tail(@)]
          /\ pc' \in {"Write", "CommitSubtree"}
          /\ UNCHANGED <<trie_db, flat_db, root_node, death_row, cache_leaf_modified, args,
                         current_path, current_nodes_heights, failed, latest>>
      BY <1>2, <2>2 DEF CommitSubtree, db, iter
    <2>5. hashes' \in [Path -> Seq(Felt)]
      BY <2>1, <2>3, <2>4
    <2>6. IsNodeAt(nodes[p], p)
      BY NodeInMap DEF TInv, TypeOK, CommitSubtree, CommitsNext
    <2>7. IsNodeAt(Hashed(nodes[p], hash), p)
      BY <2>3, <2>6 DEF IsNodeAt, Hashed, IsBinary, IsEdge
    <2>8. IsNodeMap(updates', {NoNode, NoChange})
      BY <2>4, <2>7 DEF TInv, TypeOK, IsNodeMap
    <2>9. IsNodeMap(nodes', {NoNode})
      BY <2>3, <2>4, ReplaceInParentType
    <2>10. current_path = << >> /\ current_nodes_heights = << >>
      BY DEF CommitSubtree, TInv, IteratorOnKey
    <2> QED BY <2>4, <2>5, <2>8, <2>9, <2>10 DEF TInv, TypeOK, IteratorOnKey
  <1> QED BY <1>1, <1>2

(***************************************************************************)
(* The theorems                                                            *)
(***************************************************************************)
LEMMA NextTInv == TInv /\ [Next]_vars => TInv'
  <1> SUFFICES ASSUME TInv, [Next]_vars PROVE TInv'
    OBVIOUS
  <1>1. CASE UNCHANGED vars
    <2>1. UNCHANGED <<trie_db, flat_db, root_node, nodes, death_row, cache_leaf_modified,
                      pc, args, current_path, current_nodes_heights, hashes, updates,
                      failed, latest>>
      BY <1>1 DEF vars, db, tree, iter, commit
    <2>2. TypeOK'
      BY <2>1 DEF TInv, TypeOK
    <2>3. /\ Consecutive(current_nodes_heights)' = Consecutive(current_nodes_heights)
          /\ Consecutive(Append(current_nodes_heights, Len(current_path)))'
               = Consecutive(Append(current_nodes_heights, Len(current_path)))
      BY <2>1 DEF Consecutive, NodeAtHeight
    <2>4. LastNode' = LastNode /\ LastHeight' = LastHeight
      BY <2>1 DEF LastNode, LastPath, LastHeight
    <2>5. IteratorOnKey'
      BY <2>1, <2>3, <2>4, Zenon DEF TInv, IteratorOnKey, IsBinary
    <2> QED BY <2>2, <2>5 DEF TInv
  <1>2. ASSUME NEW key \in Keys, NEW value \in Values,
               SetCached(key, value) \/ SetSame(key, value) \/ SetSeek(key, value)
        PROVE  TInv'
    BY <1>2, StartTInv, ValuesAssumption
  <1>3. ASSUME NEW key \in Keys, DeleteAbsent(key) \/ DeleteSeek(key)
        PROVE  TInv'
    BY <1>3, StartTInv, ZERO \in Felt DEF ZERO, Felt
  <1>4. CASE CommitStart
    BY <1>4, CommitStartTInv
  <1>5. CASE Step
    <2>1. CASE LoadRootNode
      BY <2>1, LoadRootTInv
    <2>2. CASE TraverseOne
      BY <2>2, TraverseTInv
    <2>3. CASE SetFirstLeaf
      BY <2>3, SetFirstLeafTInv
    <2>4. CASE SetLeafUnderEdge
      BY <2>4, SetLeafUnderEdgeTInv
    <2>5. CASE SetLeafUnderBinary
      BY <2>5, SetLeafUnderBinaryTInv
    <2>6. CASE SetSplitsEdge
      BY <2>6, SetSplitsEdgeTInv
    <2>7. CASE DeleteLastLeaf
      BY <2>7, DeleteLastLeafTInv
    <2>8. CASE DeleteAtBranch
      BY <2>8, DeleteAtBranchTInv
    <2>9. CASE DeleteAtBranchUnderEdge
      BY <2>9, DeleteAtBranchUnderEdgeTInv
    <2>10. ASSUME NEW p \in Path, ComputeHash(p) PROVE TInv'
      BY <2>10, ComputeHashTInv
    <2>11. ASSUME NEW p \in Path, CommitSubtree(p) PROVE TInv'
      BY <2>11, CommitSubtreeTInv
    <2>12. CASE CommitWrite \/ CommitWriteFails
      BY <2>12, CommitWriteTInv
    <2>13. CASE SeekFails \/ MergeReadFails
      BY <2>13, ReadErrorTInv
    <2> QED BY <1>5, <2>1, <2>2, <2>3, <2>4, <2>5, <2>6, <2>7, <2>8, <2>9, <2>10, <2>11,
               <2>12, <2>13 DEF Step
  <1>6. CASE Reopen
    BY <1>6, ReopenTInv
  <1> QED BY <1>1, <1>2, <1>3, <1>4, <1>5, <1>6 DEF Next

\* Every reachable state of one tree is well typed (trie/tree.rs): nodes sit at
\* their own height, no arc leaves the tree, and every path that set, delete_leaf
\* and commit compute with unsigned arithmetic on lengths is a path of the tree.
THEOREM TypeCorrect == Spec => []TypeOK
  <1>1. TInv => TypeOK
    BY DEF TInv
  <1> QED BY <1>1, InitTInv, NextTInv, PTL DEF Spec

\* The iterator (trie/iterator.rs) stays on the key whatever is loaded, split or
\* merged: consecutive nodes are linked and it stops below a binary node only at
\* a leaf.
THEOREM IteratorCorrect == Spec => []IteratorOnKey
  <1>1. TInv => IteratorOnKey
    BY DEF TInv
  <1> QED BY <1>1, InitTInv, NextTInv, PTL DEF Spec

(***************************************************************************)
(* Reads return the latest write.  While a set is under way its own key is *)
(* the exception: the client asked for the value, the cache does not have  *)
(* it yet.  A set that ended without storing it would break the invariant, *)
(* which is why it needs the iterator's.                                   *)
(***************************************************************************)
SetUnderWay == pc \in {"LoadRoot", "Traverse", "Finish"} /\ args.value # ZERO

LatestAt(k) ==
    IF SetUnderWay /\ k = args.key THEN latest[k] = args.value ELSE get(k) = latest[k]

LatestInv == TInv /\ \A k \in Key : LatestAt(k)

LEMMA GetCases ==
  ASSUME NEW k \in Key
  PROVE  /\ cache_leaf_modified[k] = Remove => get(k) = None
         /\ cache_leaf_modified[k] = None => get(k) = flat_db[k]
         /\ cache_leaf_modified[k] \in Felt => get(k) = cache_leaf_modified[k]
  BY RemoveAssumption DEF get

\* A step outside the set of a key that changes neither the leaves nor what
\* the client asked for.
LEMMA LatestUnchanged ==
  ASSUME LatestInv, UNCHANGED <<flat_db, cache_leaf_modified, latest>>,
         SetUnderWay' <=> SetUnderWay, SetUnderWay => args' = args,
         NEW k \in Key
  PROVE  LatestAt(k)'
  <1>1. get(k)' = get(k) /\ latest'[k] = latest[k]
    BY DEF get
  <1>2. CASE SetUnderWay /\ k = args.key
    BY <1>1, <1>2 DEF LatestInv, LatestAt
  <1>3. CASE ~(SetUnderWay /\ k = args.key)
    BY <1>1, <1>3 DEF LatestInv, LatestAt
  <1> QED BY <1>2, <1>3

\* The calls as the client sees them.
LEMMA StartLatest ==
  ASSUME SafeRewrites, LatestInv, NEW key \in Keys, NEW value \in Felt \ {ZERO},
         \/ SetCached(key, value) \/ SetSame(key, value) \/ SetSeek(key, value)
         \/ DeleteAbsent(key) \/ DeleteSeek(key),
         NEW k \in Key
  PROVE  LatestAt(k)'
  <1>1. /\ pc = "Idle" /\ key \in Key
        /\ cache_leaf_modified \in [Key -> Felt \cup {None, Remove}]
        /\ latest \in [Key -> Felt \cup {None}]
    BY KeysAssumption DEF LatestInv, TInv, TypeOK, SetCached, SetSame, SetSeek, DeleteAbsent,
                          DeleteSeek, StartSet, StartDelete
  <1>2. get(k) = latest[k]
    BY <1>1 DEF LatestInv, LatestAt, SetUnderWay
  <1>3. flat_db' = flat_db
    BY DEF SetCached, SetSame, SetSeek, DeleteAbsent, DeleteSeek, Seek, db
  <1>4. CASE SetCached(key, value)
    <2>1. ~SetUnderWay' /\ latest' = [latest EXCEPT ![key] = value]
          /\ cache_leaf_modified' = [cache_leaf_modified EXCEPT ![key] = value]
      BY <1>1, <1>4 DEF SetCached, StartSet, SetUnderWay
    <2>2. get(k)' = IF k = key THEN value ELSE get(k)
      BY <1>1, <1>3, <2>1, RemoveAssumption DEF get
    <2> QED BY <1>1, <1>2, <2>1, <2>2 DEF LatestAt
  <1>5. CASE SetSame(key, value)
    <2>1. ~SetUnderWay' /\ latest' = [latest EXCEPT ![key] = value]
          /\ cache_leaf_modified' = cache_leaf_modified
          /\ cache_leaf_modified[key] = None /\ flat_db[key] = value
      BY <1>1, <1>5 DEF SetSame, StartSet, SetUnderWay, CachedInsert, UnsafeRewrite, tree
    <2>2. get(k)' = get(k) /\ get(key) = value
      BY <1>1, <1>3, <2>1, GetCases DEF get
    <2> QED BY <1>1, <1>2, <2>1, <2>2 DEF LatestAt
  <1>6. CASE SetSeek(key, value)
    <2>1. SetUnderWay' /\ args'.key = key /\ args'.value = value
          /\ latest' = [latest EXCEPT ![key] = value]
          /\ cache_leaf_modified' = cache_leaf_modified
      BY <1>6 DEF SetSeek, StartSet, Seek, SetUnderWay
    <2>2. get(k)' = get(k)
      BY <1>3, <2>1 DEF get
    <2> QED BY <1>1, <1>2, <2>1, <2>2 DEF LatestAt
  <1>7. CASE DeleteAbsent(key)
    <2>1. ~SetUnderWay' /\ latest' = [latest EXCEPT ![key] = None]
          /\ cache_leaf_modified' = cache_leaf_modified
          /\ ~TreeHasValue(key)
      BY <1>1, <1>7 DEF DeleteAbsent, StartDelete, SetUnderWay, tree
    <2>2. get(k)' = get(k) /\ get(key) = None
      BY <1>1, <1>3, <2>1, GetCases DEF get, TreeHasValue
    <2> QED BY <1>1, <1>2, <2>1, <2>2 DEF LatestAt
  <1>8. CASE DeleteSeek(key)
    <2>1. ~SetUnderWay' /\ latest' = [latest EXCEPT ![key] = None]
          /\ cache_leaf_modified' = [cache_leaf_modified EXCEPT ![key] = Remove]
      BY <1>8 DEF DeleteSeek, StartDelete, Seek, SetUnderWay
    <2>2. CASE k = key
      <3>1. cache_leaf_modified'[k] = Remove
        BY <1>1, <2>1, <2>2
      <3>2. get(k)' = None
        BY <3>1, RemoveAssumption DEF get
      <3> QED BY <1>1, <2>1, <2>2, <3>2 DEF LatestAt
    <2>3. CASE k # key
      <3>1. cache_leaf_modified'[k] = cache_leaf_modified[k]
        BY <1>1, <2>1, <2>3
      <3>2. get(k)' = get(k)
        BY <1>3, <3>1 DEF get
      <3> QED BY <1>1, <1>2, <2>1, <2>3, <3>2 DEF LatestAt
    <2> QED BY <2>2, <2>3
  <1> QED BY <1>4, <1>5, <1>6, <1>7, <1>8

\* A set that has found its place stores the value, whichever node it ended at.
LEMMA SetLatest ==
  ASSUME LatestInv,
         SetFirstLeaf \/ SetLeafUnderEdge \/ SetLeafUnderBinary \/ SetSplitsEdge,
         NEW k \in Key
  PROVE  LatestAt(k)'
  <1>1. SetLeafInCache
    <2>1. CASE SetLeafUnderBinary
      <3>1. LastNode.height + 1 = MaxHeight
        BY <2>1, UnderBinary DEF LatestInv, SetLeafUnderBinary
      <3> QED BY <2>1, <3>1 DEF SetLeafUnderBinary
    <2> QED BY <2>1 DEF SetFirstLeaf, SetLeafUnderEdge, SetSplitsEdge
  <1>2. Setting /\ FinishSetFrame
    BY DEF SetFirstLeaf, SetLeafUnderEdge, SetLeafUnderBinary, SetSplitsEdge
  <1>3. SetUnderWay /\ ~SetUnderWay' /\ flat_db' = flat_db /\ latest' = latest
    BY <1>2 DEF Setting, SetUnderWay, FinishSetFrame, Return, db
  <1>4. cache_leaf_modified \in [Key -> Felt \cup {None, Remove}] /\ args.value \in Felt
        /\ args.key \in Key
    BY DEF LatestInv, TInv, TypeOK
  <1>5. get(k)' = IF k = args.key THEN args.value ELSE get(k)
    BY <1>1, <1>3, <1>4, RemoveAssumption DEF get, SetLeafInCache
  <1> QED BY <1>3, <1>5 DEF LatestInv, LatestAt

LEMMA FailLatest ==
  ASSUME FailFrame, UNCHANGED cache_leaf_modified, NEW k \in Key
  PROVE  LatestAt(k)'
  <1>1. ~SetUnderWay'
    BY DEF FailFrame, Return, SetUnderWay
  <1>2. get(k)' = get(k)
    BY DEF FailFrame, db, get
  <1>3. latest'[k] = get(k)
    BY DEF FailFrame
  <1> QED BY <1>1, <1>2, <1>3 DEF LatestAt

LEMMA ReadErrorLatest ==
  ASSUME SeekFails \/ MergeReadFails, NEW k \in Key
  PROVE  LatestAt(k)'
  <1>1. ReadErrorFrame
    BY DEF SeekFails, MergeReadFails
  <1>2. ~SetUnderWay'
    BY <1>1 DEF ReadErrorFrame, Return, SetUnderWay
  <1>3. get(k)' = get(k)
    BY <1>1 DEF ReadErrorFrame, db, get
  <1>4. latest'[k] = get(k)
    BY <1>1 DEF ReadErrorFrame
  <1> QED BY <1>2, <1>3, <1>4 DEF LatestAt

\* After these only the database counts.
LEMMA ClearedLatest ==
  ASSUME LatestInv, Reopen \/ CommitWrite \/ CommitWriteFails, NEW k \in Key
  PROVE  LatestAt(k)'
  <1>1. ~SetUnderWay' /\ cache_leaf_modified' = NoLeaves
    BY DEF Reopen, CommitWrite, CommitWriteFails, ClearTree, Return, SetUnderWay
  <1>2. get(k)' = flat_db'[k]
    BY <1>1, RemoveAssumption DEF get, NoLeaves
  <1>3. flat_db'[k] = latest'[k]
    <2>1. CASE CommitWrite
      <3>1. ~SetUnderWay /\ latest' = latest /\ flat_db'[k] = get(k)
        BY <2>1 DEF CommitWrite, SetUnderWay
      <3> QED BY <3>1 DEF LatestInv, LatestAt
    <2>2. CASE Reopen \/ CommitWriteFails
      BY <2>2 DEF Reopen, CommitWriteFails, db
    <2> QED BY <2>1, <2>2
  <1> QED BY <1>1, <1>2, <1>3 DEF LatestAt

LEMMA InitLatest == Init => LatestInv
  <1> SUFFICES ASSUME Init, NEW k \in Key PROVE LatestAt(k)
    BY InitTInv DEF LatestInv
  <1>1. ~SetUnderWay /\ cache_leaf_modified[k] = None /\ flat_db[k] = latest[k]
    BY DEF Init, SetUnderWay, NoLeaves
  <1> QED BY <1>1, GetCases DEF LatestAt

LEMMA NextLatest == SafeRewrites /\ LatestInv /\ [Next]_vars => LatestInv'
  <1> SUFFICES ASSUME SafeRewrites, LatestInv, [Next]_vars, NEW k \in Key
               PROVE  LatestAt(k)'
    BY NextTInv DEF LatestInv
  <1>1. CASE UNCHANGED vars
    <2>1. UNCHANGED <<flat_db, cache_leaf_modified, latest, args, pc>>
      BY <1>1 DEF vars, db, tree, iter
    <2>2. SetUnderWay' <=> SetUnderWay
      BY <2>1 DEF SetUnderWay
    <2> QED BY <2>1, <2>2, LatestUnchanged
  <1>2. ASSUME NEW key \in Keys, NEW value \in Values,
               SetCached(key, value) \/ SetSame(key, value) \/ SetSeek(key, value)
        PROVE  LatestAt(k)'
    BY <1>2, StartLatest, ValuesAssumption
  <1>3. ASSUME NEW key \in Keys, DeleteAbsent(key) \/ DeleteSeek(key)
        PROVE  LatestAt(k)'
    <2>1. <<1>> \in Felt \ {ZERO}
      BY DEF Felt, ZERO
    <2> QED BY <1>3, <2>1, StartLatest
  <1>4. CASE CommitStart
    <2>1. UNCHANGED <<flat_db, cache_leaf_modified, latest>> /\ ~SetUnderWay /\ ~SetUnderWay'
      BY <1>4 DEF CommitStart, SetUnderWay, db
    <2> QED BY <2>1, LatestUnchanged
  <1>5. CASE LoadRootNode
    <2>1. UNCHANGED <<flat_db, cache_leaf_modified, latest, args>>
          /\ pc = "LoadRoot" /\ pc' \in {"Traverse", "Finish"}
      BY <1>5 DEF LoadRootNode, db, iter
    <2>2. SetUnderWay' <=> SetUnderWay
      BY <2>1 DEF SetUnderWay
    <2> QED BY <2>1, <2>2, LatestUnchanged
  <1>6. CASE TraverseOne
    <2>1. CASE TraversalBroken(nodes[current_path])
      BY <1>6, <2>1, FailLatest DEF TraverseOne, Fail, tree
    <2>2. CASE ~TraversalBroken(nodes[current_path])
      <3>1. UNCHANGED <<flat_db, cache_leaf_modified, latest, args>>
            /\ pc = "Traverse" /\ pc' \in {"Traverse", "Finish"}
        BY <1>6, <2>2 DEF TraverseOne, Advance, db
      <3>2. SetUnderWay' <=> SetUnderWay
        BY <3>1 DEF SetUnderWay
      <3> QED BY <3>1, <3>2, LatestUnchanged
    <2> QED BY <2>1, <2>2
  <1>7. CASE SetFirstLeaf \/ SetLeafUnderEdge \/ SetLeafUnderBinary \/ SetSplitsEdge
    BY <1>7, SetLatest
  <1>8. CASE DeleteLastLeaf \/ DeleteAtBranch \/ DeleteAtBranchUnderEdge
    <2>1. CASE FailAtBranch
      BY <2>1, FailLatest DEF FailAtBranch
    <2>2. CASE ~FailAtBranch
      <3>1. FinishDeleteFrame /\ Deleting
        BY <1>8, <2>2 DEF DeleteLastLeaf, DeleteAtBranch, DeleteAtBranchUnderEdge
      <3>2. UNCHANGED <<flat_db, cache_leaf_modified, latest>> /\ ~SetUnderWay /\ ~SetUnderWay'
        BY <3>1 DEF FinishDeleteFrame, Deleting, SetUnderWay, Return, db
      <3> QED BY <3>2, LatestUnchanged
    <2> QED BY <2>1, <2>2
  <1>9. ASSUME NEW p \in Path, ComputeHash(p) PROVE LatestAt(k)'
    <2>1. CASE HashBroken(p)
      BY <1>9, <2>1, FailLatest DEF ComputeHash, Fail, tree
    <2>2. CASE ~HashBroken(p)
      <3>1. UNCHANGED <<flat_db, cache_leaf_modified, latest>> /\ ~SetUnderWay /\ ~SetUnderWay'
        BY <1>9, <2>2 DEF ComputeHash, SetUnderWay, db, tree
      <3> QED BY <3>1, LatestUnchanged
    <2> QED BY <2>1, <2>2
  <1>10. ASSUME NEW p \in Path, CommitSubtree(p) PROVE LatestAt(k)'
    <2>1. CASE Fail
      BY <2>1, FailLatest DEF Fail, tree
    <2>2. CASE ~Fail
      <3>1. UNCHANGED <<flat_db, cache_leaf_modified, latest>> /\ ~SetUnderWay /\ ~SetUnderWay'
        BY <1>10, <2>2 DEF CommitSubtree, SetUnderWay, db
      <3> QED BY <3>1, LatestUnchanged
    <2> QED BY <2>1, <2>2
  <1>11. CASE Reopen \/ CommitWrite \/ CommitWriteFails
    BY <1>11, ClearedLatest
  <1>12. CASE SeekFails \/ MergeReadFails
    BY <1>12, ReadErrorLatest
  <1> QED BY <1>1, <1>2, <1>3, <1>4, <1>5, <1>6, <1>7, <1>8, <1>9, <1>10, <1>11, <1>12
          DEF Next, Step

\* If the client avoids the two rewrites that set gets wrong (UnsafeRewrite), a
\* read returns what the client last wrote (lib.rs, get and insert), through
\* any mix of calls, traversals, commits, failures and restarts.
THEOREM ReadsCorrect == SafeRewrites => (Spec => []ReadsLatestWrite)
  <1> SUFFICES ASSUME SafeRewrites PROVE Spec => []ReadsLatestWrite
    OBVIOUS
  <1>1. LatestInv /\ [Next]_vars => LatestInv'
    BY NextLatest
  <1>2. LatestInv => ReadsLatestWrite
    BY KeysAssumption DEF LatestInv, LatestAt, SetUnderWay, ReadsLatestWrite
  <1> QED BY <1>1, <1>2, InitLatest, PTL DEF Spec
=============================================================================
