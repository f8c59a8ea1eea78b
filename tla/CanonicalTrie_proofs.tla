------------------------- MODULE CanonicalTrie_proofs -------------------------
(***************************************************************************)
(* Paths, and the canonical trie of a map: what the proofs about one tree  *)
(* and about several trees share.  The trie below a path, hashes included, *)
(* depends on the leaves below it alone (StoredSame).                      *)
(***************************************************************************)
EXTENDS CanonicalTrie, TLAPS, WellFoundedInduction

LEMMA NatMin ==
  ASSUME NEW S \in SUBSET Nat, S # {}
  PROVE  \E m \in S : \A n \in S : m <= n
  <1>1. PICK m \in S : \A n \in S : ~(<<n, m>> \in OpToRel(<, Nat))
    BY WFMin, NatLessThanWellFounded, Zenon
  <1>2. \A n \in S : ~(n < m)
    BY <1>1 DEF OpToRel
  <1> QED BY <1>2

\* What holds at 0 and carries over to the next number holds up to N.
LEMMA UpTo ==
  ASSUME NEW N \in Nat, NEW S, 0 \in S, \A n \in 0..(N - 1) : n \in S => n + 1 \in S
  PROVE  0..N \subseteq S
  <1> DEFINE T == (0..N) \ S
  <1> SUFFICES ASSUME T # {} PROVE FALSE
    OBVIOUS
  <1>1. T \in SUBSET Nat
    OBVIOUS
  <1>2. PICK t \in T : \A o \in T : t <= o
    <2> HIDE DEF T
    <2> QED BY <1>1, NatMin
  <1>3. t \in 1..N
    <2>1. t \in 0..N /\ t # 0
      BY <1>2
    <2> QED BY <2>1
  <1>4. t - 1 \in 0..(N - 1) /\ t - 1 \in 0..N /\ ~(t <= t - 1) /\ (t - 1) + 1 = t
    BY <1>3
  <1>5. t - 1 \in S
    BY <1>2, <1>4
  <1>6. t \in S
    BY <1>4, <1>5
  <1> QED BY <1>2, <1>6

\* A function defined by recursion up to N, its step given as a function g,
\* exists: each partial solution is extended by one value.
Steps(N, V) == [(1..N) \X V -> V]

Solution(f, N, V, a, g) ==
    /\ f \in [0..N -> V] /\ f[0] = a
    /\ \A n \in 1..N : f[n] = g[<<n, f[n - 1]>>]

LEMMA RecursionUpTo ==
  ASSUME NEW N \in Nat, NEW V, NEW a \in V, NEW g \in Steps(N, V)
  PROVE  \E f : Solution(f, N, V, a, g)
  <1>0. g \in [(1..N) \X V -> V]
    BY DEF Steps
  <1> DEFINE Solves(f, m) == /\ f \in [0..N -> V] /\ f[0] = a
                             /\ \A n \in 1..m : f[n] = g[<<n, f[n - 1]>>]
             S == {m \in Nat : \E f : Solves(f, m)}
  <1>1. 0 \in S
    <2>1. Solves([n \in 0..N |-> a], 0)
      OBVIOUS
    <2> QED BY <2>1
  <1>2. ASSUME NEW m \in 0..(N - 1), m \in S PROVE m + 1 \in S
    <2>1. PICK f : Solves(f, m)
      BY <1>2
    <2> DEFINE e == [n \in 0..N |-> IF n = m + 1 THEN g[<<m + 1, f[m]>>] ELSE f[n]]
    <2>2. m \in 0..N /\ m + 1 \in 1..N /\ m + 1 \in 0..N
      OBVIOUS
    <2>3. g[<<m + 1, f[m]>>] \in V
      BY <1>0, <2>1, <2>2
    <2>4. e \in [0..N -> V]
      BY <2>1, <2>3
    <2>5. e[0] = a
      BY <2>1
    <2>6. ASSUME NEW n \in 1..(m + 1) PROVE e[n] = g[<<n, e[n - 1]>>]
      <3>1. CASE n = m + 1
        <4>1. e[n] = g[<<m + 1, f[m]>>] /\ n - 1 = m /\ e[m] = f[m]
          BY <2>2, <3>1
        <4> QED BY <3>1, <4>1
      <3>2. CASE n # m + 1
        <4>1. n \in 1..m /\ n \in 0..N /\ n - 1 \in 0..N /\ n - 1 # m + 1
          BY <3>2
        <4>2. e[n] = f[n] /\ e[n - 1] = f[n - 1]
          BY <3>2, <4>1
        <4> QED BY <2>1, <4>1, <4>2
      <3> QED BY <3>1, <3>2
    <2> HIDE DEF e
    <2>7. Solves(e, m + 1)
      BY <2>4, <2>5, <2>6
    <2> QED BY <2>7
  <1>3. N \in S
    <2>1. 0..N \subseteq S
      <3> HIDE DEF S
      <3> QED BY <1>1, <1>2, UpTo
    <2> QED BY <2>1
  <1> QED BY <1>3 DEF Solution

(***************************************************************************)
(* Paths                                                                   *)
(***************************************************************************)
LEMMA PathSeq == \A p : p \in Path <=> p \in Seq(Bit) /\ Len(p) <= MaxHeight
  <1>1. ASSUME NEW p \in Path PROVE p \in Seq(Bit) /\ Len(p) <= MaxHeight
    <2>1. PICK n \in 0..MaxHeight : p \in [1..n -> Bit]
      BY DEF Path
    <2> QED BY <2>1, MaxHeightAssumption
  <1>2. ASSUME NEW p \in Seq(Bit), Len(p) <= MaxHeight PROVE p \in Path
    <2>1. Len(p) \in 0..MaxHeight /\ p \in [1..Len(p) -> Bit]
      BY <1>2, MaxHeightAssumption
    <2> QED BY <2>1 DEF Path
  <1> QED BY <1>1, <1>2

LEMMA KeySeq == \A k : k \in Key <=> k \in Seq(Bit) /\ Len(k) = MaxHeight
  BY MaxHeightAssumption DEF Key

LEMMA KeyInPath == Key \subseteq Path
  BY KeySeq, PathSeq, MaxHeightAssumption

LEMMA RootInPath == << >> \in Path
  <1>1. << >> \in [1..0 -> Bit] /\ 0 \in 0..MaxHeight
    BY MaxHeightAssumption
  <1> QED BY <1>1 DEF Path

LEMMA FirstSeq ==
  ASSUME NEW s \in Seq(Bit), NEW n \in 0..Len(s)
  PROVE  /\ First(s, n) \in Seq(Bit) /\ Len(First(s, n)) = n
         /\ \A i \in 1..n : First(s, n)[i] = s[i]
  BY DEF First

LEMMA FromSeq ==
  ASSUME NEW s \in Seq(Bit), NEW n \in 0..Len(s)
  PROVE  /\ From(s, n) \in Seq(Bit) /\ Len(From(s, n)) = Len(s) - n
  BY DEF From

LEMMA ConcatSeq ==
  ASSUME NEW s \in Seq(Bit), NEW t \in Seq(Bit)
  PROVE  /\ s \o t \in Seq(Bit) /\ Len(s \o t) = Len(s) + Len(t)
         /\ \A i \in 1..Len(s) : (s \o t)[i] = s[i]
         /\ \A i \in 1..Len(t) : (s \o t)[Len(s) + i] = t[i]
  OBVIOUS

\* Two paths with the same bits are the same.
LEMMA SameSeq ==
  ASSUME NEW s \in Seq(Bit), NEW t \in Seq(Bit), Len(s) = Len(t),
         \A i \in 1..Len(s) : s[i] = t[i]
  PROVE  s = t
  OBVIOUS

LEMMA PathConcat ==
  ASSUME NEW p \in Seq(Bit), NEW l \in Seq(Bit)
  PROVE  p \o l \in Path <=> Len(p) + Len(l) <= MaxHeight
  BY ConcatSeq, PathSeq

LEMMA PrefixIs ==
  ASSUME NEW s \in Seq(Bit), NEW t \in Seq(Bit)
  PROVE  IsPrefixOf(s, t) <=> Len(s) <= Len(t) /\ \A i \in 1..Len(s) : s[i] = t[i]
  <1>1. CASE Len(s) <= Len(t)
    <2>1. Len(s) \in 0..Len(t)
      BY <1>1
    <2>2. /\ First(t, Len(s)) \in Seq(Bit) /\ Len(First(t, Len(s))) = Len(s)
          /\ \A i \in 1..Len(s) : First(t, Len(s))[i] = t[i]
      BY <2>1, FirstSeq
    <2>3. First(t, Len(s)) = s <=> \A i \in 1..Len(s) : s[i] = t[i]
      BY <2>2, SameSeq
    <2> QED BY <1>1, <2>3 DEF IsPrefixOf
  <1>2. CASE ~(Len(s) <= Len(t))
    BY <1>2 DEF IsPrefixOf
  <1> QED BY <1>1, <1>2

LEMMA PrefixTrans ==
  ASSUME NEW s \in Seq(Bit), NEW t \in Seq(Bit), NEW u \in Seq(Bit),
         IsPrefixOf(s, t), IsPrefixOf(t, u)
  PROVE  IsPrefixOf(s, u)
  BY PrefixIs

LEMMA PrefixConcat ==
  ASSUME NEW s \in Seq(Bit), NEW t \in Seq(Bit)
  PROVE  IsPrefixOf(s, s \o t)
  <1>0. s \o t \in Seq(Bit)
    OBVIOUS
  <1>1. PICK u \in Seq(Bit) : u = s \o t
    BY <1>0
  <1>2. Len(s) <= Len(u) /\ \A i \in 1..Len(s) : s[i] = u[i]
    BY <1>1
  <1>3. IsPrefixOf(s, u)
    BY <1>2, PrefixIs, Zenon
  <1> QED BY <1>1, <1>3

LEMMA EmptyPrefix == \A s \in Seq(Bit) : IsPrefixOf(<< >>, s)
  <1> TAKE s \in Seq(Bit)
  <1>0. << >> \in Seq(Bit)
    OBVIOUS
  <1>1. PICK e \in Seq(Bit) : e = << >>
    BY <1>0
  <1>2. Len(e) <= Len(s) /\ \A i \in 1..Len(e) : e[i] = s[i]
    BY <1>1
  <1>3. IsPrefixOf(e, s)
    BY <1>2, PrefixIs, Zenon
  <1> QED BY <1>1, <1>3

\* One bit further.
LEMMA AppendPath ==
  ASSUME NEW p \in Path, Len(p) < MaxHeight, NEW b \in Bit
  PROVE  /\ Append(p, b) \in Path /\ Len(Append(p, b)) = Len(p) + 1
         /\ Append(p, b) = p \o <<b>> /\ IsPrefixOf(p, Append(p, b))
         /\ Append(p, b)[Len(p) + 1] = b
         /\ \A i \in 1..Len(p) : Append(p, b)[i] = p[i]
  <1>1. p \in Seq(Bit) /\ Len(p) + 1 <= MaxHeight
    BY PathSeq, MaxHeightAssumption
  <1>2. Append(p, b) \in Seq(Bit) /\ Len(Append(p, b)) = Len(p) + 1
    BY <1>1
  <1>3. Append(p, b)[Len(p) + 1] = b /\ \A i \in 1..Len(p) : Append(p, b)[i] = p[i]
    BY <1>1
  <1>4. Append(p, b) = p \o <<b>>
    BY <1>1
  <1>5. Append(p, b) \in Path
    BY <1>1, <1>2, PathSeq
  <1>6. IsPrefixOf(p, Append(p, b))
    <2>1. PICK a \in Seq(Bit) : a = Append(p, b)
      BY <1>2
    <2>2. Len(p) <= Len(a) /\ \A i \in 1..Len(p) : p[i] = a[i]
      BY <1>1, <1>2, <1>3, <2>1
    <2>3. IsPrefixOf(p, a)
      BY <1>1, <2>2, PrefixIs, Zenon
    <2> QED BY <2>1, <2>3
  <1> QED BY <1>2, <1>3, <1>4, <1>5, <1>6

\* A longer path goes on with one of the two bits.
LEMMA PrefixSplit ==
  ASSUME NEW p \in Path, Len(p) < MaxHeight, NEW k \in Key, IsPrefixOf(p, k)
  PROVE  \E b \in Bit : IsPrefixOf(Append(p, b), k)
  <1>1. p \in Seq(Bit) /\ k \in Seq(Bit) /\ Len(k) = MaxHeight /\ Len(p) \in Nat
    BY PathSeq, KeySeq
  <1>2. Len(p) + 1 \in 1..Len(k) /\ k[Len(p) + 1] \in Bit
    BY <1>1, MaxHeightAssumption
  <1> DEFINE b == k[Len(p) + 1]  a == Append(p, b)
  <1>3. /\ a \in Path /\ Len(a) = Len(p) + 1 /\ a[Len(p) + 1] = b
        /\ \A i \in 1..Len(p) : a[i] = p[i]
    BY <1>2, AppendPath
  <1>4. a \in Seq(Bit)
    BY <1>3, PathSeq
  <1>5. \A i \in 1..Len(p) : p[i] = k[i]
    BY <1>1, PrefixIs
  <1>6. \A i \in 1..Len(a) : a[i] = k[i]
    <2> TAKE i \in 1..Len(a)
    <2>1. i \in 1..Len(p) \/ i = Len(p) + 1
      BY <1>1, <1>3
    <2> QED BY <1>3, <1>5, <2>1
  <1>7. Len(a) <= Len(k)
    BY <1>2, <1>3
  <1> HIDE DEF a
  <1>8. IsPrefixOf(a, k)
    BY <1>1, <1>4, <1>6, <1>7, PrefixIs
  <1> QED BY <1>2, <1>8 DEF a

(***************************************************************************)
(* The keys through a path                                                 *)
(***************************************************************************)
\* Two maps hold the same leaves below a path.
SameBelow(m, n, p) == \A k \in Key : IsPrefixOf(p, k) => m[k] = n[k]

LEMMA SameBelowDeeper ==
  ASSUME NEW m, NEW n, NEW p \in Path, NEW q \in Path, IsPrefixOf(p, q), SameBelow(m, n, p)
  PROVE  SameBelow(m, n, q)
  <1> SUFFICES ASSUME NEW k \in Key, IsPrefixOf(q, k) PROVE m[k] = n[k]
    BY DEF SameBelow
  <1>1. p \in Seq(Bit) /\ q \in Seq(Bit) /\ k \in Seq(Bit)
    BY PathSeq, KeySeq
  <1>2. IsPrefixOf(p, k)
    BY <1>1, PrefixTrans
  <1> QED BY <1>2 DEF SameBelow

LEMMA ThroughSame ==
  ASSUME NEW m, NEW n, NEW p, SameBelow(m, n, p)
  PROVE  Through(m, p) = Through(n, p)
  BY DEF SameBelow, Through

LEMMA BranchesSame ==
  ASSUME NEW m, NEW n, NEW p \in Path, SameBelow(m, n, p)
  PROVE  Branches(m, p) = Branches(n, p)
  <1>1. CASE Len(p) < MaxHeight
    <2>1. ASSUME NEW b \in Bit PROVE Through(m, Append(p, b)) = Through(n, Append(p, b))
      BY <1>1, AppendPath, SameBelowDeeper, ThroughSame
    <2> QED BY <2>1 DEF Branches
  <1>2. CASE ~(Len(p) < MaxHeight)
    BY <1>2 DEF Branches
  <1> QED BY <1>1, <1>2

\* The paths all keys through p share.
SharedPaths(m, p) ==
    {l \in Path : Len(p) + Len(l) <= MaxHeight /\ Through(m, p \o l) = Through(m, p)}

LEMMA SharedPathIs ==
  ASSUME NEW m, NEW p
  PROVE  SharedPath(m, p) = CHOOSE l \in SharedPaths(m, p) :
                                \A o \in SharedPaths(m, p) : Len(o) <= Len(l)
  BY DEF SharedPath, SharedPaths

LEMMA SharedPathSame ==
  ASSUME NEW m, NEW n, NEW p \in Path, SameBelow(m, n, p)
  PROVE  SharedPath(m, p) = SharedPath(n, p)
  <1>1. ASSUME NEW l \in Path, Len(p) + Len(l) <= MaxHeight
        PROVE  Through(m, p \o l) = Through(n, p \o l)
    <2>1. p \in Seq(Bit) /\ l \in Seq(Bit)
      BY PathSeq
    <2>2. p \o l \in Path /\ IsPrefixOf(p, p \o l)
      BY <1>1, <2>1, PathConcat, PrefixConcat
    <2> QED BY <2>2, SameBelowDeeper, ThroughSame
  <1>2. Through(m, p) = Through(n, p)
    BY ThroughSame
  <1>3. SharedPaths(m, p) = SharedPaths(n, p)
    BY <1>1, <1>2 DEF SharedPaths
  <1> QED BY <1>3, SharedPathIs

\* Among paths there is a longest one.
LEMMA LongestPath ==
  ASSUME NEW S \in SUBSET Path, S # {}
  PROVE  \E l \in S : \A o \in S : Len(o) <= Len(l)
  <1> DEFINE T == {MaxHeight - Len(l) : l \in S}
  <1>1. \A l \in S : Len(l) \in Nat /\ Len(l) <= MaxHeight /\ MaxHeight - Len(l) \in Nat
    BY PathSeq, MaxHeightAssumption
  <1>2. T \in SUBSET Nat /\ T # {}
    BY <1>1
  <1>3. PICK t \in T : \A o \in T : t <= o
    <2> HIDE DEF T
    <2> QED BY <1>2, NatMin
  <1>4. PICK l \in S : t = MaxHeight - Len(l)
    BY <1>3
  <1>5. ASSUME NEW o \in S PROVE Len(o) <= Len(l)
    <2>1. MaxHeight - Len(l) <= MaxHeight - Len(o)
      BY <1>3, <1>4
    <2> QED BY <1>1, <2>1, MaxHeightAssumption
  <1> QED BY <1>5

\* Where the keys do not part, they share at least one bit.
LEMMA SharedPathType ==
  ASSUME NEW m, NEW p \in Path, Len(p) < MaxHeight, ~Branches(m, p)
  PROVE  LET l == SharedPath(m, p)
         IN  /\ l \in Path /\ l # << >> /\ p \o l \in Path
             /\ Len(p \o l) > Len(p) /\ IsPrefixOf(p, p \o l)
             /\ Through(m, p \o l) = Through(m, p)
  <1> DEFINE S == SharedPaths(m, p)
  <1>1. p \in Seq(Bit) /\ Len(p) \in Nat /\ Len(p) + 1 <= MaxHeight
    BY PathSeq, MaxHeightAssumption
  <1>2. PICK b \in Bit : Through(m, Append(p, b)) = {}
    BY DEF Branches
  <1>3. PICK c \in Bit : c # b /\ \A x \in Bit : x = b \/ x = c
    BY DEF Bit
  <1>4. Through(m, Append(p, c)) = Through(m, p)
    <2>1. ASSUME NEW k \in Through(m, p) PROVE k \in Through(m, Append(p, c))
      <3>1. k \in Key /\ m[k] # None /\ IsPrefixOf(p, k)
        BY DEF Through
      <3>2. PICK x \in Bit : IsPrefixOf(Append(p, x), k)
        BY <3>1, PrefixSplit
      <3>3. k \in Through(m, Append(p, x))
        BY <3>1, <3>2 DEF Through
      <3> QED BY <1>2, <1>3, <3>3
    <2>2. ASSUME NEW k \in Through(m, Append(p, c)) PROVE k \in Through(m, p)
      <3>1. k \in Key /\ m[k] # None /\ IsPrefixOf(Append(p, c), k)
        BY DEF Through
      <3>2. Append(p, c) \in Path /\ IsPrefixOf(p, Append(p, c))
        BY AppendPath
      <3>3. Append(p, c) \in Seq(Bit) /\ k \in Seq(Bit)
        BY <3>1, <3>2, PathSeq, KeySeq
      <3>4. IsPrefixOf(p, k)
        BY <1>1, <3>1, <3>2, <3>3, PrefixTrans
      <3> QED BY <3>1, <3>4 DEF Through
    <2> QED BY <2>1, <2>2
  <1>5. PICK l1 : l1 = <<c>> /\ l1 \in Seq(Bit) /\ Len(l1) = 1
    <2>1. <<c>> \in Seq(Bit) /\ Len(<<c>>) = 1
      OBVIOUS
    <2> QED BY <2>1
  <1>6. l1 \in S
    <2>1. l1 \in Path
      <3>1. l1 \in Seq(Bit) /\ Len(l1) <= MaxHeight
        BY <1>5, MaxHeightAssumption
      <3> QED BY <3>1, PathSeq, Zenon
    <2>2. Append(p, c) = p \o l1
      BY <1>5, AppendPath
    <2> QED BY <1>1, <1>4, <1>5, <2>1, <2>2 DEF SharedPaths
  <1>7. S \in SUBSET Path /\ S # {}
    BY <1>6 DEF SharedPaths
  <1>8. \E l \in S : \A o \in S : Len(o) <= Len(l)
    <2> HIDE DEF S
    <2> QED BY <1>7, LongestPath
  <1> DEFINE l == SharedPath(m, p)
  <1>9. l \in S /\ \A o \in S : Len(o) <= Len(l)
    <2>1. l = CHOOSE x \in S : \A o \in S : Len(o) <= Len(x)
      BY SharedPathIs
    <2> HIDE DEF S, l
    <2> QED BY <1>8, <2>1
  <1> HIDE DEF l
  <1>10. l \in Path /\ Len(p) + Len(l) <= MaxHeight /\ Through(m, p \o l) = Through(m, p)
    BY <1>9 DEF SharedPaths
  <1>11. l \in Seq(Bit) /\ Len(l) >= 1
    BY <1>5, <1>6, <1>9, <1>10, PathSeq
  <1>12. /\ p \o l \in Path /\ IsPrefixOf(p, p \o l)
         /\ Len(p \o l) = Len(p) + Len(l) /\ l # << >>
    BY <1>1, <1>10, <1>11, PathConcat, PrefixConcat, ConcatSeq
  <1>13. Len(p \o l) > Len(p)
    BY <1>1, <1>11, <1>12
  <1> QED BY <1>10, <1>12, <1>13 DEF l

LEMMA LabelsSame ==
  ASSUME NEW m, NEW n, NEW p \in Path, SameBelow(m, n, p)
  PROVE  Labels(m, p) = Labels(n, p)
  BY BranchesSame, SharedPathSame DEF Labels

(***************************************************************************)
(* The hashes.  SubtreeHash is a recursive function; that it satisfies its *)
(* equation is shown by extending a function that does so below a height   *)
(* by one height (HashesExist).                                            *)
(***************************************************************************)
HashAt(m, h, p) ==
    IF Len(p) = MaxHeight THEN m[p]
    ELSE IF Branches(m, p)
         THEN hash_binary_node(h[Append(p, 0)], h[Append(p, 1)])
         ELSE hash_edge_node(SharedPath(m, p), h[p \o SharedPath(m, p)])

\* The hash at a path depends on longer paths only.
LEMMA HashAtLocal ==
  ASSUME NEW m, NEW p \in Path, NEW h, NEW g,
         \A q \in Path : Len(q) > Len(p) /\ IsPrefixOf(p, q) => h[q] = g[q]
  PROVE  HashAt(m, h, p) = HashAt(m, g, p)
  <1>0. Len(p) \in Nat /\ Len(p) <= MaxHeight
    BY PathSeq
  <1>1. CASE Len(p) = MaxHeight
    BY <1>1 DEF HashAt
  <1>2. CASE Len(p) # MaxHeight /\ Branches(m, p)
    <2>1. Len(p) < MaxHeight
      BY <1>0, <1>2, MaxHeightAssumption
    <2>2. ASSUME NEW b \in Bit PROVE h[Append(p, b)] = g[Append(p, b)]
      <3>1. Append(p, b) \in Path /\ Len(Append(p, b)) = Len(p) + 1 /\ IsPrefixOf(p, Append(p, b))
        BY <2>1, AppendPath
      <3>2. Len(Append(p, b)) > Len(p)
        BY <1>0, <3>1
      <3> QED BY <3>1, <3>2
    <2>3. h[Append(p, 0)] = g[Append(p, 0)] /\ h[Append(p, 1)] = g[Append(p, 1)]
      BY <2>2 DEF Bit
    <2> QED BY <1>2, <2>3 DEF HashAt
  <1>3. CASE Len(p) # MaxHeight /\ ~Branches(m, p)
    <2>1. Len(p) < MaxHeight
      BY <1>0, <1>3, MaxHeightAssumption
    <2>2. h[p \o SharedPath(m, p)] = g[p \o SharedPath(m, p)]
      BY <1>3, <2>1, SharedPathType
    <2> QED BY <1>3, <2>2 DEF HashAt
  <1> QED BY <1>1, <1>2, <1>3

\* Functions that satisfy the equation on the paths longer than MaxHeight - n.
HashesFrom(m, n, h) ==
    /\ h = [p \in Path |-> h[p]]
    /\ \A p \in Path : Len(p) + n > MaxHeight => h[p] = HashAt(m, h, p)

LEMMA HashesExtend ==
  ASSUME NEW m, NEW n \in Nat, NEW h, HashesFrom(m, n, h)
  PROVE  \E g : HashesFrom(m, n + 1, g)
  <1> DEFINE g == [p \in Path |-> IF Len(p) + n > MaxHeight THEN h[p] ELSE HashAt(m, h, p)]
  <1>0. \A p \in Path : Len(p) \in Nat
    BY PathSeq
  <1>1. ASSUME NEW p \in Path, Len(p) + (n + 1) > MaxHeight PROVE g[p] = HashAt(m, g, p)
    <2>1. \A q \in Path : Len(q) > Len(p) => Len(q) + n > MaxHeight
      BY <1>0, <1>1, MaxHeightAssumption
    <2>2. \A q \in Path : Len(q) > Len(p) => h[q] = g[q]
      BY <2>1
    <2>3. HashAt(m, h, p) = HashAt(m, g, p)
      <3> HIDE DEF g
      <3> QED BY <2>2, HashAtLocal
    <2>4. g[p] = HashAt(m, h, p)
      BY DEF HashesFrom
    <2> QED BY <2>3, <2>4
  <1>2. g = [p \in Path |-> g[p]]
    OBVIOUS
  <1> HIDE DEF g
  <1>3. HashesFrom(m, n + 1, g)
    BY <1>1, <1>2 DEF HashesFrom
  <1> QED BY <1>3

LEMMA HashesExist ==
  ASSUME NEW m
  PROVE  \E h : h = [p \in Path |-> HashAt(m, h, p)]
  <1> DEFINE S == {n \in Nat : ~\E h : HashesFrom(m, n, h)}
  <1>1. S = {}
    <2> SUFFICES ASSUME S # {} PROVE FALSE
      OBVIOUS
    <2>1. S \in SUBSET Nat
      OBVIOUS
    <2>2. PICK n \in S : \A o \in S : n <= o
      <3> HIDE DEF S
      <3> QED BY <2>1, NatMin
    <2>3. CASE n = 0
      <3> DEFINE z == [p \in Path |-> 0]
      <3>1. \A p \in Path : ~(Len(p) + 0 > MaxHeight)
        BY PathSeq, MaxHeightAssumption
      <3>2. z = [p \in Path |-> z[p]]
        OBVIOUS
      <3> HIDE DEF z
      <3>3. HashesFrom(m, 0, z)
        BY <3>1, <3>2 DEF HashesFrom
      <3> QED BY <2>2, <2>3, <3>3
    <2>4. CASE n # 0
      <3>1. PICK o \in Nat : n = o + 1
        <4>1. n - 1 \in Nat /\ n = (n - 1) + 1
          BY <2>2, <2>4
        <4> QED BY <4>1
      <3>2. o \notin S
        BY <2>2, <3>1
      <3>3. PICK h : HashesFrom(m, o, h)
        BY <3>2
      <3>4. \E g : HashesFrom(m, o + 1, g)
        BY <3>3, HashesExtend
      <3> QED BY <2>2, <3>1, <3>4
    <2> QED BY <2>3, <2>4
  <1>2. PICK h : HashesFrom(m, MaxHeight + 1, h)
    <2>1. MaxHeight + 1 \in Nat
      BY MaxHeightAssumption
    <2> QED BY <1>1, <2>1
  <1>3. \A p \in Path : Len(p) + (MaxHeight + 1) > MaxHeight
    BY PathSeq, MaxHeightAssumption
  <1>4. h = [p \in Path |-> HashAt(m, h, p)]
    BY <1>2, <1>3 DEF HashesFrom
  <1> QED BY <1>4

LEMMA SubtreeHashIs ==
  ASSUME NEW m
  PROVE  /\ SubtreeHash(m) = [p \in Path |-> SubtreeHash(m)[p]]
         /\ \A p \in Path : SubtreeHash(m)[p] = HashAt(m, SubtreeHash(m), p)
  <1> DEFINE F == CHOOSE h : h = [p \in Path |-> HashAt(m, h, p)]
  <1>1. SubtreeHash(m) = F
    BY DEF SubtreeHash, HashAt
  <1>2. F = [p \in Path |-> HashAt(m, F, p)]
    BY HashesExist
  <1> HIDE DEF F
  <1>3. \A p \in Path : F[p] = HashAt(m, F, p)
    BY <1>2
  <1>4. F = [p \in Path |-> F[p]]
    BY <1>2
  <1> QED BY <1>1, <1>3, <1>4

\* The hash of a subtree depends on the leaves below it alone.
LEMMA SubtreeHashSame ==
  ASSUME NEW m, NEW n, NEW p \in Path, SameBelow(m, n, p)
  PROVE  SubtreeHash(m)[p] = SubtreeHash(n)[p]
  <1> DEFINE H == SubtreeHash(m)
             G == SubtreeHash(n)
             Bad(q) == IsPrefixOf(p, q) /\ H[q] # G[q]
             S == {q \in Path : Bad(q)}
  <1>1. \A q \in Path : H[q] = HashAt(m, H, q) /\ G[q] = HashAt(n, G, q)
    BY SubtreeHashIs
  <1> HIDE DEF H, G
  <1>2. S = {}
    <2> SUFFICES ASSUME S # {} PROVE FALSE
      OBVIOUS
    <2>1. S \in SUBSET Path
      OBVIOUS
    <2>2. PICK q \in S : \A o \in S : Len(o) <= Len(q)
      <3> HIDE DEF S
      <3> QED BY <2>1, LongestPath
    <2>3. q \in Path /\ IsPrefixOf(p, q) /\ H[q] # G[q]
      BY <2>2
    <2>4. ASSUME NEW o \in Path, Len(o) > Len(q), IsPrefixOf(q, o) PROVE H[o] = G[o]
      <3>1. p \in Seq(Bit) /\ q \in Seq(Bit) /\ o \in Seq(Bit)
        BY <2>3, PathSeq
      <3>2. IsPrefixOf(p, o)
        BY <2>3, <2>4, <3>1, PrefixTrans
      <3>3. o \notin S
        BY <2>2, <2>4, <3>1
      <3> QED BY <3>2, <3>3
    <2>5. HashAt(m, H, q) = HashAt(m, G, q)
      BY <2>3, <2>4, HashAtLocal
    <2>6. HashAt(m, G, q) = HashAt(n, G, q)
      <3>1. SameBelow(m, n, q)
        BY <2>3, SameBelowDeeper
      <3>2. Branches(m, q) = Branches(n, q) /\ SharedPath(m, q) = SharedPath(n, q)
        BY <2>3, <3>1, BranchesSame, SharedPathSame
      <3>3. Len(q) = MaxHeight => m[q] = n[q]
        <4>1. ASSUME Len(q) = MaxHeight PROVE m[q] = n[q]
          <5>1. q \in Seq(Bit) /\ q \in Key
            BY <2>3, <4>1, PathSeq, KeySeq
          <5>2. IsPrefixOf(q, q)
            BY <5>1, PrefixIs
          <5> QED BY <3>1, <5>1, <5>2 DEF SameBelow
        <4> QED BY <4>1
      <3> QED BY <3>2, <3>3 DEF HashAt
    <2> QED BY <1>1, <2>3, <2>5, <2>6
  <1>3. IsPrefixOf(p, p)
    <2>1. p \in Seq(Bit)
      BY PathSeq
    <2> QED BY <2>1, PrefixIs
  <1>4. H[p] = G[p]
    BY <1>2, <1>3
  <1> QED BY <1>4 DEF H, G

\* Where both maps have a node, it is the same one.
LEMMA StoredSame ==
  ASSUME NEW m, NEW n, NEW p \in Path, SameBelow(m, n, p), HasNode(m, p), HasNode(n, p)
  PROVE  StoredTrie(m)[p] = StoredTrie(n)[p]
  <1> DEFINE Node(f, h) == [type   |-> IF Branches(f, p) THEN "Binary" ELSE "Edge",
                            hash   |-> h[p],
                            height |-> Len(p),
                            next   |-> [l \in Labels(f, p) |-> h[p \o l]]]
  <1>1. Branches(m, p) = Branches(n, p) /\ Labels(m, p) = Labels(n, p)
    BY BranchesSame, LabelsSame
  <1>2. SubtreeHash(m)[p] = SubtreeHash(n)[p]
    BY SubtreeHashSame
  <1>3. ASSUME NEW l \in Labels(m, p) PROVE SubtreeHash(m)[p \o l] = SubtreeHash(n)[p \o l]
    <2>0. p \in Seq(Bit) /\ Len(p) < MaxHeight
      BY PathSeq DEF HasNode
    <2>1. p \o l \in Path /\ IsPrefixOf(p, p \o l)
      <3>1. CASE Branches(m, p)
        <4>1. PICK b \in Bit : l = <<b>>
          BY <3>1 DEF Labels, Directions, Bit
        <4> QED BY <2>0, <4>1, AppendPath
      <3>2. CASE ~Branches(m, p)
        BY <2>0, <3>2, SharedPathType DEF Labels
      <3> QED BY <3>1, <3>2
    <2> QED BY <2>1, SameBelowDeeper, SubtreeHashSame
  <1>4. Node(m, SubtreeHash(m)) = Node(n, SubtreeHash(n))
    BY <1>1, <1>2, <1>3
  <1>5. StoredTrie(m)[p] = Node(m, SubtreeHash(m)) /\ StoredTrie(n)[p] = Node(n, SubtreeHash(n))
    BY DEF StoredTrie
  <1> QED BY <1>4, <1>5

(***************************************************************************)
(* The nodes                                                               *)
(***************************************************************************)
\* With more keys there are no fewer nodes.
LEMMA HasNodeMonotone ==
  ASSUME NEW m, NEW n, \A k \in Key : m[k] # None => n[k] # None,
         NEW p, HasNode(m, p)
  PROVE  HasNode(n, p)
  <1>1. \A q : Through(m, q) \subseteq Through(n, q)
    BY DEF Through
  <1>2. \A q : Branches(m, q) => Branches(n, q)
    BY <1>1 DEF Branches
  <1> QED BY <1>1, <1>2 DEF HasNode

LEMMA PathIsFelt == Path \subseteq Felt
  <1> SUFFICES ASSUME NEW p \in Path PROVE p \in Seq(Nat)
    BY DEF Felt
  <1>1. p \in [1..Len(p) -> Bit] /\ Len(p) \in Nat
    BY PathSeq
  <1>2. p \in [1..Len(p) -> Nat]
    BY <1>1 DEF Bit
  <1>3. \A n \in Nat : \A s \in [1..n -> Nat] : s \in Seq(Nat)
    OBVIOUS
  <1> QED BY <1>1, <1>2, <1>3

LEMMA HashTypes ==
  /\ \A l, r \in Felt : hash_binary_node(l, r) \in Felt
  /\ \A p \in Path : \A c \in Felt : hash_edge_node(p, c) \in Felt
  <1>1. \A s, t \in Seq(Nat) : s \o t \in Seq(Nat)
    OBVIOUS
  <1>2. <<2>> \in Seq(Nat) /\ <<3>> \in Seq(Nat) /\ <<4>> \in Seq(Nat)
    OBVIOUS
  <1>3. Path \subseteq Seq(Nat)
    BY PathIsFelt DEF Felt
  <1> QED BY <1>1, <1>2, <1>3, Zenon DEF Felt, hash_binary_node, hash_edge_node

\* Where a key goes through, there is a hash.
LEMMA SubtreeHashType ==
  ASSUME NEW m \in [Key -> Felt \cup {None}], NEW p \in Path, Through(m, p) # {}
  PROVE  SubtreeHash(m)[p] \in Felt
  <1> DEFINE H == SubtreeHash(m)
             S == {q \in Path : Through(m, q) # {} /\ H[q] \notin Felt}
  <1>1. \A q \in Path : H[q] = HashAt(m, H, q)
    BY SubtreeHashIs
  <1> HIDE DEF H
  <1>2. S = {}
    <2> SUFFICES ASSUME S # {} PROVE FALSE
      OBVIOUS
    <2>1. S \in SUBSET Path
      OBVIOUS
    <2>2. PICK q \in S : \A o \in S : Len(o) <= Len(q)
      <3> HIDE DEF S
      <3> QED BY <2>1, LongestPath
    <2>3. q \in Path /\ Through(m, q) # {} /\ H[q] \notin Felt
      BY <2>2
    <2>4. q \in Seq(Bit) /\ Len(q) \in Nat /\ Len(q) <= MaxHeight
      BY <2>3, PathSeq
    <2>5. ASSUME NEW o \in Path, Len(o) > Len(q), Through(m, o) # {} PROVE H[o] \in Felt
      <3>1. Len(o) \in Nat
        BY PathSeq
      <3>2. o \notin S
        BY <2>2, <2>4, <2>5, <3>1
      <3> QED BY <2>5, <3>2
    <2>6. CASE Len(q) = MaxHeight
      <3>1. PICK k \in Key : m[k] # None /\ IsPrefixOf(q, k)
        BY <2>3 DEF Through
      <3>2. k \in Seq(Bit) /\ Len(k) = MaxHeight
        BY KeySeq
      <3>3. k = q
        <4>1. \A n \in 1..Len(q) : q[n] = k[n]
          BY <2>4, <3>1, <3>2, PrefixIs
        <4> QED BY <2>4, <2>6, <3>2, <4>1, SameSeq
      <3>4. H[q] = m[k]
        BY <1>1, <2>3, <2>6, <3>3 DEF HashAt
      <3> QED BY <2>3, <3>1, <3>4
    <2>7. CASE Len(q) # MaxHeight /\ Branches(m, q)
      <3>1. Len(q) < MaxHeight
        BY <2>4, <2>7, MaxHeightAssumption
      <3>2. ASSUME NEW b \in Bit PROVE H[Append(q, b)] \in Felt
        <4>1. Append(q, b) \in Path /\ Len(Append(q, b)) = Len(q) + 1
          BY <2>3, <3>1, AppendPath
        <4>2. Through(m, Append(q, b)) # {}
          BY <2>7 DEF Branches
        <4>3. Len(Append(q, b)) > Len(q)
          BY <2>4, <4>1
        <4> QED BY <2>5, <4>1, <4>2, <4>3
      <3>3. H[Append(q, 0)] \in Felt /\ H[Append(q, 1)] \in Felt
        BY <3>2 DEF Bit
      <3>4. H[q] = hash_binary_node(H[Append(q, 0)], H[Append(q, 1)])
        BY <1>1, <2>3, <2>7 DEF HashAt
      <3> QED BY <2>3, <3>3, <3>4, HashTypes
    <2>8. CASE Len(q) # MaxHeight /\ ~Branches(m, q)
      <3>1. Len(q) < MaxHeight
        BY <2>4, <2>8, MaxHeightAssumption
      <3>2. PICK l \in Path : /\ l = SharedPath(m, q) /\ q \o l \in Path /\ Len(q \o l) > Len(q)
                              /\ Through(m, q \o l) = Through(m, q)
        BY <2>3, <2>8, <3>1, SharedPathType
      <3>3. H[q \o l] \in Felt
        BY <2>3, <2>5, <3>2
      <3>4. H[q] = hash_edge_node(l, H[q \o l])
        BY <1>1, <2>3, <2>8, <3>2 DEF HashAt
      <3> QED BY <2>3, <3>3, <3>4, HashTypes
    <2> QED BY <2>6, <2>7, <2>8
  <1>3. H[p] \in Felt
    BY <1>2
  <1> QED BY <1>3 DEF H

\* What a node of the stored trie looks like.
LEMMA StoredNode ==
  ASSUME NEW m \in [Key -> Felt \cup {None}], NEW p \in Path, HasNode(m, p)
  PROVE  \/ \E h \in Felt, next \in [Directions -> Felt] :
                StoredTrie(m)[p] = BinaryNode(h, Len(p), next)
         \/ \E h \in Felt, l \in Path \ {<< >>}, c \in Felt :
                StoredTrie(m)[p] = EdgeNode(h, Len(p), l, c)
  <1> DEFINE H == SubtreeHash(m)
  <1>1. p \in Seq(Bit) /\ Len(p) \in Nat /\ Len(p) < MaxHeight /\ Through(m, p) # {}
    BY PathSeq DEF HasNode
  <1>2. H[p] \in Felt
    BY <1>1, SubtreeHashType
  <1>3. StoredTrie(m)[p] = [type   |-> IF Branches(m, p) THEN "Binary" ELSE "Edge",
                            hash   |-> H[p],
                            height |-> Len(p),
                            next   |-> [l \in Labels(m, p) |-> H[p \o l]]]
    BY DEF StoredTrie
  <1>4. CASE Branches(m, p)
    <2> DEFINE next == [l \in Directions |-> H[p \o l]]
    <2>1. ASSUME NEW l \in Directions PROVE H[p \o l] \in Felt
      <3>1. PICK b \in Bit : l = <<b>>
        BY DEF Directions, Bit
      <3>2. Append(p, b) = p \o l /\ p \o l \in Path
        BY <1>1, <3>1, AppendPath
      <3>3. Through(m, p \o l) # {}
        BY <1>4, <3>2 DEF Branches
      <3> QED BY <3>2, <3>3, SubtreeHashType
    <2>2. next \in [Directions -> Felt]
      BY <2>1
    <2>3. Labels(m, p) = Directions
      BY <1>4 DEF Labels
    <2>4. StoredTrie(m)[p] = BinaryNode(H[p], Len(p), next)
      BY <1>3, <1>4, <2>3 DEF BinaryNode
    <2> QED BY <1>2, <2>2, <2>4
  <1>5. CASE ~Branches(m, p)
    <2>1. PICK l \in Path \ {<< >>} : /\ l = SharedPath(m, p) /\ p \o l \in Path
                                      /\ Through(m, p \o l) = Through(m, p)
      BY <1>1, <1>5, SharedPathType
    <2>2. H[p \o l] \in Felt
      BY <1>1, <2>1, SubtreeHashType
    <2>3. Labels(m, p) = {l}
      BY <1>5, <2>1 DEF Labels
    <2>4. [x \in {l} |-> H[p \o x]] = [x \in {l} |-> H[p \o l]]
      OBVIOUS
    <2>5. StoredTrie(m)[p] = EdgeNode(H[p], Len(p), l, H[p \o l])
      BY <1>3, <1>5, <2>3, <2>4 DEF EdgeNode
    <2> QED BY <1>2, <2>1, <2>2, <2>5
  <1> QED BY <1>4, <1>5

(***************************************************************************)
(* Prefixes                                                                *)
(***************************************************************************)
LEMMA PrefixSame ==
  ASSUME NEW s \in Path, NEW t \in Path, IsPrefixOf(s, t), Len(s) >= Len(t)
  PROVE  s = t
  <1>1. s \in Seq(Bit) /\ t \in Seq(Bit)
    BY PathSeq
  <1>2. Len(s) <= Len(t) /\ \A i \in 1..Len(s) : s[i] = t[i]
    BY <1>1, PrefixIs
  <1>3. Len(s) = Len(t)
    BY <1>1, <1>2
  <1> QED BY <1>1, <1>2, <1>3, SameSeq

LEMMA PrefixLen ==
  ASSUME NEW s \in Path, NEW t \in Path, IsPrefixOf(s, t)
  PROVE  Len(s) \in Nat /\ Len(t) \in Nat /\ Len(s) <= Len(t)
  BY PathSeq, PrefixIs

LEMMA PathLen == \A p \in Path : Len(p) \in Nat /\ Len(p) <= MaxHeight
  BY PathSeq

LEMMA PrefixRefl == \A p \in Path : IsPrefixOf(p, p)
  BY PathSeq, PrefixIs

LEMMA PathPrefixTrans ==
  ASSUME NEW s \in Path, NEW t \in Path, NEW u \in Path, IsPrefixOf(s, t), IsPrefixOf(t, u)
  PROVE  IsPrefixOf(s, u)
  BY PathSeq, PrefixTrans

\* Of two prefixes of a path the shorter one is a prefix of the other.
LEMMA PrefixOfBoth ==
  ASSUME NEW s \in Path, NEW t \in Path, NEW u \in Path,
         IsPrefixOf(s, u), IsPrefixOf(t, u), Len(s) <= Len(t)
  PROVE  IsPrefixOf(s, t)
  <1>1. s \in Seq(Bit) /\ t \in Seq(Bit) /\ u \in Seq(Bit)
    BY PathSeq
  <1>2. /\ \A i \in 1..Len(s) : s[i] = u[i]
        /\ \A i \in 1..Len(t) : t[i] = u[i]
    BY <1>1, PrefixIs
  <1>3. \A i \in 1..Len(s) : s[i] = t[i]
    BY <1>1, <1>2
  <1> QED BY <1>1, <1>3, PrefixIs

\* A longer path goes on with one bit, and with no other.
LEMMA NextBit ==
  ASSUME NEW p \in Path, NEW q \in Path, IsPrefixOf(p, q), Len(p) < Len(q)
  PROVE  /\ Len(p) < MaxHeight /\ q[Len(p) + 1] \in Bit
         /\ IsPrefixOf(Append(p, q[Len(p) + 1]), q)
         /\ \A b \in Bit : IsPrefixOf(Append(p, b), q) => b = q[Len(p) + 1]
  <1>1. p \in Seq(Bit) /\ q \in Seq(Bit) /\ Len(p) < MaxHeight
    BY PathSeq, MaxHeightAssumption
  <1>2. q[Len(p) + 1] \in Bit
    BY <1>1
  <1>3. ASSUME NEW b \in Bit
        PROVE  IsPrefixOf(Append(p, b), q) <=> b = q[Len(p) + 1]
    <2>1. /\ Append(p, b) \in Seq(Bit) /\ Len(Append(p, b)) = Len(p) + 1
          /\ Append(p, b)[Len(p) + 1] = b
          /\ \A i \in 1..Len(p) : Append(p, b)[i] = p[i]
      BY <1>1
    <2>2. \A i \in 1..Len(p) : p[i] = q[i]
      BY <1>1, PrefixIs
    <2>3. (\A i \in 1..Len(Append(p, b)) : Append(p, b)[i] = q[i]) <=> b = q[Len(p) + 1]
      BY <1>1, <2>1, <2>2
    <2>4. IsPrefixOf(Append(p, b), q) <=>
            Len(Append(p, b)) <= Len(q) /\ \A i \in 1..Len(Append(p, b)) : Append(p, b)[i] = q[i]
      BY <1>1, <2>1, PrefixIs, Zenon
    <2>5. Len(Append(p, b)) <= Len(q)
      BY <1>1, <2>1
    <2> QED BY <2>3, <2>4, <2>5
  <1> QED BY <1>1, <1>2, <1>3

\* What follows a prefix.
LEMMA PathRest ==
  ASSUME NEW p \in Path, NEW q \in Path, IsPrefixOf(p, q)
  PROVE  /\ From(q, Len(p)) \in Path /\ Len(From(q, Len(p))) = Len(q) - Len(p)
         /\ p \o From(q, Len(p)) = q
  <1>1. p \in Seq(Bit) /\ q \in Seq(Bit) /\ Len(p) \in 0..Len(q)
    BY PathSeq, PrefixIs
  <1>2. PICK f : f = From(q, Len(p))
    OBVIOUS
  <1>3. f \in Seq(Bit) /\ Len(f) = Len(q) - Len(p)
    BY <1>1, <1>2, FromSeq
  <1>4. \A i \in 1..Len(f) : f[i] = q[Len(p) + i]
    BY <1>1, <1>2, <1>3 DEF From
  <1>5. \A i \in 1..Len(p) : p[i] = q[i]
    BY <1>1, PrefixIs
  <1>6. /\ p \o f \in Seq(Bit) /\ Len(p \o f) = Len(q)
        /\ \A i \in 1..Len(p) : (p \o f)[i] = p[i]
        /\ \A i \in 1..Len(f) : (p \o f)[Len(p) + i] = f[i]
    BY <1>1, <1>3, ConcatSeq
  <1>7. \A i \in 1..Len(q) : (p \o f)[i] = q[i]
    <2>1. ASSUME NEW i \in 1..Len(q) PROVE (p \o f)[i] = q[i]
      <3>1. CASE i <= Len(p)
        BY <1>1, <1>5, <1>6, <3>1
      <3>2. CASE i > Len(p)
        <4>1. PICK j \in 1..Len(f) : i = Len(p) + j
          <5>1. i - Len(p) \in 1..Len(f) /\ i = Len(p) + (i - Len(p))
            BY <1>1, <1>3, <3>2
          <5> QED BY <5>1
        <4> QED BY <1>4, <1>6, <4>1
      <3>3. i \in Nat /\ Len(p) \in Nat
        BY <1>1
      <3>4. i <= Len(p) \/ i > Len(p)
        BY <3>3
      <3> QED BY <3>1, <3>2, <3>4, Zenon
    <2> QED BY <2>1
  <1>8. p \o f = q
    BY <1>1, <1>6, <1>7, SameSeq
  <1>9. f \in Path
    BY <1>1, <1>3, PathSeq, MaxHeightAssumption
  <1> QED BY <1>2, <1>3, <1>8, <1>9

LEMMA ConcatPath ==
  ASSUME NEW p \in Path, NEW l \in Path, p \o l \in Path
  PROVE  /\ Len(p \o l) = Len(p) + Len(l) /\ IsPrefixOf(p, p \o l)
         /\ From(p \o l, Len(p)) = l
  <1>1. p \in Seq(Bit) /\ l \in Seq(Bit)
    BY PathSeq
  <1>2. /\ p \o l \in Seq(Bit) /\ Len(p \o l) = Len(p) + Len(l)
        /\ \A i \in 1..Len(l) : (p \o l)[Len(p) + i] = l[i]
    BY <1>1, ConcatSeq
  <1>3. IsPrefixOf(p, p \o l)
    BY <1>1, PrefixConcat
  <1>4. PICK f : f = From(p \o l, Len(p))
    OBVIOUS
  <1>5. f \in Seq(Bit) /\ Len(f) = Len(l)
    <2>1. Len(p) \in 0..Len(p \o l) /\ Len(p \o l) - Len(p) = Len(l)
      BY <1>1, <1>2
    <2> QED BY <1>2, <1>4, <2>1, FromSeq
  <1>6. \A i \in 1..Len(f) : f[i] = (p \o l)[Len(p) + i]
    BY <1>1, <1>2, <1>4, <1>5 DEF From
  <1>7. f = l
    BY <1>1, <1>2, <1>5, <1>6, SameSeq
  <1> QED BY <1>2, <1>3, <1>4, <1>7

\* The path without its last bit.
Parent(p) == First(p, Len(p) - 1)

LEMMA ParentPathIs ==
  ASSUME NEW p \in Path, p # << >>
  PROVE  /\ Parent(p) \in Path /\ Len(Parent(p)) + 1 = Len(p) /\ IsPrefixOf(Parent(p), p)
         /\ p[Len(p)] \in Bit /\ p = Append(Parent(p), p[Len(p)])
  <1>1. p \in Seq(Bit) /\ Len(p) >= 1 /\ Len(p) - 1 \in 0..Len(p) /\ Len(p) <= MaxHeight
    BY PathSeq
  <1>2. PICK f : f = Parent(p)
    OBVIOUS
  <1>3. /\ f \in Seq(Bit) /\ Len(f) = Len(p) - 1
        /\ \A i \in 1..(Len(p) - 1) : f[i] = p[i]
    BY <1>1, <1>2, FirstSeq DEF Parent
  <1>4. f \in Path
    BY <1>1, <1>3, PathSeq, MaxHeightAssumption
  <1>5. IsPrefixOf(f, p)
    BY <1>1, <1>3, PrefixIs
  <1>6. p[Len(p)] \in Bit
    BY <1>1
  <1>7. /\ Append(f, p[Len(p)]) \in Seq(Bit) /\ Len(Append(f, p[Len(p)])) = Len(p)
        /\ \A i \in 1..Len(p) : Append(f, p[Len(p)])[i] = p[i]
    BY <1>1, <1>3, <1>6
  <1>8. p = Append(f, p[Len(p)])
    BY <1>1, <1>7, SameSeq
  <1> QED BY <1>1, <1>2, <1>3, <1>4, <1>5, <1>6, <1>8

(***************************************************************************)
(* The shape of the canonical trie                                         *)
(***************************************************************************)
LEMMA ThroughPrefix ==
  ASSUME NEW m, NEW p \in Path, NEW q \in Path, IsPrefixOf(p, q)
  PROVE  Through(m, q) \subseteq Through(m, p)
  <1> SUFFICES ASSUME NEW k \in Through(m, q) PROVE k \in Through(m, p)
    OBVIOUS
  <1>1. k \in Key /\ m[k] # None /\ IsPrefixOf(q, k)
    BY DEF Through
  <1>2. k \in Path
    BY <1>1, KeyInPath
  <1>3. IsPrefixOf(p, k)
    BY <1>1, <1>2, PathPrefixTrans
  <1> QED BY <1>1, <1>3 DEF Through

\* Of two paths that a key goes through the shorter one is a prefix.
LEMMA ThroughBoth ==
  ASSUME NEW m, NEW p \in Path, NEW q \in Path, NEW k,
         k \in Through(m, p), k \in Through(m, q), Len(p) <= Len(q)
  PROVE  IsPrefixOf(p, q)
  <1>1. k \in Path /\ IsPrefixOf(p, k) /\ IsPrefixOf(q, k)
    BY KeyInPath DEF Through
  <1> QED BY <1>1, PrefixOfBoth

LEMMA BranchesIs ==
  ASSUME NEW m, NEW p \in Path, Branches(m, p)
  PROVE  /\ Len(p) < MaxHeight /\ Through(m, p) # {}
         /\ \A b \in Bit : Through(m, Append(p, b)) # {}
  <1>1. Len(p) < MaxHeight /\ \A b \in Bit : Through(m, Append(p, b)) # {}
    BY DEF Branches
  <1>2. 0 \in Bit
    BY DEF Bit
  <1>3. Append(p, 0) \in Path /\ IsPrefixOf(p, Append(p, 0))
    BY <1>1, <1>2, AppendPath
  <1>4. Through(m, Append(p, 0)) \subseteq Through(m, p)
    BY <1>3, ThroughPrefix
  <1> QED BY <1>1, <1>2, <1>4

\* The keys through p all go on to q, and there they part or end.
EdgeTo(m, p, q) ==
    /\ q \in Path /\ IsPrefixOf(p, q) /\ Through(m, q) = Through(m, p)
    /\ Len(q) = MaxHeight \/ Branches(m, q)

\* Between the two ends of what the keys share none of them leaves.
LEMMA NoBranchInside ==
  ASSUME NEW m, NEW p \in Path, NEW q \in Path, NEW x \in Path,
         Through(m, q) = Through(m, p),
         IsPrefixOf(p, x), IsPrefixOf(x, q), Len(x) < Len(q)
  PROVE  ~Branches(m, x)
  <1> SUFFICES ASSUME Branches(m, x) PROVE FALSE
    OBVIOUS
  <1>1. PICK b \in Bit : b # q[Len(x) + 1]
    BY DEF Bit
  <1>2. Append(x, b) \in Path /\ IsPrefixOf(x, Append(x, b)) /\ Len(Append(x, b)) = Len(x) + 1
    BY NextBit, AppendPath
  <1>3. PICK k : k \in Through(m, Append(x, b))
    BY BranchesIs
  <1>4. k \in Through(m, p)
    BY <1>2, <1>3, ThroughPrefix
  <1>5. Len(Append(x, b)) <= Len(q)
    BY <1>2, PathLen
  <1>6. IsPrefixOf(Append(x, b), q)
    BY <1>2, <1>3, <1>4, <1>5, ThroughBoth
  <1> QED BY <1>1, <1>6, NextBit

\* Where the keys go on together, SharedPath leads to where that ends.
LEMMA SharedPathEnds ==
  ASSUME NEW m, NEW p \in Path, Len(p) < MaxHeight, ~Branches(m, p)
  PROVE  /\ SharedPath(m, p) \in Path /\ SharedPath(m, p) # << >>
         /\ p \o SharedPath(m, p) \in Path
         /\ Len(p \o SharedPath(m, p)) > Len(p)
         /\ EdgeTo(m, p, p \o SharedPath(m, p))
  <1>1. PICK l : l = SharedPath(m, p)
    OBVIOUS
  <1>2. /\ l \in Path /\ l # << >> /\ p \o l \in Path
        /\ Len(p \o l) > Len(p) /\ IsPrefixOf(p, p \o l)
        /\ Through(m, p \o l) = Through(m, p)
    BY <1>1, SharedPathType
  <1>3. ASSUME Len(p \o l) # MaxHeight, ~Branches(m, p \o l)
        PROVE  FALSE
    <2>0. PICK n : n = Len(p \o l)
      OBVIOUS
    <2>1. Len(p \o l) < MaxHeight
      <3>1. n \in Nat /\ n <= MaxHeight
        BY <1>2, <2>0, PathLen
      <3> QED BY <1>3, <2>0, <3>1, MaxHeightAssumption
    <2>2. PICK r : r = SharedPath(m, p \o l)
      OBVIOUS
    <2>3. /\ r \in Path /\ r # << >> /\ (p \o l) \o r \in Path
          /\ Len((p \o l) \o r) > Len(p \o l)
          /\ Through(m, (p \o l) \o r) = Through(m, p \o l)
      BY <1>2, <1>3, <2>1, <2>2, SharedPathType
    <2>4. p \in Seq(Bit) /\ l \in Seq(Bit) /\ r \in Seq(Bit)
      BY <1>2, <2>3, PathSeq
    <2>5. (p \o l) \o r = p \o (l \o r) /\ l \o r \in Seq(Bit) /\ Len(l \o r) = Len(l) + Len(r)
          /\ Len(p \o l) = Len(p) + Len(l) /\ Len((p \o l) \o r) = Len(p) + Len(l) + Len(r)
      BY <2>4
    <2>6. l \o r \in SharedPaths(m, p) /\ Len(l \o r) > Len(l)
      <3>1. Len(p) + Len(l \o r) <= MaxHeight /\ Len(l \o r) > Len(l)
        <4>1. Len((p \o l) \o r) <= MaxHeight
          BY <2>3, PathLen
        <4>2. Len(r) >= 1
          BY <2>3, <2>4
        <4> QED BY <2>4, <2>5, <4>1, <4>2
      <3>2. Len(l \o r) <= MaxHeight
        BY <2>4, <2>5, <3>1, MaxHeightAssumption
      <3>3. l \o r \in Path
        BY <2>5, <3>2, PathSeq
      <3> QED BY <1>2, <2>3, <2>5, <3>1, <3>3 DEF SharedPaths
    <2>7. \E o \in SharedPaths(m, p) : \A x \in SharedPaths(m, p) : Len(x) <= Len(o)
      BY <2>6, LongestPath DEF SharedPaths
    <2>8. \A x \in SharedPaths(m, p) : Len(x) <= Len(l)
      BY <1>1, <2>7, SharedPathIs
    <2>9. Len(l \o r) <= Len(l)
      BY <2>6, <2>8
    <2> QED BY <2>4, <2>5, <2>6, <2>9
  <1> QED BY <1>1, <1>2, <1>3 DEF EdgeTo

\* An edge has one end.
LEMMA EdgeEndUnique ==
  ASSUME NEW m, NEW p \in Path, Through(m, p) # {}, NEW q, NEW r,
         EdgeTo(m, p, q), EdgeTo(m, p, r)
  PROVE  q = r
  <1>1. ASSUME NEW x, NEW y, EdgeTo(m, p, x), EdgeTo(m, p, y), Len(x) < Len(y)
        PROVE  FALSE
    <2>1. /\ x \in Path /\ y \in Path /\ IsPrefixOf(p, x)
          /\ Through(m, x) = Through(m, p) /\ Through(m, y) = Through(m, p)
          /\ Len(x) = MaxHeight \/ Branches(m, x)
      BY <1>1 DEF EdgeTo
    <2>2. Len(x) \in Nat /\ Len(y) \in Nat /\ Len(y) <= MaxHeight
      BY <2>1, PathLen
    <2>3. Branches(m, x)
      BY <1>1, <2>1, <2>2, MaxHeightAssumption
    <2>4. PICK k : k \in Through(m, p)
      OBVIOUS
    <2>5. IsPrefixOf(x, y)
      BY <1>1, <2>1, <2>2, <2>4, ThroughBoth
    <2> QED BY <1>1, <2>1, <2>3, <2>5, NoBranchInside
  <1>2. q \in Path /\ r \in Path /\ Through(m, q) = Through(m, p) /\ Through(m, r) = Through(m, p)
    BY DEF EdgeTo
  <1>3. Len(q) = Len(r)
    BY <1>1, <1>2, PathLen
  <1>4. IsPrefixOf(q, r)
    BY <1>2, <1>3, ThroughBoth, PathLen
  <1> QED BY <1>2, <1>3, <1>4, PrefixSame, PathLen

LEMMA EdgeLabelIs ==
  ASSUME NEW m, NEW p \in Path, Through(m, p) # {}, ~Branches(m, p), Len(p) < MaxHeight,
         NEW l \in Path, EdgeTo(m, p, p \o l)
  PROVE  SharedPath(m, p) = l
  <1>1. p \o l = p \o SharedPath(m, p)
    BY SharedPathEnds, EdgeEndUnique
  <1>2. p \o l \in Path /\ SharedPath(m, p) \in Path
    BY SharedPathEnds DEF EdgeTo
  <1>3. From(p \o l, Len(p)) = l
    BY <1>2, ConcatPath
  <1>4. From(p \o SharedPath(m, p), Len(p)) = SharedPath(m, p)
    BY <1>1, <1>2, ConcatPath
  <1> QED BY <1>1, <1>3, <1>4

LEMMA ParentAppend ==
  ASSUME NEW p \in Path, Len(p) < MaxHeight, NEW b \in Bit
  PROVE  Append(p, b) # << >> /\ Parent(Append(p, b)) = p
  <1>1. PICK a : a = Append(p, b)
    OBVIOUS
  <1>2. a \in Path /\ Len(a) = Len(p) + 1 /\ IsPrefixOf(p, a)
    BY <1>1, AppendPath
  <1>3. a # << >>
    BY <1>2, PathLen
  <1>4. Parent(a) \in Path /\ Len(Parent(a)) + 1 = Len(a) /\ IsPrefixOf(Parent(a), a)
    BY <1>2, <1>3, ParentPathIs
  <1>5. Len(Parent(a)) = Len(p)
    BY <1>2, <1>4, PathLen
  <1>6. IsPrefixOf(Parent(a), p)
    BY <1>2, <1>4, <1>5, PrefixOfBoth, PathLen
  <1> QED BY <1>1, <1>3, <1>4, <1>5, <1>6, PrefixSame, PathLen

LEMMA HasNodeIs ==
  ASSUME NEW m, NEW p \in Path
  PROVE  HasNode(m, p) <=>
            /\ Len(p) < MaxHeight /\ Through(m, p) # {}
            /\ p = << >> \/ Branches(m, p) \/ Branches(m, Parent(p))
  BY DEF HasNode, Parent

\* The two arcs of a binary node.
LEMMA BranchLabel ==
  ASSUME NEW p \in Path, Len(p) < MaxHeight, NEW l \in Directions
  PROVE  \E b \in Bit : l = <<b>> /\ p \o l = Append(p, b)
  <1>1. PICK b \in Bit : l = <<b>>
    BY DEF Directions, Bit
  <1> QED BY <1>1, AppendPath

LEMMA DirectionIs == \A b \in Bit : <<b>> \in Directions
  BY DEF Directions, Bit

\* Where an arc of the trie leads: to a leaf or to a node, which is binary
\* below an edge.
ArcOf(m, p, l) ==
    /\ l \in Path /\ l # << >> /\ p \o l \in Path /\ IsPrefixOf(p, p \o l)
    /\ Len(p \o l) = Len(p) + Len(l) /\ Len(p \o l) > Len(p)
    /\ Through(m, p \o l) # {}
    /\ Len(p \o l) < MaxHeight =>
         HasNode(m, p \o l) /\ (~Branches(m, p) => Branches(m, p \o l))

LEMMA Arc ==
  ASSUME NEW m, NEW p \in Path, HasNode(m, p), NEW l \in Labels(m, p)
  PROVE  ArcOf(m, p, l)
  <1>0. Len(p) < MaxHeight /\ Through(m, p) # {}
    BY HasNodeIs
  <1>1. CASE Branches(m, p)
    <2>1. PICK b \in Bit : l = <<b>> /\ p \o l = Append(p, b)
      BY <1>0, <1>1, BranchLabel DEF Labels
    <2>2. /\ p \o l \in Path /\ IsPrefixOf(p, p \o l) /\ Len(p \o l) = Len(p) + 1
      BY <1>0, <2>1, AppendPath
    <2>3. Through(m, p \o l) # {}
      BY <1>1, <2>1, BranchesIs
    <2>4. Parent(p \o l) = p
      BY <1>0, <2>1, ParentAppend
    <2>5. Len(p \o l) < MaxHeight => HasNode(m, p \o l)
      BY <1>1, <2>2, <2>3, <2>4, HasNodeIs
    <2>6. l \in Seq(Bit) /\ Len(l) = 1 /\ Len(p) \in Nat
      BY <2>1, PathLen
    <2>7. l \in Path /\ l # << >> /\ Len(p \o l) = Len(p) + Len(l) /\ Len(p \o l) > Len(p)
      BY <2>2, <2>6, PathSeq, MaxHeightAssumption
    <2> QED BY <1>1, <2>2, <2>3, <2>5, <2>7 DEF ArcOf
  <1>2. CASE ~Branches(m, p)
    <2>1. l = SharedPath(m, p)
      BY <1>2 DEF Labels
    <2>2. /\ l \in Path /\ l # << >> /\ p \o l \in Path /\ Len(p \o l) > Len(p)
          /\ EdgeTo(m, p, p \o l)
      BY <1>0, <1>2, <2>1, SharedPathEnds
    <2>3. IsPrefixOf(p, p \o l) /\ Through(m, p \o l) # {} /\ (Len(p \o l) = MaxHeight \/ Branches(m, p \o l))
      BY <1>0, <2>2 DEF EdgeTo
    <2>4. Len(p \o l) = Len(p) + Len(l)
      BY <2>2, ConcatPath
    <2>5. Len(p \o l) < MaxHeight => HasNode(m, p \o l) /\ Branches(m, p \o l)
      <3>1. Len(p \o l) \in Nat
        BY <2>2, PathLen
      <3>2. Len(p \o l) < MaxHeight => Branches(m, p \o l)
        BY <2>3, <3>1, MaxHeightAssumption
      <3> QED BY <2>2, <2>3, <3>2, HasNodeIs
    <2> QED BY <2>2, <2>3, <2>4, <2>5 DEF ArcOf
  <1> QED BY <1>1, <1>2

\* Below a node every further node, and every leaf, is behind one of its arcs.
LEMMA ArcToward ==
  ASSUME NEW m, NEW p \in Path, HasNode(m, p), NEW q \in Path, IsPrefixOf(p, q), p # q,
         Through(m, q) # {}, Len(q) = MaxHeight \/ HasNode(m, q)
  PROVE  \E l \in Labels(m, p) : IsPrefixOf(p \o l, q)
  <1>0. Len(p) < MaxHeight /\ Through(m, p) # {}
    BY HasNodeIs
  <1>1. Len(p) < Len(q) /\ Len(p) \in Nat /\ Len(q) \in Nat
    BY PrefixSame, PathLen
  <1>2. CASE Branches(m, p)
    <2>1. q[Len(p) + 1] \in Bit /\ IsPrefixOf(Append(p, q[Len(p) + 1]), q)
      BY <1>1, NextBit
    <2>2. <<q[Len(p) + 1]>> \in Labels(m, p)
      BY <1>2, <2>1, DirectionIs DEF Labels
    <2>3. p \o <<q[Len(p) + 1]>> = Append(p, q[Len(p) + 1])
      BY <1>0, <2>1, AppendPath
    <2> QED BY <2>1, <2>2, <2>3
  <1>3. CASE ~Branches(m, p)
    <2>1. PICK e : e = p \o SharedPath(m, p)
      OBVIOUS
    <2>2. e \in Path /\ EdgeTo(m, p, e) /\ Len(e) \in Nat
      BY <1>0, <1>3, <2>1, SharedPathEnds, PathLen
    <2>3. Through(m, e) = Through(m, p) /\ IsPrefixOf(p, e)
      BY <2>2 DEF EdgeTo
    <2>4. PICK k : k \in Through(m, q)
      OBVIOUS
    <2>5. k \in Through(m, e)
      BY <2>3, <2>4, ThroughPrefix
    <2>6. CASE Len(e) <= Len(q)
      <3>1. IsPrefixOf(e, q)
        BY <2>2, <2>4, <2>5, <2>6, ThroughBoth
      <3> QED BY <1>3, <2>1, <3>1 DEF Labels
    <2>7. CASE Len(q) < Len(e)
      <3>1. IsPrefixOf(q, e)
        BY <1>1, <2>2, <2>4, <2>5, <2>7, ThroughBoth
      <3>2. Len(q) # MaxHeight
        BY <2>2, <2>7, PathLen, MaxHeightAssumption
      <3>3. ~Branches(m, q)
        BY <2>2, <2>3, <2>7, <3>1, NoBranchInside
      <3>4. q # << >>
        BY <1>1
      <3>5. Branches(m, Parent(q))
        BY <3>2, <3>3, <3>4, HasNodeIs
      <3>6. Parent(q) \in Path /\ Len(Parent(q)) + 1 = Len(q) /\ IsPrefixOf(Parent(q), q)
            /\ Len(Parent(q)) \in Nat
        BY <3>4, ParentPathIs, PathLen
      <3>7. IsPrefixOf(p, Parent(q))
        BY <1>1, <3>6, PrefixOfBoth
      <3>8. IsPrefixOf(Parent(q), e) /\ Len(Parent(q)) < Len(e)
        BY <2>2, <2>7, <3>1, <3>6, <1>1, PathPrefixTrans
      <3> QED BY <2>2, <2>3, <3>5, <3>6, <3>7, <3>8, NoBranchInside
    <2> QED BY <1>1, <2>2, <2>6, <2>7
  <1> QED BY <1>2, <1>3

\* Where keys go through there is a root.
LEMMA RootNode ==
  ASSUME NEW m, NEW p \in Path, Through(m, p) # {}
  PROVE  HasNode(m, << >>)
  <1>1. << >> \in Path /\ IsPrefixOf(<< >>, p)
    BY RootInPath, EmptyPrefix, PathSeq
  <1>2. Through(m, << >>) # {}
    BY <1>1, ThroughPrefix
  <1>3. Len(<< >>) < MaxHeight
    BY MaxHeightAssumption
  <1> QED BY <1>1, <1>2, <1>3, HasNodeIs

\* Every node and every leaf is at the end of an arc.
LEMMA ArcAbove ==
  ASSUME NEW m, NEW q \in Path, q # << >>, Through(m, q) # {},
         Len(q) = MaxHeight \/ HasNode(m, q)
  PROVE  \E p \in Path : HasNode(m, p) /\ \E l \in Labels(m, p) : p \o l = q
  <1> DEFINE S == {p \in Path : HasNode(m, p) /\ IsPrefixOf(p, q) /\ p # q}
  <1>1. << >> \in S
    BY RootNode, RootInPath, EmptyPrefix, PathSeq
  <1>2. PICK p \in S : \A o \in S : Len(o) <= Len(p)
    BY <1>1, LongestPath
  <1>3. PICK l \in Labels(m, p) : IsPrefixOf(p \o l, q)
    BY <1>2, ArcToward
  <1>4. ArcOf(m, p, l)
    BY <1>2, <1>3, Arc
  <1>5. ASSUME p \o l # q PROVE FALSE
    <2>1. p \o l \in Path /\ Len(p \o l) > Len(p)
      BY <1>4 DEF ArcOf
    <2>2. Len(p \o l) < Len(q) /\ Len(q) <= MaxHeight /\ Len(p \o l) \in Nat /\ Len(q) \in Nat /\ Len(p) \in Nat
      <3>1. Len(p \o l) \in Nat /\ Len(q) \in Nat /\ Len(p) \in Nat /\ Len(q) <= MaxHeight
        BY <1>2, <2>1, PathLen
      <3>2. ~(Len(p \o l) >= Len(q))
        BY <1>3, <1>5, <2>1, PrefixSame
      <3> QED BY <3>1, <3>2
    <2>3. HasNode(m, p \o l)
      BY <1>4, <2>2, MaxHeightAssumption DEF ArcOf
    <2>4. p \o l \in S
      BY <1>3, <1>5, <2>1, <2>3
    <2>5. Len(p \o l) <= Len(p)
      BY <1>2, <2>4
    <2> QED BY <2>1, <2>2, <2>5
  <1> QED BY <1>2, <1>3, <1>5

(***************************************************************************)
(* One key more.  The trie of n and the trie of m, which has one more key, *)
(* differ around the path b where the key parts from the others.           *)
(***************************************************************************)
Toward(key, b) == Append(b, key[Len(b) + 1])

Away(key, b) == Append(b, Invert(key[Len(b) + 1]))

Parting(n, m, key, b) ==
    /\ key \in Key /\ \A k \in Key : m[k] # None <=> n[k] # None \/ k = key
    /\ b \in Path /\ Len(b) < MaxHeight /\ IsPrefixOf(b, key)
    /\ Through(n, b) # {} /\ Through(n, Toward(key, b)) = {}

LEMMA ThroughMore ==
  ASSUME NEW n, NEW m, NEW key, NEW b, Parting(n, m, key, b), NEW p
  PROVE  /\ IsPrefixOf(p, key) => Through(m, p) = Through(n, p) \cup {key}
         /\ ~IsPrefixOf(p, key) => Through(m, p) = Through(n, p)
         /\ Through(n, p) \subseteq Through(m, p)
  BY DEF Parting, Through

LEMMA Turns ==
  ASSUME NEW n, NEW m, NEW key, NEW b, Parting(n, m, key, b)
  PROVE  /\ key \in Path /\ b \in Path /\ Len(key) = MaxHeight /\ Len(b) \in Nat /\ Len(b) < MaxHeight
         /\ key[Len(b) + 1] \in Bit /\ Invert(key[Len(b) + 1]) \in Bit
         /\ Toward(key, b) \in Path /\ Len(Toward(key, b)) = Len(b) + 1
         /\ IsPrefixOf(b, Toward(key, b)) /\ IsPrefixOf(Toward(key, b), key)
         /\ Away(key, b) \in Path /\ Len(Away(key, b)) = Len(b) + 1
         /\ IsPrefixOf(b, Away(key, b)) /\ ~IsPrefixOf(Away(key, b), key)
         /\ Parent(Toward(key, b)) = b /\ Parent(Away(key, b)) = b
         /\ Toward(key, b) # << >> /\ Away(key, b) # << >>
         /\ \A c \in Bit : Append(b, c) \in {Toward(key, b), Away(key, b)}
  <1>1. key \in Path /\ Len(key) = MaxHeight /\ b \in Path /\ Len(b) < MaxHeight /\ IsPrefixOf(b, key)
    BY KeyInPath, KeySeq DEF Parting
  <1>2. /\ key[Len(b) + 1] \in Bit /\ IsPrefixOf(Append(b, key[Len(b) + 1]), key)
        /\ \A c \in Bit : IsPrefixOf(Append(b, c), key) => c = key[Len(b) + 1]
    BY <1>1, NextBit
  <1>3. /\ Invert(key[Len(b) + 1]) \in Bit /\ Invert(key[Len(b) + 1]) # key[Len(b) + 1]
        /\ \A c \in Bit : c = key[Len(b) + 1] \/ c = Invert(key[Len(b) + 1])
    BY <1>2 DEF Bit, Invert
  <1>4. /\ Toward(key, b) \in Path /\ Len(Toward(key, b)) = Len(b) + 1
        /\ IsPrefixOf(b, Toward(key, b)) /\ Parent(Toward(key, b)) = b /\ Toward(key, b) # << >>
    BY <1>1, <1>2, AppendPath, ParentAppend DEF Toward
  <1>5. /\ Away(key, b) \in Path /\ Len(Away(key, b)) = Len(b) + 1
        /\ IsPrefixOf(b, Away(key, b)) /\ Parent(Away(key, b)) = b /\ Away(key, b) # << >>
    BY <1>1, <1>3, AppendPath, ParentAppend DEF Away
  <1>6. ~IsPrefixOf(Away(key, b), key)
    BY <1>2, <1>3 DEF Away
  <1>7. \A c \in Bit : Append(b, c) \in {Toward(key, b), Away(key, b)}
    BY <1>3 DEF Toward, Away
  <1> QED BY <1>1, <1>2, <1>3, <1>4, <1>5, <1>6, <1>7, PathLen DEF Toward

\* The other keys at b all go the other way.
LEMMA ThroughAway ==
  ASSUME NEW n, NEW m, NEW key, NEW b, Parting(n, m, key, b)
  PROVE  /\ Through(n, Away(key, b)) = Through(n, b)
         /\ Through(m, Away(key, b)) = Through(n, b)
         /\ Through(n, Away(key, b)) # {}
  <1>1. ASSUME NEW k \in Through(n, b) PROVE k \in Through(n, Away(key, b))
    <2>1. k \in Key /\ n[k] # None /\ IsPrefixOf(b, k)
      BY DEF Through
    <2>2. PICK c \in Bit : IsPrefixOf(Append(b, c), k)
      BY <2>1, PrefixSplit DEF Parting
    <2>3. k \in Through(n, Append(b, c))
      BY <2>1, <2>2 DEF Through
    <2>4. Append(b, c) # Toward(key, b)
      BY <2>3 DEF Parting
    <2>5. Append(b, c) = Away(key, b)
      BY <2>4, Turns
    <2> QED BY <2>3, <2>5
  <1>2. Through(n, Away(key, b)) \subseteq Through(n, b)
    BY Turns, ThroughPrefix
  <1>3. Through(m, Away(key, b)) = Through(n, Away(key, b))
    BY Turns, ThroughMore
  <1> QED BY <1>1, <1>2, <1>3 DEF Parting

\* Beyond b the key is on its own.
LEMMA AloneBeyond ==
  ASSUME NEW n, NEW m, NEW key, NEW b, Parting(n, m, key, b),
         NEW p \in Path, IsPrefixOf(Toward(key, b), p)
  PROVE  Through(n, p) = {}
  BY Turns, ThroughPrefix DEF Parting

\* A path towards the key is above b or beyond it.
LEMMA AboveOrBeyond ==
  ASSUME NEW n, NEW m, NEW key, NEW b, Parting(n, m, key, b),
         NEW p \in Path, IsPrefixOf(p, key)
  PROVE  IsPrefixOf(p, b) \/ IsPrefixOf(Toward(key, b), p)
  <1>1. Len(p) \in Nat /\ Len(b) \in Nat /\ Len(Toward(key, b)) = Len(b) + 1
    BY Turns, PathLen
  <1>2. CASE Len(p) <= Len(b)
    BY <1>2, Turns, PrefixOfBoth DEF Parting
  <1>3. CASE Len(Toward(key, b)) <= Len(p)
    BY <1>3, Turns, PrefixOfBoth
  <1> QED BY <1>1, <1>2, <1>3

LEMMA BranchesMore ==
  ASSUME NEW n, NEW m, NEW key, NEW b, Parting(n, m, key, b)
  PROVE  /\ Branches(m, b) /\ ~Branches(n, b)
         /\ \A p \in Path : p # b => (Branches(m, p) <=> Branches(n, p))
  <1>1. ~Branches(n, b)
    <2>1. b \in Path /\ key[Len(b) + 1] \in Bit
      BY Turns
    <2>2. Through(n, Append(b, key[Len(b) + 1])) = {}
      BY DEF Parting, Toward
    <2> QED BY <2>1, <2>2, BranchesIs
  <1>2. Branches(m, b)
    <2>1. Through(m, Toward(key, b)) # {}
      <3>1. IsPrefixOf(Toward(key, b), key)
        BY Turns
      <3> QED BY <3>1, ThroughMore
    <2>2. Through(m, Away(key, b)) # {}
      BY ThroughAway DEF Parting
    <2>3. Len(b) < MaxHeight /\ \A c \in Bit : Append(b, c) \in {Toward(key, b), Away(key, b)}
      BY Turns
    <2>4. \A c \in Bit : Through(m, Append(b, c)) # {}
      BY <2>1, <2>2, <2>3
    <2> QED BY <2>3, <2>4 DEF Branches
  <1>3. ASSUME NEW p \in Path, Branches(n, p) PROVE Branches(m, p)
    BY <1>3, ThroughMore DEF Branches
  <1>4. ASSUME NEW p \in Path, p # b, Branches(m, p) PROVE Branches(n, p)
    <2>1. Len(p) < MaxHeight /\ \A c \in Bit : Through(m, Append(p, c)) # {}
      BY <1>4, BranchesIs
    <2>2. ASSUME NEW c \in Bit PROVE Through(n, Append(p, c)) # {}
      <3>1. Append(p, c) \in Path /\ IsPrefixOf(p, Append(p, c)) /\ Len(Append(p, c)) = Len(p) + 1
        BY <2>1, AppendPath
      <3>2. CASE ~IsPrefixOf(Append(p, c), key)
        BY <2>1, <3>2, ThroughMore
      <3>3. CASE IsPrefixOf(Append(p, c), key)
        <4>1. IsPrefixOf(p, key)
          BY <3>1, <3>3, Turns, PathPrefixTrans
        <4>2. CASE IsPrefixOf(p, b)
          <5>1. Len(p) < Len(b) /\ Len(p) \in Nat
            BY <1>4, <4>2, Turns, PrefixSame, PathLen
          <5>2. IsPrefixOf(Append(p, c), b)
            <6>1. Len(Append(p, c)) <= Len(b)
              BY <3>1, <5>1, Turns
            <6>2. key \in Path /\ b \in Path /\ IsPrefixOf(b, key)
              BY Turns DEF Parting
            <6> QED BY <3>1, <3>3, <6>1, <6>2, PrefixOfBoth
          <5> QED BY <3>1, <5>2, Turns, ThroughPrefix DEF Parting
        <4>3. CASE IsPrefixOf(Toward(key, b), p)
          <5>1. PICK d \in Bit : d # c
            BY DEF Bit
          <5>2. ~IsPrefixOf(Append(p, d), key)
            <6>1. Len(p) < Len(key)
              BY <2>1, Turns
            <6> QED BY <3>3, <4>1, <5>1, <6>1, Turns, NextBit
          <5>3. Through(n, Append(p, d)) # {}
            BY <2>1, <5>2, ThroughMore
          <5>4. Append(p, d) \in Path /\ IsPrefixOf(p, Append(p, d))
            BY <2>1, AppendPath
          <5>5. IsPrefixOf(Toward(key, b), Append(p, d))
            BY <4>3, <5>4, Turns, PathPrefixTrans
          <5> QED BY <5>3, <5>4, <5>5, AloneBeyond
        <4> QED BY <4>1, <4>2, <4>3, AboveOrBeyond
      <3> QED BY <3>2, <3>3
    <2> QED BY <2>1, <2>2 DEF Branches
  <1> QED BY <1>1, <1>2, <1>3, <1>4

LEMMA HasNodeMore ==
  ASSUME NEW n, NEW m, NEW key, NEW b, Parting(n, m, key, b), NEW p \in Path
  PROVE  /\ HasNode(m, p) <=>
              \/ HasNode(n, p) \/ p = b
              \/ p \in {Toward(key, b), Away(key, b)} /\ Len(p) < MaxHeight
         /\ HasNode(n, b) <=> b = << >> \/ Branches(n, Parent(b))
         /\ ~HasNode(n, Toward(key, b))
         /\ HasNode(n, Away(key, b)) <=> Branches(n, Away(key, b))
  <1>1. ASSUME HasNode(n, p) PROVE HasNode(m, p)
    BY <1>1, HasNodeMonotone DEF Parting
  <1>2. HasNode(m, b)
    BY Turns, BranchesMore, BranchesIs, HasNodeIs
  <1>3. ASSUME p \in {Toward(key, b), Away(key, b)}, Len(p) < MaxHeight PROVE HasNode(m, p)
    <2>1. p # << >> /\ Parent(p) = b
      BY <1>3, Turns
    <2>2. Through(m, p) # {}
      <3>1. IsPrefixOf(Toward(key, b), key) /\ Through(m, Away(key, b)) # {}
        <4>1. IsPrefixOf(Toward(key, b), key)
          BY Turns
        <4>2. Through(m, Away(key, b)) # {}
          BY ThroughAway DEF Parting
        <4> QED BY <4>1, <4>2
      <3>2. Through(m, Toward(key, b)) # {}
        BY <3>1, ThroughMore
      <3> QED BY <1>3, <3>1, <3>2
    <2> QED BY <1>3, <2>1, <2>2, BranchesMore, HasNodeIs
  <1>4. ASSUME HasNode(m, p), p # b, ~HasNode(n, p)
        PROVE  p \in {Toward(key, b), Away(key, b)} /\ Len(p) < MaxHeight
    <2>0. Len(p) < MaxHeight /\ Through(m, p) # {} /\ (p = << >> \/ Branches(m, p) \/ Branches(m, Parent(p)))
      BY <1>4, HasNodeIs
    <2>1. p # << >>
      BY <1>4, RootNode, Turns DEF Parting
    <2>2. ~Branches(n, p)
      BY <1>4, <2>0, BranchesIs, HasNodeIs
    <2>3. ~Branches(m, p)
      BY <1>4, <2>2, BranchesMore
    <2>4. Branches(m, Parent(p))
      BY <2>0, <2>1, <2>3
    <2>5. Parent(p) \in Path /\ p[Len(p)] \in Bit /\ p = Append(Parent(p), p[Len(p)])
      BY <2>1, ParentPathIs
    <2>6. CASE Parent(p) = b
      BY <2>0, <2>5, <2>6, Turns
    <2>7. CASE Parent(p) # b
      <3>1. Branches(n, Parent(p))
        BY <2>4, <2>5, <2>7, BranchesMore
      <3>2. Through(n, p) # {}
        BY <2>5, <3>1, BranchesIs
      <3> QED BY <1>4, <2>0, <3>1, <3>2, HasNodeIs
    <2> QED BY <2>6, <2>7
  <1>5. HasNode(n, b) <=> b = << >> \/ Branches(n, Parent(b))
    <2>1. b \in Path /\ Len(b) < MaxHeight /\ Through(n, b) # {} /\ ~Branches(n, b)
      BY BranchesMore DEF Parting
    <2> QED BY <2>1, HasNodeIs
  <1>6. ~HasNode(n, Toward(key, b))
    BY Turns, HasNodeIs DEF Parting
  <1>7. HasNode(n, Away(key, b)) <=> Branches(n, Away(key, b))
    BY Turns, BranchesMore, HasNodeIs, BranchesIs
  <1> QED BY <1>1, <1>2, <1>3, <1>4, <1>5, <1>6, <1>7

\* An edge of the smaller trie that passes b ends there in the larger one; every
\* other edge stays.
LEMMA EdgeMore ==
  ASSUME NEW n, NEW m, NEW key, NEW b, Parting(n, m, key, b),
         NEW p \in Path, Through(n, p) # {}, ~Branches(n, p), p # b, NEW q, EdgeTo(n, p, q)
  PROVE  /\ ~Branches(m, p)
         /\ IsPrefixOf(p, b) /\ IsPrefixOf(b, q) => EdgeTo(m, p, b)
         /\ ~(IsPrefixOf(p, b) /\ IsPrefixOf(b, q)) => EdgeTo(m, p, q)
  <1>0. /\ q \in Path /\ IsPrefixOf(p, q) /\ Through(n, q) = Through(n, p)
        /\ Len(q) = MaxHeight \/ Branches(n, q)
    BY DEF EdgeTo
  <1>1. ~Branches(m, p)
    BY BranchesMore
  <1>2. b \in Path /\ key \in Path /\ IsPrefixOf(b, key) /\ Branches(m, b)
    BY Turns, BranchesMore DEF Parting
  <1>3. ASSUME IsPrefixOf(p, b), IsPrefixOf(b, q) PROVE EdgeTo(m, p, b)
    <2>1. Through(n, b) = Through(n, p)
      <3>1. Through(n, q) \subseteq Through(n, b)
        BY <1>0, <1>2, <1>3, ThroughPrefix
      <3>2. Through(n, b) \subseteq Through(n, p)
        BY <1>2, <1>3, ThroughPrefix
      <3> QED BY <1>0, <3>1, <3>2
    <2>2. IsPrefixOf(p, key)
      BY <1>2, <1>3, PathPrefixTrans
    <2>3. Through(m, b) = Through(m, p)
      BY <1>2, <2>1, <2>2, ThroughMore
    <2> QED BY <1>2, <1>3, <2>3 DEF EdgeTo
  <1>4. ASSUME ~(IsPrefixOf(p, b) /\ IsPrefixOf(b, q)) PROVE EdgeTo(m, p, q)
    <2>1. Len(q) = MaxHeight \/ Branches(m, q)
      BY <1>0, <1>2, BranchesMore
    <2>2. IsPrefixOf(p, key) <=> IsPrefixOf(q, key)
      <3>1. ASSUME IsPrefixOf(q, key) PROVE IsPrefixOf(p, key)
        BY <1>0, <1>2, <3>1, PathPrefixTrans
      <3>2. ASSUME IsPrefixOf(p, key) PROVE IsPrefixOf(q, key)
        <4>1. IsPrefixOf(p, b)
          BY <3>2, AboveOrBeyond, AloneBeyond
        <4>2. ~IsPrefixOf(b, q)
          BY <1>4, <4>1
        <4>3. PICK k : k \in Through(n, b)
          BY DEF Parting
        <4>4. k \in Through(n, q)
          BY <1>0, <1>2, <4>1, <4>3, ThroughPrefix
        <4>5. Len(q) \in Nat /\ Len(b) \in Nat
          BY <1>0, <1>2, PathLen
        <4>6. IsPrefixOf(q, b)
          BY <1>0, <1>2, <4>2, <4>3, <4>4, <4>5, ThroughBoth
        <4> QED BY <1>0, <1>2, <4>6, PathPrefixTrans
      <3> QED BY <3>1, <3>2
    <2>3. Through(m, q) = Through(m, p)
      <3>1. CASE IsPrefixOf(p, key)
        <4>1. Through(m, q) = Through(n, q) \cup {key} /\ Through(m, p) = Through(n, p) \cup {key}
          BY <2>2, <3>1, ThroughMore
        <4> QED BY <1>0, <4>1
      <3>2. CASE ~IsPrefixOf(p, key)
        <4>1. Through(m, q) = Through(n, q) /\ Through(m, p) = Through(n, p)
          BY <2>2, <3>2, ThroughMore
        <4> QED BY <1>0, <4>1
      <3> QED BY <3>1, <3>2
    <2> QED BY <1>0, <2>1, <2>3 DEF EdgeTo
  <1> QED BY <1>1, <1>3, <1>4

\* The key's own edge.
LEMMA EdgeToKey ==
  ASSUME NEW n, NEW m, NEW key, NEW b, Parting(n, m, key, b)
  PROVE  /\ ~Branches(m, Toward(key, b))
         /\ EdgeTo(m, Toward(key, b), key)
  <1>1. /\ key \in Path /\ Len(key) = MaxHeight /\ Toward(key, b) \in Path /\ b \in Path
        /\ IsPrefixOf(Toward(key, b), key) /\ Len(Toward(key, b)) = Len(b) + 1 /\ Len(b) \in Nat
    BY Turns
  <1>2. IsPrefixOf(key, key)
    BY <1>1, PrefixRefl
  <1>3. Through(n, Toward(key, b)) = {} /\ Through(n, key) = {}
    BY <1>1, AloneBeyond DEF Parting
  <1>4. Through(m, Toward(key, b)) = Through(m, key)
    <2>1. /\ Through(m, Toward(key, b)) = Through(n, Toward(key, b)) \cup {key}
          /\ Through(m, key) = Through(n, key) \cup {key}
      BY <1>1, <1>2, ThroughMore
    <2> QED BY <1>3, <2>1
  <1>5. Toward(key, b) # b
    BY <1>1
  <1>6. ~Branches(n, Toward(key, b))
    BY <1>1, <1>3, BranchesIs
  <1>7. ~Branches(m, Toward(key, b))
    BY <1>1, <1>5, <1>6, BranchesMore
  <1> QED BY <1>1, <1>4, <1>7 DEF EdgeTo

\* The other side of b: what an edge past b goes on with.
LEMMA EdgeAway ==
  ASSUME NEW n, NEW m, NEW key, NEW b, Parting(n, m, key, b),
         NEW p \in Path, NEW q, EdgeTo(n, p, q), IsPrefixOf(p, b), IsPrefixOf(b, q)
  PROVE  /\ IsPrefixOf(Away(key, b), q)
         /\ EdgeTo(n, Away(key, b), q) /\ EdgeTo(m, Away(key, b), q)
         /\ EdgeTo(n, b, q)
  <1>0. /\ q \in Path /\ IsPrefixOf(p, q) /\ Through(n, q) = Through(n, p)
        /\ Len(q) = MaxHeight \/ Branches(n, q)
    BY DEF EdgeTo
  <1>1. /\ b \in Path /\ Len(b) < MaxHeight /\ ~Branches(n, b) /\ Through(n, b) # {}
    <2>1. ~Branches(n, b)
      BY BranchesMore
    <2> QED BY <2>1 DEF Parting
  <1>2. PICK a : a = Away(key, b)
    OBVIOUS
  <1>3. a \in Path /\ Len(a) = Len(b) + 1 /\ IsPrefixOf(b, a) /\ ~IsPrefixOf(a, key) /\ key \in Path
    BY <1>2, Turns
  <1>4. Through(n, a) = Through(n, b) /\ Through(m, a) = Through(n, b)
    BY <1>2, ThroughAway
  <1>5. Through(n, b) = Through(n, q)
    BY <1>0, <1>1, ThroughPrefix
  <1>6. Len(b) < Len(q) /\ Len(b) \in Nat /\ Len(q) \in Nat
    <2>1. b # q
      BY <1>0, <1>1
    <2>2. Len(b) \in Nat /\ Len(q) \in Nat
      BY <1>0, <1>1, PathLen
    <2>3. ~(Len(b) >= Len(q))
      BY <1>0, <1>1, <2>1, PrefixSame
    <2> QED BY <2>2, <2>3
  <1>7. IsPrefixOf(a, q)
    <2>1. PICK k : k \in Through(n, b)
      BY <1>1
    <2>2. Len(a) <= Len(q)
      BY <1>3, <1>6
    <2> QED BY <1>0, <1>3, <1>4, <1>5, <2>1, <2>2, ThroughBoth
  <1>8. ~IsPrefixOf(q, key)
    BY <1>0, <1>3, <1>7, PathPrefixTrans
  <1>9. Through(m, q) = Through(m, a)
    BY <1>4, <1>5, <1>8, ThroughMore
  <1>10. Len(q) = MaxHeight \/ Branches(m, q)
    BY <1>0, <1>1, BranchesMore
  <1> QED BY <1>0, <1>1, <1>2, <1>4, <1>5, <1>7, <1>9, <1>10 DEF EdgeTo

\* Without the key: what was beyond b on the other side is where the edge from b,
\* or the one that ended at b, now leads.
LEMMA EdgeLess ==
  ASSUME NEW n, NEW m, NEW key, NEW b, Parting(n, m, key, b)
  PROVE  /\ Len(Away(key, b)) = MaxHeight \/ Branches(m, Away(key, b)) =>
               EdgeTo(n, b, Away(key, b))
         /\ \A q : EdgeTo(m, Away(key, b), q) => EdgeTo(n, b, q)
  <1>1. PICK a : a = Away(key, b)
    OBVIOUS
  <1>2. /\ a \in Path /\ Len(a) = Len(b) + 1 /\ IsPrefixOf(b, a) /\ ~IsPrefixOf(a, key)
        /\ key \in Path /\ b \in Path /\ Len(b) \in Nat
    BY <1>1, Turns
  <1>3. Through(n, a) = Through(n, b) /\ Through(m, a) = Through(n, b)
    BY <1>1, ThroughAway
  <1>4. a # b
    BY <1>2
  <1>5. ASSUME Len(a) = MaxHeight \/ Branches(m, a) PROVE EdgeTo(n, b, a)
    <2>1. Len(a) = MaxHeight \/ Branches(n, a)
      BY <1>2, <1>4, <1>5, BranchesMore
    <2> QED BY <1>2, <1>3, <2>1 DEF EdgeTo
  <1>6. ASSUME NEW q, EdgeTo(m, a, q) PROVE EdgeTo(n, b, q)
    <2>1. q \in Path /\ IsPrefixOf(a, q) /\ Through(m, q) = Through(m, a)
          /\ (Len(q) = MaxHeight \/ Branches(m, q))
      BY <1>6 DEF EdgeTo
    <2>2. ~IsPrefixOf(q, key) /\ IsPrefixOf(b, q)
      BY <1>2, <2>1, PathPrefixTrans
    <2>3. Through(n, q) = Through(n, b)
      BY <1>3, <2>1, <2>2, ThroughMore
    <2>4. q # b
      BY <1>2, <2>1, PrefixLen
    <2>5. Len(q) = MaxHeight \/ Branches(n, q)
      BY <2>1, <2>4, BranchesMore
    <2> QED BY <2>1, <2>2, <2>3, <2>5 DEF EdgeTo
  <1> QED BY <1>1, <1>5, <1>6

\* The edge that ended at b is extended.
LEMMA EdgeJoined ==
  ASSUME NEW n, NEW m, NEW key, NEW b, Parting(n, m, key, b),
         NEW p \in Path, EdgeTo(m, p, b), NEW q, EdgeTo(n, b, q)
  PROVE  EdgeTo(n, p, q)
  <1>1. /\ b \in Path /\ IsPrefixOf(p, b) /\ Through(m, b) = Through(m, p)
        /\ q \in Path /\ IsPrefixOf(b, q) /\ Through(n, q) = Through(n, b)
        /\ Len(q) = MaxHeight \/ Branches(n, q)
    BY DEF EdgeTo
  <1>2. key \in Path /\ IsPrefixOf(b, key)
    BY Turns DEF Parting
  <1>3. IsPrefixOf(p, key) /\ IsPrefixOf(p, q)
    BY <1>1, <1>2, PathPrefixTrans
  <1>4. Through(m, b) = Through(n, b) \cup {key} /\ Through(m, p) = Through(n, p) \cup {key}
    BY <1>2, <1>3, ThroughMore
  <1>5. key \notin Through(n, b) /\ key \notin Through(n, p)
    <2>1. key \notin Through(n, Toward(key, b))
      BY DEF Parting
    <2>2. IsPrefixOf(Toward(key, b), key) /\ key \in Key
      BY Turns DEF Parting
    <2>3. n[key] = None
      BY <2>1, <2>2 DEF Through
    <2> QED BY <2>3 DEF Through
  <1>6. Through(n, b) = Through(n, p)
    <2>1. Through(n, b) \cup {key} = Through(n, p) \cup {key}
      BY <1>1, <1>4
    <2> QED BY <1>5, <2>1
  <1> QED BY <1>1, <1>3, <1>6 DEF EdgeTo

(***************************************************************************)
(* How a trie of nodes changes when its edges are split and merged         *)
(***************************************************************************)
\* What t has at p is what the trie of m has there, hashes and handles apart.
Looks(t, m, p) ==
    IF HasNode(m, p) THEN t[p] # NoNode /\ DOMAIN t[p].next = Labels(m, p)
                          /\ IsBinary(t[p]) = Branches(m, p)
                     ELSE t[p] = NoNode

LEMMA ShapeIs == \A t, m : HasShapeOf(t, m) <=> \A p \in Path : Looks(t, m, p)
  BY DEF HasShapeOf, Looks

\* The shape depends on which keys have a leaf.
LEMMA ShapeOfKeys ==
  ASSUME NEW t, NEW m, NEW n, \A k \in Key : m[k] = None <=> n[k] = None, HasShapeOf(t, m)
  PROVE  HasShapeOf(t, n)
  <1>1. ASSUME NEW p PROVE Through(m, p) = Through(n, p)
    BY DEF Through
  <1>2. ASSUME NEW p PROVE Branches(m, p) = Branches(n, p)
    BY <1>1 DEF Branches
  <1>3. ASSUME NEW p PROVE HasNode(m, p) = HasNode(n, p)
    BY <1>1, <1>2 DEF HasNode
  <1>4. ASSUME NEW p PROVE SharedPaths(m, p) = SharedPaths(n, p)
    BY <1>1 DEF SharedPaths
  <1>5. ASSUME NEW p PROVE SharedPath(m, p) = SharedPath(n, p)
    <2>1. SharedPaths(m, p) = SharedPaths(n, p)
      BY <1>4
    <2>2. /\ SharedPath(m, p) = CHOOSE l \in SharedPaths(m, p) : \A o \in SharedPaths(m, p) : Len(o) <= Len(l)
          /\ SharedPath(n, p) = CHOOSE l \in SharedPaths(n, p) : \A o \in SharedPaths(n, p) : Len(o) <= Len(l)
      BY SharedPathIs
    <2> QED BY <2>1, <2>2
  <1>6. ASSUME NEW p PROVE Labels(m, p) = Labels(n, p)
    BY <1>2, <1>5 DEF Labels
  <1> QED BY <1>2, <1>3, <1>6 DEF HasShapeOf

\* Two tries with the same nodes and arcs.
SameNode(a, b) ==
    /\ a = NoNode <=> b = NoNode
    /\ a # NoNode => DOMAIN a.next = DOMAIN b.next /\ IsBinary(a) = IsBinary(b)

LEMMA ShapeOfNodes ==
  ASSUME NEW t, NEW u, NEW m, HasShapeOf(t, m), \A p \in Path : SameNode(t[p], u[p])
  PROVE  HasShapeOf(u, m)
  <1> SUFFICES ASSUME NEW p \in Path PROVE Looks(u, m, p)
    BY ShapeIs
  <1>1. Looks(t, m, p) /\ SameNode(t[p], u[p])
    BY ShapeIs
  <1> QED BY <1>1 DEF Looks, SameNode

\* An edge of the smaller trie that passes b, the place where the key parts.
Passes(n, b, p, e) ==
    /\ p \in Path /\ HasNode(n, p) /\ ~Branches(n, p) /\ EdgeTo(n, p, e)
    /\ IsPrefixOf(p, b) /\ IsPrefixOf(b, e)

LEMMA PassingEdge ==
  ASSUME NEW n, NEW m, NEW key, NEW b, Parting(n, m, key, b), NEW p, NEW e, Passes(n, b, p, e)
  PROVE  /\ p \in Path /\ e \in Path /\ b \in Path
         /\ Len(p) \in Nat /\ Len(b) \in Nat /\ Len(e) \in Nat /\ Len(p) < MaxHeight
         /\ Len(p) <= Len(b) /\ Len(b) < Len(e)
         /\ Through(n, p) # {} /\ Through(n, e) = Through(n, p)
         /\ IsPrefixOf(p, Away(key, b)) /\ IsPrefixOf(Away(key, b), e)
         /\ Len(Away(key, b)) = Len(b) + 1
  <1>1. /\ p \in Path /\ HasNode(n, p) /\ ~Branches(n, p) /\ EdgeTo(n, p, e)
        /\ IsPrefixOf(p, b) /\ IsPrefixOf(b, e)
    BY DEF Passes
  <1>2. e \in Path /\ Through(n, e) = Through(n, p)
    BY <1>1 DEF EdgeTo
  <1>3. b \in Path /\ Away(key, b) \in Path /\ Len(Away(key, b)) = Len(b) + 1 /\ IsPrefixOf(b, Away(key, b))
    BY Turns
  <1>4. Len(p) < MaxHeight /\ Through(n, p) # {}
    BY <1>1, HasNodeIs
  <1>5. IsPrefixOf(Away(key, b), e)
    BY <1>1, EdgeAway
  <1>6. IsPrefixOf(p, Away(key, b))
    BY <1>1, <1>3, PathPrefixTrans
  <1>7. Len(p) \in Nat /\ Len(b) \in Nat /\ Len(e) \in Nat /\ Len(p) <= Len(b) /\ Len(Away(key, b)) <= Len(e)
    BY <1>1, <1>2, <1>3, <1>5, PrefixLen
  <1> QED BY <1>1, <1>2, <1>3, <1>4, <1>5, <1>6, <1>7

\* No other edge passes b.
LEMMA PassesOnce ==
  ASSUME NEW n, NEW m, NEW key, NEW b, Parting(n, m, key, b),
         NEW p, NEW e, Passes(n, b, p, e), NEW x, NEW y, Passes(n, b, x, y)
  PROVE  x = p
  <1>1. ASSUME NEW r, NEW f, NEW s, NEW g, Passes(n, b, r, f), Passes(n, b, s, g), Len(r) < Len(s)
        PROVE  FALSE
    <2>1. /\ r \in Path /\ f \in Path /\ Len(r) \in Nat /\ Len(f) \in Nat
          /\ s \in Path /\ Len(s) \in Nat /\ Len(b) \in Nat /\ b \in Path
          /\ Len(b) < Len(f) /\ Len(s) <= Len(b) /\ Through(n, s) # {}
      BY <1>1, PassingEdge
    <2>2. /\ HasNode(n, r) /\ HasNode(n, s) /\ ~Branches(n, r) /\ EdgeTo(n, r, f)
          /\ IsPrefixOf(r, b) /\ IsPrefixOf(s, b)
      BY <1>1 DEF Passes
    <2>3. IsPrefixOf(r, s) /\ r # s
      BY <1>1, <2>1, <2>2, PrefixOfBoth
    <2>4. PICK l \in Labels(n, r) : IsPrefixOf(r \o l, s)
      BY <2>1, <2>2, <2>3, ArcToward
    <2>5. l = SharedPath(n, r)
      BY <2>2, <2>4 DEF Labels
    <2>6. Len(r) < MaxHeight /\ Through(n, r) # {}
      BY <2>1, <2>2, HasNodeIs
    <2>7. EdgeTo(n, r, r \o l)
      BY <2>1, <2>2, <2>5, <2>6, SharedPathEnds
    <2>8. r \o l = f
      BY <2>1, <2>2, <2>6, <2>7, EdgeEndUnique
    <2>9. Len(f) <= Len(s)
      BY <2>1, <2>4, <2>8, PrefixLen
    <2> QED BY <2>1, <2>9
  <1>2. /\ p \in Path /\ x \in Path /\ b \in Path /\ Len(p) \in Nat /\ Len(x) \in Nat
    BY PassingEdge
  <1>3. Len(p) = Len(x)
    BY <1>1, <1>2
  <1>4. IsPrefixOf(x, b) /\ IsPrefixOf(p, b)
    BY DEF Passes
  <1>5. IsPrefixOf(x, p)
    BY <1>2, <1>3, <1>4, PrefixOfBoth
  <1> QED BY <1>2, <1>3, <1>5, PrefixSame

\* Away from b the two tries look alike.
LEMMA SameElsewhere ==
  ASSUME NEW n, NEW m, NEW key, NEW b, Parting(n, m, key, b), NEW p, NEW e, Passes(n, b, p, e),
         NEW x \in Path, x # p, x # b,
         x = Toward(key, b) => Len(x) = MaxHeight,
         x = Away(key, b) => x = e,
         NEW t, NEW u, t[x] = u[x]
  PROVE  Looks(t, n, x) <=> Looks(u, m, x)
  <1>0. Branches(m, x) <=> Branches(n, x)
    BY BranchesMore
  <1>1. HasNode(m, x) <=> HasNode(n, x)
    <2>1. CASE x = Toward(key, b)
      <3>1. Len(x) = MaxHeight
        BY <2>1
      <3> QED BY <3>1, HasNodeIs, MaxHeightAssumption
    <2>2. CASE x = Away(key, b) /\ x # Toward(key, b)
      <3>1. Len(x) = MaxHeight \/ Branches(n, x)
        BY <2>2 DEF Passes, EdgeTo
      <3>2. HasNode(n, x) <=> Branches(n, x)
        BY <2>2, HasNodeMore
      <3>3. HasNode(m, x) <=> HasNode(n, x) \/ Len(x) < MaxHeight
        BY <2>2, HasNodeMore
      <3>4. HasNode(n, x) => Len(x) < MaxHeight
        BY HasNodeIs
      <3> QED BY <3>1, <3>2, <3>3, <3>4, MaxHeightAssumption
    <2>3. CASE x \notin {Toward(key, b), Away(key, b)}
      BY <2>3, HasNodeMore
    <2> QED BY <2>1, <2>2, <2>3
  <1>2. ASSUME HasNode(n, x), HasNode(m, x) PROVE Labels(n, x) = Labels(m, x)
    <2>1. CASE Branches(n, x)
      BY <1>0, <2>1 DEF Labels
    <2>2. CASE ~Branches(n, x)
      <3>1. Len(x) < MaxHeight /\ Through(n, x) # {} /\ Through(m, x) # {}
        BY <1>2, HasNodeIs
      <3>2. PICK l : l = SharedPath(n, x)
        OBVIOUS
      <3>3. l \in Path /\ EdgeTo(n, x, x \o l)
        BY <2>2, <3>1, <3>2, SharedPathEnds
      <3>4. ~Passes(n, b, x, x \o l)
        BY PassesOnce
      <3>5. ~(IsPrefixOf(x, b) /\ IsPrefixOf(b, x \o l))
        BY <1>2, <2>2, <3>3, <3>4 DEF Passes
      <3>6. EdgeTo(m, x, x \o l)
        BY <2>2, <3>1, <3>3, <3>5, EdgeMore
      <3>7. SharedPath(m, x) = l
        BY <1>0, <2>2, <3>1, <3>3, <3>6, EdgeLabelIs
      <3> QED BY <1>0, <2>2, <3>2, <3>7 DEF Labels
    <2> QED BY <2>1, <2>2
  <1>3. Branches(m, x) = Branches(n, x)
    BY <1>0 DEF Branches
  <1> QED BY <1>1, <1>2, <1>3 DEF Looks

LEMMA LooksEdge ==
  ASSUME NEW t, NEW m, NEW p \in Path, HasNode(m, p), ~Branches(m, p),
         NEW q, EdgeTo(m, p, q), t[p] # NoNode, ~IsBinary(t[p]),
         DOMAIN t[p].next = {From(q, Len(p))}
  PROVE  Looks(t, m, p)
  <1>1. q \in Path /\ IsPrefixOf(p, q)
    BY DEF EdgeTo
  <1>2. From(q, Len(p)) \in Path /\ p \o From(q, Len(p)) = q
    BY <1>1, PathRest
  <1>3. SharedPath(m, p) = From(q, Len(p))
    BY <1>2, HasNodeIs, EdgeLabelIs
  <1>4. Labels(m, p) = {From(q, Len(p))}
    BY <1>3 DEF Labels
  <1>5. IsBinary(t[p]) = Branches(m, p)
    BY DEF IsBinary, Branches
  <1> QED BY <1>4, <1>5 DEF Looks

LEMMA LooksBinary ==
  ASSUME NEW t, NEW m, NEW p \in Path, HasNode(m, p), Branches(m, p),
         t[p] # NoNode, IsBinary(t[p]), DOMAIN t[p].next = Directions
  PROVE  Looks(t, m, p)
  <1>1. IsBinary(t[p]) = Branches(m, p)
    BY DEF IsBinary, Branches
  <1> QED BY <1>1 DEF Looks, Labels

\* The edge is split at b.
LEMMA ShapeSplit ==
  ASSUME NEW n, NEW m, NEW key, NEW b, Parting(n, m, key, b), NEW p, NEW e, Passes(n, b, p, e),
         NEW t, HasShapeOf(t, n), NEW u,
         u[b] # NoNode, IsBinary(u[b]), DOMAIN u[b].next = Directions,
         p # b => u[p] # NoNode /\ ~IsBinary(u[p]) /\ DOMAIN u[p].next = {From(b, Len(p))},
         Len(Toward(key, b)) < MaxHeight =>
             /\ u[Toward(key, b)] # NoNode /\ ~IsBinary(u[Toward(key, b)])
             /\ DOMAIN u[Toward(key, b)].next = {From(key, Len(Toward(key, b)))},
         Away(key, b) # e =>
             /\ u[Away(key, b)] # NoNode /\ ~IsBinary(u[Away(key, b)])
             /\ DOMAIN u[Away(key, b)].next = {From(e, Len(Away(key, b)))},
         \A x \in Path : /\ x # p /\ x # b
                         /\ x = Toward(key, b) => Len(x) = MaxHeight
                         /\ x = Away(key, b) => x = e
                         => u[x] = t[x]
  PROVE  HasShapeOf(u, m)
  <1> SUFFICES ASSUME NEW x \in Path PROVE Looks(u, m, x)
    BY ShapeIs
  <1>1. CASE x = b
    <2>1. b \in Path /\ Branches(m, b) /\ HasNode(m, b)
      BY <1>1, BranchesMore, HasNodeMore
    <2> QED BY <1>1, <2>1, LooksBinary
  <1>2. CASE x = p /\ x # b
    <2>1. p \in Path /\ HasNode(n, p) /\ ~Branches(n, p) /\ EdgeTo(n, p, e)
          /\ IsPrefixOf(p, b) /\ IsPrefixOf(b, e) /\ Through(n, p) # {}
      BY PassingEdge DEF Passes
    <2>2. HasNode(m, p)
      BY <2>1, HasNodeMore
    <2>3. ~Branches(m, p) /\ EdgeTo(m, p, b)
      BY <1>2, <2>1, EdgeMore
    <2> QED BY <1>2, <2>1, <2>2, <2>3, LooksEdge
  <1>3. CASE x = Toward(key, b) /\ Len(x) < MaxHeight /\ x # b
    <2>1. HasNode(m, x)
      BY <1>3, HasNodeMore
    <2>2. ~Branches(m, x) /\ EdgeTo(m, x, key)
      BY <1>3, EdgeToKey
    <2> QED BY <1>3, <2>1, <2>2, LooksEdge
  <1>4. CASE x = Away(key, b) /\ x # e /\ x # b
    <2>1. /\ e \in Path /\ Through(n, e) = Through(n, p) /\ IsPrefixOf(p, x) /\ IsPrefixOf(x, e) /\ p \in Path
      BY <1>4, PassingEdge
    <2>2. Len(x) < Len(e) /\ Len(e) <= MaxHeight /\ Len(x) \in Nat /\ Len(e) \in Nat
      <3>1. Len(x) \in Nat /\ Len(e) \in Nat /\ Len(e) <= MaxHeight
        BY <2>1, PathLen
      <3>2. ~(Len(x) >= Len(e))
        BY <1>4, <2>1, PrefixSame
      <3> QED BY <3>1, <3>2
    <2>3. Len(x) < MaxHeight
      <3>1. PICK i \in Nat, j \in Nat : i = Len(x) /\ j = Len(e)
        BY <2>2
      <3>2. i < MaxHeight
        BY <2>2, <3>1, MaxHeightAssumption
      <3> QED BY <3>1, <3>2
    <2>4. HasNode(m, x)
      BY <1>4, <2>3, HasNodeMore
    <2>5. ~Branches(n, x)
      BY <2>1, <2>2, NoBranchInside
    <2>6. ~Branches(m, x)
      BY <1>4, <2>5, BranchesMore
    <2>7. EdgeTo(m, x, e)
      <3>1. p \in Path /\ EdgeTo(n, p, e) /\ IsPrefixOf(p, b) /\ IsPrefixOf(b, e)
        BY DEF Passes
      <3> QED BY <1>4, <3>1, EdgeAway
    <2> QED BY <1>4, <2>4, <2>6, <2>7, LooksEdge
  <1>5. CASE /\ x # p /\ x # b /\ (x = Toward(key, b) => Len(x) = MaxHeight)
             /\ x = Away(key, b) => x = e
    <2>1. t[x] = u[x] /\ Looks(t, n, x)
      BY <1>5, ShapeIs
    <2> QED BY <1>5, <2>1, SameElsewhere
  <1>6. Len(x) < MaxHeight \/ Len(x) = MaxHeight
    BY PathLen, MaxHeightAssumption
  <1> QED BY <1>1, <1>2, <1>3, <1>4, <1>5, <1>6

\* The key is gone: its edge, b and what b led to become one edge.
LEMMA ShapeMerge ==
  ASSUME NEW n, NEW m, NEW key, NEW b, Parting(n, m, key, b), NEW p, NEW e, Passes(n, b, p, e),
         NEW t, HasShapeOf(t, m), NEW u,
         u[p] # NoNode, ~IsBinary(u[p]), DOMAIN u[p].next = {From(e, Len(p))},
         p # b => u[b] = NoNode,
         u[Toward(key, b)] = NoNode,
         Away(key, b) # e => u[Away(key, b)] = NoNode,
         \A x \in Path : /\ x # p /\ x # b /\ x # Toward(key, b)
                         /\ x = Away(key, b) => x = e
                         => u[x] = t[x]
  PROVE  HasShapeOf(u, n)
  <1> SUFFICES ASSUME NEW x \in Path PROVE Looks(u, n, x)
    BY ShapeIs
  <1>0. p \in Path /\ HasNode(n, p) /\ ~Branches(n, p) /\ EdgeTo(n, p, e)
        /\ IsPrefixOf(p, b) /\ IsPrefixOf(b, e)
    BY DEF Passes
  <1>a. /\ e \in Path /\ b \in Path /\ Through(n, e) = Through(n, p) /\ Len(p) \in Nat /\ Len(b) \in Nat
        /\ Len(b) < Len(e) /\ Len(e) \in Nat
        /\ IsPrefixOf(p, Away(key, b)) /\ IsPrefixOf(Away(key, b), e)
    BY PassingEdge
  <1>1. CASE x = p
    BY <1>0, <1>1, LooksEdge
  <1>2. CASE x = b /\ x # p
    <2>1. b # << >>
      <3>1. Len(p) < Len(b)
        BY <1>0, <1>2, <1>a, PrefixSame
      <3> QED BY <1>a, <3>1
    <2>2. /\ Parent(b) \in Path /\ Len(Parent(b)) + 1 = Len(b) /\ IsPrefixOf(Parent(b), b)
          /\ Len(Parent(b)) \in Nat
      BY <1>a, <2>1, ParentPathIs, PathLen
    <2>3. Len(p) < Len(b)
      BY <1>0, <1>2, <1>a, PrefixSame
    <2>4. IsPrefixOf(p, Parent(b)) /\ IsPrefixOf(Parent(b), e) /\ Len(Parent(b)) < Len(e)
      <3>1. Len(p) <= Len(Parent(b)) /\ Len(Parent(b)) < Len(e)
        BY <1>a, <2>2, <2>3
      <3>2. IsPrefixOf(p, Parent(b))
        BY <1>0, <1>a, <2>2, <3>1, PrefixOfBoth
      <3>3. IsPrefixOf(Parent(b), e)
        BY <1>0, <1>a, <2>2, PathPrefixTrans
      <3> QED BY <3>1, <3>2, <3>3
    <2>5. ~Branches(n, Parent(b))
      BY <1>0, <1>a, <2>2, <2>4, NoBranchInside
    <2>6. ~HasNode(n, b)
      BY <1>2, <2>1, <2>5, HasNodeMore
    <2> QED BY <1>2, <2>6 DEF Looks
  <1>3. CASE x = Toward(key, b)
    <2>1. ~HasNode(n, x)
      BY <1>3, HasNodeMore
    <2> QED BY <1>3, <2>1 DEF Looks
  <1>4. CASE x = Away(key, b) /\ x # e
    <2>1. Len(x) < Len(e)
      <3>1. Len(x) \in Nat
        BY PathLen
      <3>2. ~(Len(x) >= Len(e))
        BY <1>4, <1>a, PrefixSame
      <3> QED BY <1>a, <3>1, <3>2
    <2>2. ~Branches(n, x)
      BY <1>0, <1>4, <1>a, <2>1, NoBranchInside
    <2>3. ~HasNode(n, x)
      BY <1>4, <2>2, HasNodeMore
    <2> QED BY <1>4, <2>3 DEF Looks
  <1>5. CASE x # p /\ x # b /\ x # Toward(key, b) /\ (x = Away(key, b) => x = e)
    <2>1. u[x] = t[x] /\ Looks(t, m, x)
      BY <1>5, ShapeIs
    <2> QED BY <1>5, <2>1, SameElsewhere
  <1> QED BY <1>1, <1>2, <1>3, <1>4, <1>5

\* A trie without keys has no nodes.
LEMMA ShapeEmpty ==
  ASSUME NEW m, \A k \in Key : m[k] = None, NEW t
  PROVE  HasShapeOf(t, m) <=> \A p \in Path : t[p] = NoNode
  <1>1. ASSUME NEW p \in Path PROVE ~HasNode(m, p)
    <2>1. Through(m, p) = {}
      BY DEF Through
    <2> QED BY <2>1, HasNodeIs
  <1> QED BY <1>1, ShapeIs DEF Looks

\* A trie without a root has no keys.
LEMMA NoRoot ==
  ASSUME NEW m, NEW t, HasShapeOf(t, m), t[<< >>] = NoNode
  PROVE  (\A k \in Key : m[k] = None) /\ (\A p \in Path : t[p] = NoNode)
  <1>1. ~HasNode(m, << >>)
    BY RootInPath, ShapeIs DEF Looks
  <1>2. ASSUME NEW k \in Key, m[k] # None PROVE FALSE
    <2>1. k \in Path /\ k \in Through(m, k)
      BY <1>2, KeyInPath, PrefixRefl DEF Through
    <2> QED BY <1>1, <2>1, RootNode
  <1> QED BY <1>2, ShapeEmpty

\* The only key.
LEMMA OnlyKey ==
  ASSUME NEW m, NEW key \in Key, \A k \in Key : m[k] # None <=> k = key
  PROVE  /\ HasNode(m, << >>) /\ EdgeTo(m, << >>, key)
         /\ \A p \in Path : ~Branches(m, p)
         /\ From(key, Len(<< >>)) = key
  <1>1. key \in Path /\ Len(key) = MaxHeight /\ << >> \in Path /\ IsPrefixOf(<< >>, key) /\ IsPrefixOf(key, key)
    BY KeyInPath, KeySeq, RootInPath, EmptyPrefix, PathSeq, PrefixRefl
  <1>2. \A p : Through(m, p) = IF IsPrefixOf(p, key) THEN {key} ELSE {}
    BY DEF Through
  <1>3. ASSUME NEW p \in Path, Branches(m, p) PROVE FALSE
    <2>1. Len(p) < MaxHeight /\ (\A b \in Bit : Through(m, Append(p, b)) # {}) /\ Through(m, p) # {}
      BY <1>3, BranchesIs
    <2>2. 0 \in Bit /\ 1 \in Bit
      BY DEF Bit
    <2>3. IsPrefixOf(Append(p, 0), key) /\ IsPrefixOf(Append(p, 1), key) /\ IsPrefixOf(p, key)
      BY <1>2, <2>1, <2>2
    <2>4. Len(p) < Len(key)
      BY <1>1, <2>1
    <2>5. 0 = key[Len(p) + 1] /\ 1 = key[Len(p) + 1]
      BY <1>1, <2>2, <2>3, <2>4, NextBit
    <2> QED BY <2>5
  <1>4. Through(m, key) = Through(m, << >>) /\ Through(m, key) # {}
    BY <1>1, <1>2
  <1>5. HasNode(m, << >>)
    BY <1>1, <1>4, RootNode
  <1>6. EdgeTo(m, << >>, key)
    BY <1>1, <1>4 DEF EdgeTo
  <1>7. From(key, Len(<< >>)) = key
    <2>1. key \in Seq(Bit)
      BY KeySeq
    <2> QED BY <2>1 DEF From
  <1> QED BY <1>3, <1>5, <1>6, <1>7

LEMMA ShapeFirst ==
  ASSUME NEW m, NEW key \in Key, \A k \in Key : m[k] # None <=> k = key, NEW t,
         t[<< >>] # NoNode, ~IsBinary(t[<< >>]), DOMAIN t[<< >>].next = {key},
         \A p \in Path : p # << >> => t[p] = NoNode
  PROVE  HasShapeOf(t, m)
  <1> SUFFICES ASSUME NEW p \in Path PROVE Looks(t, m, p)
    BY ShapeIs
  <1>1. CASE p = << >>
    BY <1>1, OnlyKey, LooksEdge
  <1>2. CASE p # << >>
    <2>1. Parent(p) \in Path
      BY <1>2, ParentPathIs
    <2>2. ~HasNode(m, p)
      BY <1>2, <2>1, OnlyKey, HasNodeIs
    <2> QED BY <1>2, <2>2 DEF Looks
  <1> QED BY <1>1, <1>2

\* An edge from the root down to a leaf is all there is.
LEMMA RootEdgeToLeaf ==
  ASSUME NEW m, NEW key \in Key, m[key] # None, NEW q, EdgeTo(m, << >>, q), Len(q) = MaxHeight
  PROVE  q = key /\ \A k \in Key : m[k] # None => k = key
  <1>1. q \in Path /\ Through(m, q) = Through(m, << >>)
    BY DEF EdgeTo
  <1>2. ASSUME NEW k \in Key, m[k] # None PROVE k = q
    <2>1. k \in Path /\ Len(k) = MaxHeight
      BY KeyInPath, KeySeq
    <2>2. k \in Through(m, << >>)
      BY <1>2, <2>1, EmptyPrefix, PathSeq DEF Through
    <2>3. IsPrefixOf(q, k)
      BY <1>1, <2>2 DEF Through
    <2>4. Len(q) >= Len(k)
      BY <2>1, MaxHeightAssumption
    <2> QED BY <1>1, <2>1, <2>3, <2>4, PrefixSame
  <1> QED BY <1>2

\* Between the two ends of an arc there is no other node.
LEMMA ArcOnly ==
  ASSUME NEW m, NEW p \in Path, HasNode(m, p), NEW l \in Labels(m, p),
         NEW x \in Path, HasNode(m, x), IsPrefixOf(p, x), p # x, IsPrefixOf(x, p \o l)
  PROVE  x = p \o l
  <1>1. ArcOf(m, p, l)
    BY Arc
  <1>2. Through(m, x) # {}
    BY DEF HasNode
  <1>3. PICK j \in Labels(m, p) : IsPrefixOf(p \o j, x)
    BY <1>2, ArcToward
  <1>4. ArcOf(m, p, j)
    BY Arc
  <1>5. Len(l) = Len(j)
    <2>1. CASE Branches(m, p)
      <3>1. \A d \in Directions : Len(d) = 1
        BY DEF Directions
      <3> QED BY <2>1, <3>1 DEF Labels
    <2>2. CASE ~Branches(m, p)
      BY <2>2 DEF Labels
    <2> QED BY <2>1, <2>2
  <1>6. Len(p \o l) = Len(p \o j) /\ p \o l \in Path /\ p \o j \in Path
    BY <1>1, <1>4, <1>5 DEF ArcOf
  <1>7. Len(p \o j) <= Len(x) /\ Len(p \o j) \in Nat /\ Len(x) \in Nat
    BY <1>3, <1>6, PrefixLen
  <1> QED BY <1>6, <1>7, PrefixSame

\* An arc's end has one node above it.
LEMMA ArcUnique ==
  ASSUME NEW m, NEW p \in Path, HasNode(m, p), NEW l \in Labels(m, p),
         NEW x \in Path, HasNode(m, x), NEW j \in Labels(m, x), p \o l = x \o j
  PROVE  p = x
  <1>1. ArcOf(m, p, l) /\ ArcOf(m, x, j)
    BY Arc
  <1>2. /\ p \o l \in Path /\ IsPrefixOf(p, p \o l) /\ IsPrefixOf(x, p \o l)
        /\ Len(p) < Len(p \o l) /\ Len(x) < Len(p \o l)
        /\ Len(p) \in Nat /\ Len(x) \in Nat /\ Len(p \o l) \in Nat
    BY <1>1, PathLen DEF ArcOf
  <1>3. CASE Len(p) <= Len(x)
    <2>1. IsPrefixOf(p, x)
      BY <1>2, <1>3, PrefixOfBoth
    <2>2. IsPrefixOf(x, p \o l) /\ x # p \o l
      BY <1>2
    <2> QED BY <2>1, <2>2, ArcOnly
  <1>4. CASE Len(x) <= Len(p)
    <2>1. IsPrefixOf(x, p)
      BY <1>2, <1>4, PrefixOfBoth
    <2>2. IsPrefixOf(p, x \o j) /\ p # x \o j
      BY <1>2
    <2> QED BY <2>1, <2>2, ArcOnly
  <1> QED BY <1>2, <1>3, <1>4
=============================================================================
