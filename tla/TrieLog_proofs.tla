--------------------------- MODULE TrieLog_proofs ---------------------------
(***************************************************************************)
(* Proofs about TrieLog: for every order of the rows, every set of keys,   *)
(* every limit, with or without id gaps, failures and crashes.             *)
(*                                                                         *)
(* The bytes of a row come first: they tell its log, its key and which of  *)
(* the two values it holds.  Then Transaction is said without recursion,   *)
(* the invariant of the loop over the rows of one log is stated and proved *)
(* and the invariant of the whole call put together.                       *)
(***************************************************************************)
EXTENDS TrieLog, KeyValueDB_proofs, SequenceTheorems

LEMMA ToBytesInjective ==
  ASSUME NEW i \in Nat, NEW j \in Nat,
         to_bytes(i)[1] = to_bytes(j)[1], to_bytes(i)[2] = to_bytes(j)[2]
  PROVE  i = j
  <1>1. i \div 256 = j \div 256 /\ i % 256 = j % 256
    BY DEF to_bytes
  <1>2. \A m \in Nat, n \in Nat : m \div 256 = n \div 256 /\ m % 256 = n % 256 => m = n
    OBVIOUS
  <1> QED BY <1>1, <1>2

LEMMA ToBytesType ==
  ASSUME NEW i \in Nat
  PROVE  to_bytes(i) \in Seq(Nat) /\ Len(to_bytes(i)) = 2
  <1>1. i \div 256 \in Nat /\ i % 256 \in Nat
    OBVIOUS
  <1> QED BY <1>1 DEF to_bytes

LEMMA KeyType ==
  ASSUME NEW k \in DBKey
  PROVE  /\ k = [variant |-> k.variant, bytes |-> k.bytes]
         /\ k.variant \in Nat /\ k.bytes \in Seq(Nat) /\ Len(k.bytes) \in Nat
  <1>1. k \in [variant : 0..1, bytes : Seq(0..255)]
    BY DBKeyAssumption
  <1>2. k.variant \in 0..1 /\ k.bytes \in Seq(0..255)
    BY <1>1
  <1>3. k.bytes \in Seq(Nat)
    <2>1. 0..255 \subseteq Nat
      OBVIOUS
    <2> QED BY <1>2, <2>1, SeqMonotonic
  <1> QED BY <1>1, <1>2, <1>3, LenProperties

LEMMA ConcatAt ==
  ASSUME NEW s \in Seq(Nat), NEW t \in Seq(Nat)
  PROVE  /\ (s \o t) \in Seq(Nat) /\ Len(s \o t) = Len(s) + Len(t)
         /\ \A i \in 1..Len(s) : (s \o t)[i] = s[i]
         /\ \A i \in 1..Len(t) : (s \o t)[Len(s) + i] = t[i]
  <1> DEFINE l == Len(s)
             m == Len(t)
             st == s \o t
  <1>1. /\ st \in Seq(Nat) /\ Len(st) = l + m
        /\ \A i \in 1..(l + m) : st[i] = IF i <= l THEN s[i] ELSE t[i - l]
    BY ConcatProperties, Zenon
  <1>2. l \in Nat /\ m \in Nat
    BY LenProperties
  <1> HIDE DEF l, m, st
  <1>3. ASSUME NEW i \in 1..l PROVE st[i] = s[i]
    BY <1>1, <1>2
  <1>4. ASSUME NEW i \in 1..m PROVE st[l + i] = t[i]
    <2>1. l + i \in 1..(l + m) /\ ~(l + i <= l) /\ (l + i) - l = i
      BY <1>2
    <2> QED BY <1>1, <2>1
  <1> QED BY <1>1, <1>3, <1>4 DEF l, m, st

LEMMA RowKeyIs ==
  ASSUME NEW i \in Nat, NEW k \in DBKey, NEW ct \in Nat
  PROVE  /\ RowKey(i, k, ct) \in Seq(Nat) /\ Len(RowKey(i, k, ct)) = Len(k.bytes) + 5
         /\ RowKey(i, k, ct)[1] = to_bytes(i)[1] /\ RowKey(i, k, ct)[2] = to_bytes(i)[2]
         /\ \A m \in 1..Len(k.bytes) : RowKey(i, k, ct)[m + 3] = k.bytes[m]
         /\ RowKey(i, k, ct)[Len(k.bytes) + 4] = k.variant
         /\ RowKey(i, k, ct)[Len(k.bytes) + 5] = ct
  <1> DEFINE a == to_bytes(i)
             b == k.bytes
             n == Len(b)
             c == <<k.variant, ct>>
             sep == <<KEY_SEPARATOR>>
             ab == a \o sep
             abc == ab \o b
             r == abc \o c
  <1>1. a \in Seq(Nat) /\ Len(a) = 2 /\ b \in Seq(Nat) /\ n \in Nat /\ k.variant \in Nat
    BY ToBytesType, KeyType
  <1>2. sep \in Seq(Nat) /\ Len(sep) = 1
    BY DEF KEY_SEPARATOR
  <1>3. c \in Seq(Nat) /\ Len(c) = 2 /\ c[1] = k.variant /\ c[2] = ct
    BY <1>1
  <1>4. RowKey(i, k, ct) = r
    BY DEF RowKey
  <1> HIDE DEF a, b, c
  <1>5. a \in Seq(Nat) /\ sep \in Seq(Nat) /\ b \in Seq(Nat) /\ c \in Seq(Nat)
    BY <1>1, <1>2, <1>3
  <1> HIDE DEF sep
  <1>6. ab \in Seq(Nat) /\ Len(ab) = 3 /\ \A j \in 1..2 : ab[j] = a[j]
    <2>1. /\ ab \in Seq(Nat) /\ Len(ab) = Len(a) + Len(sep)
          /\ \A j \in 1..Len(a) : ab[j] = a[j]
      BY <1>5, ConcatAt, Zenon
    <2> HIDE DEF ab
    <2> QED BY <1>1, <1>2, <2>1
  <1> HIDE DEF ab
  <1>7. /\ abc \in Seq(Nat) /\ Len(abc) = 3 + n
        /\ \A j \in 1..3 : abc[j] = ab[j]
        /\ \A j \in 1..n : abc[3 + j] = b[j]
    <2>1. ab \in Seq(Nat)
      BY <1>6
    <2>2. /\ abc \in Seq(Nat) /\ Len(abc) = Len(ab) + Len(b)
          /\ \A j \in 1..Len(ab) : abc[j] = ab[j]
          /\ \A j \in 1..Len(b) : abc[Len(ab) + j] = b[j]
      BY <1>5, <2>1, ConcatAt, Zenon
    <2> HIDE DEF abc
    <2> QED BY <1>1, <1>6, <2>2
  <1> HIDE DEF abc
  <1>8. /\ r \in Seq(Nat) /\ Len(r) = (3 + n) + 2
        /\ \A j \in 1..(3 + n) : r[j] = abc[j]
        /\ \A j \in 1..2 : r[(3 + n) + j] = c[j]
    <2>1. abc \in Seq(Nat)
      BY <1>7
    <2>2. /\ r \in Seq(Nat) /\ Len(r) = Len(abc) + Len(c)
          /\ \A j \in 1..Len(abc) : r[j] = abc[j]
          /\ \A j \in 1..Len(c) : r[Len(abc) + j] = c[j]
      BY <1>5, <2>1, ConcatAt, Zenon
    <2> HIDE DEF r, n
    <2> QED BY <1>1, <1>3, <1>7, <2>2
  <1> HIDE DEF r, n
  <1>9. r[1] = a[1] /\ r[2] = a[2]
    BY <1>1, <1>6, <1>7, <1>8
  <1>10. ASSUME NEW m \in 1..n PROVE r[m + 3] = b[m]
    <2>1. m + 3 = 3 + m /\ 3 + m \in 1..(3 + n)
      BY <1>1
    <2> QED BY <1>7, <1>8, <2>1
  <1>11. r[n + 4] = k.variant /\ r[n + 5] = ct
    <2>1. n + 4 = (3 + n) + 1 /\ n + 5 = (3 + n) + 2 /\ 1 \in 1..2 /\ 2 \in 1..2
      BY <1>1
    <2>2. r[(3 + n) + 1] = c[1] /\ r[(3 + n) + 2] = c[2]
      BY <1>8, <2>1, Zenon
    <2> QED BY <1>3, <2>1, <2>2
  <1>12. Len(r) = n + 5
    BY <1>1, <1>8
  <1> QED BY <1>4, <1>9, <1>10, <1>11, <1>12, <1>8 DEF a, b, n

LEMMA ReadKey ==
  ASSUME NEW i \in Nat, NEW k \in DBKey, NEW ct \in Nat, NEW v
  PROVE  /\ ChangeKey(i, [key |-> RowKey(i, k, ct), value |-> v]) = k
         /\ ChangeType([key |-> RowKey(i, k, ct), value |-> v]) = ct
  <1> DEFINE r == RowKey(i, k, ct)
             n == Len(k.bytes)
             s == SubSeq(r, 4, n + 3)
  <1>0. n \in Nat /\ k.bytes \in Seq(Nat)
    BY KeyType
  <1>1. /\ r \in Seq(Nat) /\ Len(r) = n + 5 /\ n \in Nat /\ k.bytes \in Seq(Nat)
        /\ \A m \in 1..n : r[m + 3] = k.bytes[m]
        /\ r[n + 4] = k.variant /\ r[n + 5] = ct
    <2>1. r \in Seq(Nat)
      BY RowKeyIs
    <2>2. Len(r) = n + 5
      BY RowKeyIs
    <2>3. \A m \in 1..n : r[m + 3] = k.bytes[m]
      BY RowKeyIs
    <2>4. r[n + 4] = k.variant
      BY RowKeyIs
    <2>5. r[n + 5] = ct
      BY RowKeyIs
    <2> QED BY <1>0, <2>1, <2>2, <2>3, <2>4, <2>5
  <1> HIDE DEF r
  <1>2. /\ s \in Seq(Nat) /\ Len(s) = n
        /\ \A m \in 1..n : s[m] = r[4 + m - 1]
    <2>1. ASSUME NEW m \in 4..(n + 3) PROVE r[m] \in Nat
      <3>1. m \in 1..Len(r)
        BY <1>1
      <3> QED BY <1>1, <3>1, ElementOfSeq
    <2>2. 4 \in Int /\ n + 3 \in Int /\ (n + 3) - 4 + 1 = n /\ (IF 4 <= n + 3 THEN n ELSE 0) = n
      BY <1>1
    <2> QED BY <1>1, <2>1, <2>2, SubSeqProperties
  <1>3. \A m \in 1..n : s[m] = k.bytes[m]
    BY <1>1, <1>2
  <1> HIDE DEF s
  <1>4. s = k.bytes
    BY <1>1, <1>2, <1>3, SeqEqual
  <1>5. Len(r) - 1 = n + 4 /\ Len(r) - 2 = n + 3
    BY <1>1
  <1>6. Len(to_bytes(i)) + 2 = 4
    <2>1. Len(to_bytes(i)) = 2
      BY ToBytesType
    <2> QED BY <2>1
  <1>7. ChangeKey(i, [key |-> r, value |-> v]) = [variant |-> k.variant, bytes |-> k.bytes]
    BY <1>1, <1>4, <1>5, <1>6 DEF ChangeKey, s
  <1>8. ChangeType([key |-> r, value |-> v]) = ct
    BY <1>1 DEF ChangeType
  <1> QED BY <1>7, <1>8, KeyType DEF r

LEMMA ReadPrefix ==
  ASSUME NEW i \in Nat, NEW j \in Nat, NEW k \in DBKey, NEW ct \in Nat
  PROVE  StartsWith(RowKey(j, k, ct), to_bytes(i)) <=> i = j
  <1> DEFINE r == RowKey(j, k, ct)
             s == SubSeq(r, 1, 2)
  <1>0. Len(k.bytes) \in Nat
    BY KeyType
  <1>1. /\ r \in Seq(Nat) /\ Len(r) = Len(k.bytes) + 5 /\ Len(k.bytes) \in Nat
        /\ r[1] = to_bytes(j)[1] /\ r[2] = to_bytes(j)[2]
    <2>1. r \in Seq(Nat)
      BY RowKeyIs
    <2>2. Len(r) = Len(k.bytes) + 5
      BY RowKeyIs
    <2>3. r[1] = to_bytes(j)[1] /\ r[2] = to_bytes(j)[2]
      BY RowKeyIs
    <2> QED BY <1>0, <2>1, <2>2, <2>3
  <1>2. to_bytes(i) \in Seq(Nat) /\ Len(to_bytes(i)) = 2
    BY ToBytesType
  <1> HIDE DEF r
  <1>3. /\ s \in Seq(Nat) /\ Len(s) = 2 /\ s[1] = r[1] /\ s[2] = r[2]
    <2>1. \A m \in 1..2 : r[m] \in Nat
      BY <1>1
    <2>2. /\ s \in Seq(Nat) /\ Len(s) = 2
          /\ \A m \in 1..2 : s[m] = r[1 + m - 1]
      BY <2>1, SubSeqProperties
    <2> HIDE DEF s
    <2> QED BY <2>2
  <1>4. StartsWith(r, to_bytes(i)) <=> s = to_bytes(i)
    BY <1>1, <1>2 DEF StartsWith
  <1> HIDE DEF s
  <1>5. CASE i = j
    <2>1. \A m \in 1..2 : s[m] = to_bytes(i)[m]
      BY <1>1, <1>3, <1>5
    <2>2. s = to_bytes(i)
      BY <1>2, <1>3, <2>1, SeqEqual
    <2> QED BY <1>4, <1>5, <2>2 DEF r
  <1>6. CASE i # j
    <2>1. s # to_bytes(i)
      BY <1>1, <1>3, <1>6, ToBytesInjective
    <2> QED BY <1>4, <1>6, <2>1 DEF r
  <1> QED BY <1>5, <1>6


(***************************************************************************)
(* The rows of a log                                                       *)
(***************************************************************************)
LEMMA InId == Id \subseteq Nat /\ Id \subseteq Int
  BY MaxIdAssumption DEF Id

\* The rows with the prefix of an id are those of its log.
LEMMA RowOfLog ==
  ASSUME TypeOK, NEW l \in Id, NEW row \in get_by_prefix(to_bytes(l))
  PROVE  /\ ChangeKey(l, row) \in DBKey /\ row.value \in DBValue
         /\ \/ /\ ChangeType(row) = OLD_VALUE
               /\ row.value = trie_log[l][ChangeKey(l, row)].old_value
            \/ /\ ChangeType(row) = NEW_VALUE
               /\ row.value = trie_log[l][ChangeKey(l, row)].new_value
  <1>1. PICK id \in Id, k \in DBKey : row \in RowsOf(id, k, trie_log[id][k])
    BY DEF get_by_prefix, TrieLogColumn
  <1>2. trie_log[id][k] \in Change
    BY DEF TypeOK
  <1>3. PICK ct \in {OLD_VALUE, NEW_VALUE} :
          /\ row = [key |-> RowKey(id, k, ct), value |-> row.value]
          /\ row.value # None
          /\ row.value = IF ct = OLD_VALUE THEN trie_log[id][k].old_value
                                           ELSE trie_log[id][k].new_value
    BY <1>1 DEF RowsOf, OLD_VALUE, NEW_VALUE
  <1>4. ct \in Nat /\ id \in Nat /\ l \in Nat
    BY InId DEF OLD_VALUE, NEW_VALUE
  <1>5. StartsWith(RowKey(id, k, ct), to_bytes(l))
    BY <1>3 DEF get_by_prefix
  <1>6. id = l
    BY <1>4, <1>5, ReadPrefix
  <1>7. ChangeKey(l, row) = k /\ ChangeType(row) = ct
    BY <1>3, <1>4, <1>6, ReadKey
  <1>8. row.value \in DBValue
    BY <1>2, <1>3 DEF Change
  <1> QED BY <1>3, <1>6, <1>7, <1>8

LEMMA LogHasRow ==
  ASSUME TypeOK, NEW l \in Id, NEW k \in DBKey, NEW ct \in {OLD_VALUE, NEW_VALUE}, NEW v,
         v = IF ct = OLD_VALUE THEN trie_log[l][k].old_value ELSE trie_log[l][k].new_value,
         v # None
  PROVE  \E row \in get_by_prefix(to_bytes(l)) : ChangeKey(l, row) = k /\ ChangeType(row) = ct
  <1> DEFINE row == [key |-> RowKey(l, k, ct), value |-> v]
  <1>1. ct \in Nat /\ l \in Nat
    BY InId DEF OLD_VALUE, NEW_VALUE
  <1>2. row \in RowsOf(l, k, trie_log[l][k])
    BY DEF RowsOf, OLD_VALUE, NEW_VALUE
  <1>3. row \in TrieLogColumn
    BY <1>2 DEF TrieLogColumn
  <1>4. StartsWith(row.key, to_bytes(l))
    BY <1>1, ReadPrefix
  <1>5. row \in get_by_prefix(to_bytes(l))
    BY <1>3, <1>4 DEF get_by_prefix
  <1>6. ChangeKey(l, row) = k /\ ChangeType(row) = ct
    BY <1>1, ReadKey
  <1> HIDE DEF row
  <1> QED BY <1>5, <1>6

(***************************************************************************)
(* Transaction, without recursion                                          *)
(***************************************************************************)
\* What undoing the logs from a snapshot's id up to i - 1 makes of a key, without
\* recursion: the newest of these logs that has the key gives its old value.
Passed(s, i, j) == s <= j /\ j < i

ReadsAs(s, i, k, v) ==
    \/ /\ \A j \in Id : Passed(s, i, j) => trie_log[j][k] = NoChange
       /\ v = snapshots[s][k]
    \/ \E j \in Id :
         /\ Passed(s, i, j) /\ trie_log[j][k] # NoChange
         /\ v = trie_log[j][k].old_value
         /\ \A m \in Id : j < m /\ m < i => trie_log[m][k] = NoChange

LEMMA OldestIs ==
  ASSUME TypeOK, NEW id \in Id, HasTransaction(id)
  PROVE  /\ OldestSnapshot(id) \in Id /\ OldestSnapshot(id) < id
         /\ snapshots[OldestSnapshot(id)] \in State
  <1>1. PICK i \in Saved(snapshots) : i < id
    BY DEF HasTransaction
  <1>2. Saved(snapshots) \in SUBSET Nat /\ Saved(snapshots) # {} /\ Saved(snapshots) \subseteq Id
    BY <1>1, InId DEF Saved
  <1>3. \E m \in Saved(snapshots) : \A n \in Saved(snapshots) : m <= n
    BY <1>2, NatMin
  <1>4. /\ OldestSnapshot(id) \in Saved(snapshots)
        /\ \A n \in Saved(snapshots) : OldestSnapshot(id) <= n
    BY <1>3 DEF OldestSnapshot
  <1>5. OldestSnapshot(id) <= i /\ i \in Int /\ id \in Int /\ OldestSnapshot(id) \in Int
    BY <1>2, <1>4, InId
  <1>6. OldestSnapshot(id) < id
    BY <1>1, <1>5
  <1>7. snapshots[OldestSnapshot(id)] \in State
    BY <1>4 DEF Saved, TypeOK
  <1> QED BY <1>2, <1>4, <1>6, <1>7

LEMMA ReadsAsUnique ==
  ASSUME NEW s \in Id, NEW i \in Id, NEW k, NEW v, NEW w,
         ReadsAs(s, i, k, v), ReadsAs(s, i, k, w)
  PROVE  v = w
  BY InId DEF ReadsAs, Passed

LEMMA ReadsAsBase ==
  ASSUME NEW s \in Id, NEW k, NEW v
  PROVE  ReadsAs(s, s, k, v) <=> v = snapshots[s][k]
  <1>1. \A j \in Id : ~Passed(s, s, j)
    BY InId DEF Passed
  <1> QED BY <1>1 DEF ReadsAs

\* One log further.
LEMMA ReadsAsStep ==
  ASSUME TypeOK, NEW s \in Id, NEW i \in Id, s <= i, NEW k \in DBKey, NEW v, i + 1 \in Id,
         ReadsAs(s, i, k, v)
  PROVE  ReadsAs(s, i + 1, k, UndoKey(trie_log[i][k], v))
  <1>1. i \in Int /\ s \in Int /\ \A j \in Id : j \in Int
    BY InId
  <1>2. trie_log[i][k] \in Change
    BY DEF TypeOK
  <1>3. Passed(s, i + 1, i) /\ \A j \in Id : Passed(s, i + 1, j) <=> Passed(s, i, j) \/ j = i
    BY <1>1 DEF Passed
  <1>4. CASE trie_log[i][k] = NoChange
    <2>1. UndoKey(trie_log[i][k], v) = v
      BY <1>4 DEF UndoKey, NoChange
    <2>2. \A j \in Id, m \in Id : j < m /\ m < i + 1 <=> (j < m /\ m < i) \/ (j < m /\ m = i)
      BY <1>1
    <2> QED BY <1>3, <1>4, <2>1, <2>2 DEF ReadsAs
  <1>5. CASE trie_log[i][k] # NoChange
    <2>1. UndoKey(trie_log[i][k], v) = trie_log[i][k].old_value
      BY <1>2, <1>5 DEF UndoKey, NoChange, Change
    <2>2. \A m \in Id : ~(i < m /\ m < i + 1)
      BY <1>1
    <2> QED BY <1>3, <1>5, <2>1, <2>2 DEF ReadsAs
  <1> QED BY <1>4, <1>5

\* Every state of the recursion exists, one log after the other.
LEMMA ReadsAsExists ==
  ASSUME TypeOK, NEW s \in Id, NEW i \in Id, s <= i, NEW k \in DBKey
  PROVE  \E v : ReadsAs(s, i, k, v)
  <1> DEFINE S == {n \in Nat : s + n \in Id /\ ~\E v : ReadsAs(s, s + n, k, v)}
  <1>0. s \in Nat /\ i \in Nat
    BY InId
  <1>1. S = {}
    <2> SUFFICES ASSUME S # {} PROVE FALSE
      OBVIOUS
    <2>1. PICK m \in S : \A n \in S : m <= n
      BY NatMin
    <2>2. m \in Nat /\ s + m \in Id /\ ~\E v : ReadsAs(s, s + m, k, v)
      BY <2>1
    <2>3. CASE m = 0
      <3>1. s + m = s
        BY <1>0, <2>3
      <3>2. ReadsAs(s, s, k, snapshots[s][k])
        BY ReadsAsBase
      <3> QED BY <2>2, <3>1, <3>2
    <2>4. CASE m # 0
      <3>1. /\ m - 1 \in Nat /\ ~(m <= m - 1) /\ s + (m - 1) \in Id
            /\ (s + (m - 1)) + 1 = s + m /\ s <= s + (m - 1)
        BY <1>0, <2>2, <2>4, MaxIdAssumption DEF Id
      <3>2. m - 1 \notin S
        BY <2>1, <3>1
      <3>3. PICK v : ReadsAs(s, s + (m - 1), k, v)
        BY <3>1, <3>2
      <3>4. ReadsAs(s, (s + (m - 1)) + 1, k, UndoKey(trie_log[s + (m - 1)][k], v))
        BY <2>2, <3>1, <3>3, ReadsAsStep
      <3> QED BY <2>2, <3>1, <3>4
    <2> QED BY <2>3, <2>4
  <1>2. i - s \in Nat /\ s + (i - s) = i
    BY <1>0
  <1> QED BY <1>1, <1>2

\* Transaction, the recursive function, computes what ReadsAs says.
LEMMA TransactionComputes ==
  ASSUME TypeOK, NEW id \in Id, HasTransaction(id)
  PROVE  /\ \A k \in DBKey : ReadsAs(OldestSnapshot(id), id, k, Transaction(id)[k])
         /\ Transaction(id) = [k \in DBKey |-> Transaction(id)[k]]
  <1> DEFINE s == OldestSnapshot(id)
             Body(f) == [i \in s..id |-> IF i = s THEN snapshots[s]
                                         ELSE Undo(trie_log[i - 1], f[i - 1])]
             G == [i \in s..id |-> [k \in DBKey |-> CHOOSE v : ReadsAs(s, i, k, v)]]
             F == CHOOSE f : f = Body(f)
  <1>1. Transaction(id) = F[id]
    BY DEF Transaction
  <1>2. s \in Id /\ s < id /\ snapshots[s] \in State
    BY OldestIs
  <1> HIDE DEF s
  <1>3. s \in Int /\ id \in Int /\ \A i \in s..id : i \in Id /\ i \in Int /\ s <= i
    BY <1>2, MaxIdAssumption DEF Id
  <1>4. ASSUME NEW i \in s..id, NEW k \in DBKey PROVE ReadsAs(s, i, k, G[i][k])
    <2>1. \E v : ReadsAs(s, i, k, v)
      BY <1>2, <1>3, ReadsAsExists
    <2>2. ReadsAs(s, i, k, CHOOSE v : ReadsAs(s, i, k, v))
      BY <2>1
    <2> QED BY <2>2
  <1>5. G[s] = snapshots[s]
    <2>1. s \in s..id
      BY <1>2, <1>3
    <2>2. \A k \in DBKey : G[s][k] = snapshots[s][k]
      BY <1>2, <1>4, <2>1, ReadsAsBase
    <2> QED BY <1>2, <2>1, <2>2 DEF State
  <1>6. ASSUME NEW i \in s..id, i # s
        PROVE  i - 1 \in s..id /\ i - 1 \in Id /\ s <= i - 1 /\ (i - 1) + 1 = i
    BY <1>2, <1>3, <1>6, MaxIdAssumption DEF Id
  <1>7. ASSUME NEW i \in s..id, i # s PROVE G[i] = Undo(trie_log[i - 1], G[i - 1])
    <2>1. ASSUME NEW k \in DBKey PROVE G[i][k] = UndoKey(trie_log[i - 1][k], G[i - 1][k])
      <3>1. ReadsAs(s, i - 1, k, G[i - 1][k])
        BY <1>4, <1>6, <1>7
      <3>2. ReadsAs(s, i, k, G[i][k])
        BY <1>4
      <3> HIDE DEF G
      <3>3. ReadsAs(s, i, k, UndoKey(trie_log[i - 1][k], G[i - 1][k]))
        BY <1>2, <1>3, <1>6, <1>7, <3>1, ReadsAsStep
      <3> QED BY <1>2, <1>3, <3>2, <3>3, ReadsAsUnique
    <2>2. G[i] = [k \in DBKey |-> G[i][k]]
      OBVIOUS
    <2> HIDE DEF G
    <2> QED BY <2>1, <2>2 DEF Undo
  <1>8. G = Body(G)
    <2>1. G = [i \in s..id |-> G[i]]
      OBVIOUS
    <2> HIDE DEF G
    <2> QED BY <1>5, <1>7, <2>1
  <1>9. F = Body(F)
    <2> HIDE DEF G
    <2> QED BY <1>8
  <1> HIDE DEF F
  <1>10. \A i \in s..id : F[i] = IF i = s THEN snapshots[s] ELSE Undo(trie_log[i - 1], F[i - 1])
    BY <1>9
  <1> DEFINE Good(i) == \A k \in DBKey : ReadsAs(s, i, k, F[i][k])
             S == {n \in Nat : s + n \in s..id /\ ~Good(s + n)}
  <1>11. S = {}
    <2> SUFFICES ASSUME S # {} PROVE FALSE
      OBVIOUS
    <2>1. PICK m \in S : \A n \in S : m <= n
      BY NatMin
    <2>2. PICK i : i = s + m
      OBVIOUS
    <2>3. m \in Nat /\ i \in s..id /\ ~Good(i)
      BY <2>1, <2>2
    <2>4. CASE i = s
      <3>1. F[i] = snapshots[s]
        BY <1>10, <2>3, <2>4
      <3> QED BY <1>2, <2>3, <2>4, <3>1, ReadsAsBase
    <2>5. CASE i # s
      <3>1. m - 1 \in Nat /\ ~(m <= m - 1) /\ s + (m - 1) = i - 1
        BY <1>3, <2>2, <2>3, <2>5
      <3>2. i - 1 \in s..id /\ i - 1 \in Id /\ s <= i - 1 /\ (i - 1) + 1 = i
        BY <1>6, <2>3, <2>5
      <3>3. m - 1 \notin S
        BY <2>1, <3>1
      <3>4. Good(i - 1)
        BY <3>1, <3>2, <3>3
      <3>5. ASSUME NEW k \in DBKey PROVE ReadsAs(s, i, k, F[i][k])
        <4>1. F[i][k] = UndoKey(trie_log[i - 1][k], F[i - 1][k])
          BY <1>10, <2>3, <2>5 DEF Undo
        <4>2. ReadsAs(s, i - 1, k, F[i - 1][k])
          BY <3>4
        <4>3. i \in Id
          BY <1>3, <2>3
        <4> HIDE DEF Good, S
        <4> QED BY <1>2, <3>2, <4>1, <4>2, <4>3, ReadsAsStep
      <3> QED BY <2>3, <3>5
    <2> QED BY <2>4, <2>5
  <1>12. id - s \in Nat /\ s + (id - s) = id /\ id \in s..id
    BY <1>2, <1>3
  <1>13. Good(id)
    BY <1>11, <1>12
  <1>14. F[id] = [k \in DBKey |-> F[id][k]]
    BY <1>2, <1>10, <1>12 DEF Undo, State
  <1> QED BY <1>1, <1>13, <1>14 DEF s


(***************************************************************************)
(* Reading one log                                                         *)
(***************************************************************************)
Seen(k) == k = last_key \/ k \in DOMAIN change_batch

\* The change put together and the entries so far are those of the log's rows
\* that have been gone through: nothing is made up, and an old value is either
\* still to come or in one of the two.
Sound(l) ==
    /\ rows \subseteq get_by_prefix(to_bytes(l))
    /\ change_batch \in [DOMAIN change_batch -> Change \ {NoChange}]
    /\ DOMAIN change_batch \subseteq DBKey
    /\ \/ last_key = None /\ current_change = NoChange
       \/ last_key \in DBKey /\ current_change \in Change \ {NoChange}
    /\ \A k \in DBKey :
         /\ Seen(k) => trie_log[l][k] # NoChange
         /\ k = last_key => current_change.old_value \in {None, trie_log[l][k].old_value}
         /\ k \in DOMAIN change_batch =>
               change_batch[k].old_value \in {None, trie_log[l][k].old_value}

OldKept(l, k) ==
    \/ \E row \in rows : ChangeKey(l, row) = k /\ ChangeType(row) = OLD_VALUE
    \/ k = last_key /\ current_change.old_value = trie_log[l][k].old_value
    \/ k \in DOMAIN change_batch /\ change_batch[k].old_value = trie_log[l][k].old_value

NewKept(l, k) == Seen(k) \/ \E row \in rows : ChangeKey(l, row) = k

Complement(l) ==
    \A k \in DBKey :
        /\ trie_log[l][k].old_value # None => OldKept(l, k)
        /\ trie_log[l][k].new_value # None => NewKept(l, k)

NothingRead == rows = {} /\ current_change = NoChange /\ last_key = None /\ change_batch = NoEntries

Progress(l) ==
    /\ OldestSnapshot(asked) <= l /\ l <= asked
    /\ reading = l..(asked - 1)
    /\ txn \in State /\ \A k \in DBKey : ReadsAs(OldestSnapshot(asked), l, k, txn[k])
    /\ IF l = asked THEN NothingRead ELSE Sound(l) /\ Complement(l)

ReadInv ==
    /\ TypeOK
    /\ \/ asked = None /\ reading = {} /\ NothingRead
       \/ asked \in Id /\ HasTransaction(asked) /\ \E l \in Id : Progress(l)

LEMMA LowestOf ==
  ASSUME NEW l \in Int, NEW h \in Int, l <= h
  PROVE  Lowest(l..h) = l /\ (l..h) \ {l} = (l + 1)..h
  <1>1. l \in l..h /\ \A j \in l..h : l <= j
    OBVIOUS
  <1>2. Lowest(l..h) \in l..h /\ \A j \in l..h : Lowest(l..h) <= j
    BY <1>1 DEF Lowest
  <1>3. Lowest(l..h) \in Int /\ Lowest(l..h) <= l /\ l <= Lowest(l..h)
    BY <1>1, <1>2
  <1>4. Lowest(l..h) = l
    BY <1>3
  <1> QED BY <1>4

\* Entering a change into the entries keeps an old value that is already there.
LEMMA CompleteIs ==
  ASSUME NEW b, b \in [DOMAIN b -> Change \ {NoChange}],
         NEW key, NEW change \in Change \ {NoChange}
  PROVE  /\ Complete(b, key, change) \in [DOMAIN b \cup {key} -> Change \ {NoChange}]
         /\ \A k \in DOMAIN b \ {key} : Complete(b, key, change)[k] = b[k]
  <1> DEFINE D == DOMAIN b
  <1>1. DOMAIN b = D /\ b \in [D -> Change \ {NoChange}]
    OBVIOUS
  <1> HIDE DEF D
  <1>2. ASSUME key \in D PROVE InsertInPlace(b[key], change) \in Change \ {NoChange}
    <2>1. b[key] \in Change
      BY <1>1, <1>2
    <2>2. change.old_value # None \/ change.new_value # None
      BY DEF Change, NoChange
    <2> QED BY <2>1, <2>2 DEF InsertInPlace, Change, NoChange
  <1>3. ASSUME NEW k \in D \cup {key}
        PROVE  Complete(b, key, change)[k] =
                 IF k # key THEN b[k]
                 ELSE IF k \in D THEN InsertInPlace(b[k], change) ELSE change
    BY <1>1 DEF Complete
  <1>4. Complete(b, key, change) = [k \in D \cup {key} |-> Complete(b, key, change)[k]]
    BY <1>1 DEF Complete
  <1>5. \A k \in D \cup {key} : Complete(b, key, change)[k] \in Change \ {NoChange}
    BY <1>1, <1>2, <1>3
  <1>6. Complete(b, key, change) \in [D \cup {key} -> Change \ {NoChange}]
    BY <1>4, <1>5
  <1> QED BY <1>3, <1>6 DEF D

LEMMA CompleteOld ==
  ASSUME NEW b, NEW key, NEW change
  PROVE  Complete(b, key, change)[key].old_value =
           IF key \in DOMAIN b /\ b[key].old_value # None THEN b[key].old_value
                                                         ELSE change.old_value
  <1>1. Complete(b, key, change)[key] =
           IF key \in DOMAIN b THEN InsertInPlace(b[key], change) ELSE change
    BY DEF Complete
  <1>2. InsertInPlace(b[key], change).old_value =
           IF b[key].old_value # None THEN b[key].old_value ELSE change.old_value
    BY DEF InsertInPlace
  <1> QED BY <1>1, <1>2

\* The first rows of a log.
LEMMA LogStarts ==
  ASSUME TypeOK, NEW l \in Id, rows' = get_by_prefix(to_bytes(l)),
         current_change' = NoChange, last_key' = None, change_batch' = NoEntries,
         UNCHANGED trie_log
  PROVE  Sound(l)' /\ Complement(l)'
  <1>1. rows' \subseteq get_by_prefix(to_bytes(l))'
    BY DEF get_by_prefix, TrieLogColumn
  <1>2. DOMAIN change_batch' = {}
    BY DEF NoEntries
  <1>3. None \notin DBKey
    BY DBKeyAssumption
  <1>4. Sound(l)'
    BY <1>1, <1>2, <1>3 DEF Sound, Seen, NoEntries
  <1>5. ASSUME NEW k \in DBKey, trie_log[l][k].old_value # None
        PROVE  \E row \in rows' : ChangeKey(l, row) = k /\ ChangeType(row) = OLD_VALUE
    BY <1>5, LogHasRow
  <1>6. ASSUME NEW k \in DBKey, trie_log[l][k].new_value # None
        PROVE  \E row \in rows' : ChangeKey(l, row) = k
    BY <1>6, LogHasRow DEF OLD_VALUE, NEW_VALUE
  <1> QED BY <1>4, <1>5, <1>6 DEF Complement, OldKept, NewKept


\* Going through a row, whichever comes next.
LEMMA RowRead ==
  ASSUME TypeOK, NEW l \in Id, Lowest(reading) = l, Sound(l), Complement(l),
         NEW row \in rows, ReadRow(row)
  PROVE  Sound(l)' /\ Complement(l)'
  <1> DEFINE key == ChangeKey(l, row)
             ended == last_key # None /\ last_key # key
             so_far == IF ended THEN NoChange ELSE current_change
             D == DOMAIN change_batch
             old(k) == trie_log[l][k].old_value
  <1>1. /\ rows' = rows \ {row}
        /\ change_batch' = IF ended THEN Complete(change_batch, last_key, current_change)
                                    ELSE change_batch
        /\ current_change' = IF ChangeType(row) = NEW_VALUE
                             THEN [so_far EXCEPT !.new_value = row.value]
                             ELSE [so_far EXCEPT !.old_value = row.value]
        /\ last_key' = key
        /\ UNCHANGED trie_log
    BY DEF ReadRow, vars
  <1>2. /\ key \in DBKey /\ row.value \in DBValue
        /\ \/ ChangeType(row) = OLD_VALUE /\ row.value = old(key)
           \/ ChangeType(row) = NEW_VALUE /\ row.value = trie_log[l][key].new_value
    BY RowOfLog DEF Sound
  <1>3. \A k \in DBKey : trie_log[l][k] \in Change
    BY DEF TypeOK
  <1>4. /\ change_batch \in [D -> Change \ {NoChange}] /\ D \in SUBSET DBKey
        /\ \/ last_key = None /\ current_change = NoChange
           \/ last_key \in DBKey /\ current_change \in Change \ {NoChange}
        /\ \A k \in DBKey :
             /\ Seen(k) => trie_log[l][k] # NoChange
             /\ k = last_key => current_change.old_value \in {None, old(k)}
             /\ k \in D => change_batch[k].old_value \in {None, old(k)}
    BY DEF Sound
  <1>5. row.value # None /\ None \notin DBKey /\ OLD_VALUE # NEW_VALUE
    BY <1>2, NoneAssumption, DBKeyAssumption DEF OLD_VALUE, NEW_VALUE
  <1>6. trie_log[l][key] # NoChange
    BY <1>2, <1>5 DEF NoChange
  <1>7. so_far \in Change /\ so_far.old_value \in {None, old(key)}
    <2>1. NoChange \in Change /\ NoChange.old_value = None
      BY NoChangeIsChange DEF NoChange
    <2>2. CASE ended
      BY <2>1, <2>2
    <2>3. CASE last_key = None
      BY <1>4, <1>5, <2>1, <2>3
    <2>4. CASE last_key = key
      BY <1>2, <1>4, <1>5, <2>4
    <2> QED BY <2>2, <2>3, <2>4
  <1> HIDE DEF key
  <1>8. /\ current_change' \in Change \ {NoChange}
        /\ current_change'.old_value \in {None, old(key)}
        /\ ChangeType(row) = OLD_VALUE => current_change'.old_value = old(key)
        /\ ChangeType(row) # OLD_VALUE => current_change'.old_value = so_far.old_value
    <2> HIDE DEF so_far, old
    <2>1. CASE ChangeType(row) = OLD_VALUE
      <3>1. current_change' = [so_far EXCEPT !.old_value = row.value] /\ row.value = old(key)
        BY <1>1, <1>2, <1>5, <2>1
      <3> QED BY <1>2, <1>5, <1>7, <2>1, <3>1 DEF Change, NoChange
    <2>2. CASE ChangeType(row) = NEW_VALUE
      <3>1. current_change' = [so_far EXCEPT !.new_value = row.value]
        BY <1>1, <2>2
      <3> QED BY <1>2, <1>5, <1>7, <2>2, <3>1 DEF Change, NoChange
    <2> QED BY <1>2, <2>1, <2>2
  <1>9. /\ DOMAIN change_batch' = D \cup (IF ended THEN {last_key} ELSE {})
        /\ change_batch' \in [DOMAIN change_batch' -> Change \ {NoChange}]
        /\ \A k \in D : ~(ended /\ k = last_key) => change_batch'[k] = change_batch[k]
        /\ ended => change_batch'[last_key].old_value =
                      IF last_key \in D /\ change_batch[last_key].old_value # None
                      THEN change_batch[last_key].old_value ELSE current_change.old_value
    <2>1. CASE ended
      <3>1. last_key \in DBKey /\ current_change \in Change \ {NoChange}
        BY <1>4, <2>1
      <3>2. change_batch' = Complete(change_batch, last_key, current_change)
        BY <1>1, <2>1
      <3>3. /\ change_batch' \in [D \cup {last_key} -> Change \ {NoChange}]
            /\ \A k \in D \ {last_key} : change_batch'[k] = change_batch[k]
            /\ change_batch'[last_key].old_value =
                      IF last_key \in D /\ change_batch[last_key].old_value # None
                      THEN change_batch[last_key].old_value ELSE current_change.old_value
        <4>1. change_batch \in [DOMAIN change_batch -> Change \ {NoChange}]
          BY <1>4
        <4>2. Complete(change_batch, last_key, current_change) \in [D \cup {last_key} -> Change \ {NoChange}]
          BY <3>1, <4>1, CompleteIs
        <4>3. \A k \in D \ {last_key} :
                Complete(change_batch, last_key, current_change)[k] = change_batch[k]
          BY <3>1, <4>1, CompleteIs
        <4>4. Complete(change_batch, last_key, current_change)[last_key].old_value =
                IF last_key \in D /\ change_batch[last_key].old_value # None
                THEN change_batch[last_key].old_value ELSE current_change.old_value
          BY CompleteOld
        <4> QED BY <3>2, <4>2, <4>3, <4>4
      <3> QED BY <2>1, <3>3
    <2>2. CASE ~ended
      <3>1. change_batch' = change_batch
        BY <1>1, <2>2
      <3> QED BY <1>4, <2>2, <3>1
    <2> QED BY <2>1, <2>2
  <1>10. ended => last_key \in DBKey
    BY <1>4
  <1>11. ASSUME NEW k \in DBKey
         PROVE  k \in DOMAIN change_batch' =>
                  /\ trie_log[l][k] # NoChange
                  /\ change_batch'[k].old_value \in {None, old(k)}
    BY <1>4, <1>9 DEF Seen
  <1>12. Sound(l)'
    <2>1. rows' \subseteq get_by_prefix(to_bytes(l))'
      BY <1>1 DEF Sound, get_by_prefix, TrieLogColumn
    <2>2. DOMAIN change_batch' \subseteq DBKey
      BY <1>4, <1>9, <1>10
    <2> QED BY <1>1, <1>2, <1>6, <1>8, <1>9, <1>11, <2>1, <2>2 DEF Sound, Seen
  <1>13. ASSUME NEW k \in DBKey, old(k) # None PROVE OldKept(l, k)'
    <2>1. CASE \E r \in rows : ChangeKey(l, r) = k /\ ChangeType(r) = OLD_VALUE
      <3>1. PICK r \in rows : ChangeKey(l, r) = k /\ ChangeType(r) = OLD_VALUE
        BY <2>1
      <3>2. CASE r = row
        <4>1. k = key /\ current_change'.old_value = old(k)
          BY <1>8, <3>1, <3>2 DEF key
        <4> QED BY <1>1, <4>1 DEF OldKept
      <3>3. CASE r # row
        <4>1. r \in rows'
          BY <1>1, <3>3
        <4> QED BY <3>1, <4>1 DEF OldKept
      <3> QED BY <3>2, <3>3
    <2>2. CASE k = last_key /\ current_change.old_value = old(k)
      <3>1. CASE ended
        <4>1. k \in DOMAIN change_batch' /\ change_batch'[k].old_value = old(k)
          BY <1>4, <1>9, <2>2, <3>1
        <4> QED BY <1>1, <4>1 DEF OldKept
      <3>2. CASE ~ended
        <4>1. k = key /\ so_far = current_change
          BY <1>5, <2>2, <3>2
        <4>2. current_change'.old_value = old(k)
          BY <1>8, <2>2, <4>1
        <4> QED BY <1>1, <4>1, <4>2 DEF OldKept
      <3> QED BY <3>1, <3>2
    <2>3. CASE k \in D /\ change_batch[k].old_value = old(k)
      <3>1. k \in DOMAIN change_batch' /\ change_batch'[k].old_value = old(k)
        BY <1>9, <1>13, <2>3
      <3> QED BY <1>1, <3>1 DEF OldKept
    <2>4. OldKept(l, k)
      BY <1>13 DEF Complement
    <2> QED BY <2>1, <2>2, <2>3, <2>4 DEF OldKept
  <1>14. ASSUME NEW k \in DBKey, trie_log[l][k].new_value # None PROVE NewKept(l, k)'
    <2>1. NewKept(l, k)
      BY <1>14 DEF Complement
    <2>2. CASE Seen(k)
      <3>1. k = key \/ k \in DOMAIN change_batch'
        BY <1>5, <1>9, <2>2 DEF Seen
      <3> QED BY <1>1, <3>1 DEF NewKept, Seen
    <2>3. CASE \E r \in rows : ChangeKey(l, r) = k
      <3>1. PICK r \in rows : ChangeKey(l, r) = k
        BY <2>3
      <3>2. k = key \/ r \in rows'
        BY <1>1, <3>1 DEF key
      <3> QED BY <1>1, <3>1, <3>2 DEF NewKept, Seen
    <2> QED BY <2>1, <2>2, <2>3 DEF NewKept
  <1> QED BY <1>1, <1>12, <1>13, <1>14 DEF Complement

\* What deserialize returns once all rows are gone through: an entry with the
\* old value for each key of the log, none for the others.
LEMMA LogRead ==
  ASSUME TypeOK, NEW l \in Id, Sound(l), Complement(l), rows = {}
  PROVE  /\ DOMAIN Deserialized \subseteq DBKey
         /\ \A k \in DOMAIN Deserialized : Deserialized[k] # NoChange
         /\ \A k \in DBKey :
              /\ k \in DOMAIN Deserialized <=> trie_log[l][k] # NoChange
              /\ k \in DOMAIN Deserialized => Deserialized[k].old_value = trie_log[l][k].old_value
  <1> DEFINE D == DOMAIN change_batch
             old(k) == trie_log[l][k].old_value
  <1>1. \A k \in DBKey : trie_log[l][k] \in Change
    BY DEF TypeOK
  <1>2. /\ change_batch \in [D -> Change \ {NoChange}] /\ D \in SUBSET DBKey
        /\ \/ last_key = None /\ current_change = NoChange
           \/ last_key \in DBKey /\ current_change \in Change \ {NoChange}
        /\ \A k \in DBKey :
             /\ Seen(k) => trie_log[l][k] # NoChange
             /\ k = last_key => current_change.old_value \in {None, old(k)}
             /\ k \in D => change_batch[k].old_value \in {None, old(k)}
    BY DEF Sound
  <1>3. None \notin DBKey
    BY DBKeyAssumption
  <1>4. \A k \in DBKey :
           /\ old(k) # None => \/ k = last_key /\ current_change.old_value = old(k)
                               \/ k \in D /\ change_batch[k].old_value = old(k)
           /\ trie_log[l][k].new_value # None => Seen(k)
    BY DEF Complement, OldKept, NewKept
  <1>5. \A k \in DBKey : trie_log[l][k] # NoChange => Seen(k)
    BY <1>1, <1>4 DEF Change, NoChange, Seen
  <1>6. CASE last_key = None /\ current_change = NoChange
    <2>1. Deserialized = change_batch
      BY <1>6 DEF Deserialized
    <2>2. \A k \in DBKey : Seen(k) <=> k \in D
      BY <1>3, <1>6 DEF Seen
    <2>3. ASSUME NEW k \in D PROVE change_batch[k].old_value = old(k)
      BY <1>2, <1>3, <1>4, <1>6, <2>3
    <2> QED BY <1>2, <1>5, <2>1, <2>2, <2>3
  <1>7. CASE last_key \in DBKey /\ current_change \in Change \ {NoChange}
    <2>1. Deserialized = Complete(change_batch, last_key, current_change)
      BY <1>7 DEF Deserialized
    <2>2. /\ Deserialized \in [D \cup {last_key} -> Change \ {NoChange}]
          /\ \A k \in D \ {last_key} : Deserialized[k] = change_batch[k]
          /\ Deserialized[last_key].old_value =
               IF last_key \in D /\ change_batch[last_key].old_value # None
               THEN change_batch[last_key].old_value ELSE current_change.old_value
      <3>1. change_batch \in [DOMAIN change_batch -> Change \ {NoChange}]
        BY <1>2
      <3>2. Complete(change_batch, last_key, current_change) \in [D \cup {last_key} -> Change \ {NoChange}]
        BY <1>7, <3>1, CompleteIs
      <3>3. \A k \in D \ {last_key} :
              Complete(change_batch, last_key, current_change)[k] = change_batch[k]
        BY <1>7, <3>1, CompleteIs
      <3>4. Complete(change_batch, last_key, current_change)[last_key].old_value =
              IF last_key \in D /\ change_batch[last_key].old_value # None
              THEN change_batch[last_key].old_value ELSE current_change.old_value
        BY CompleteOld
      <3> QED BY <2>1, <3>2, <3>3, <3>4
    <2>3. \A k \in DBKey : Seen(k) <=> k \in D \cup {last_key}
      BY DEF Seen
    <2>4. ASSUME NEW k \in D \cup {last_key} PROVE Deserialized[k].old_value = old(k)
      <3>1. CASE k = last_key
        BY <1>2, <1>4, <1>7, <2>2, <3>1
      <3>2. CASE k # last_key
        BY <1>2, <1>4, <2>2, <2>4, <3>2
      <3> QED BY <3>1, <3>2
    <2> QED BY <1>2, <1>5, <1>7, <2>2, <2>3, <2>4
  <1> QED BY <1>2, <1>6, <1>7


(***************************************************************************)
(* get_transaction as a whole                                              *)
(***************************************************************************)
LEMMA NoneIsNoId == None \notin Id
  BY InId, NoneAssumption

LEMMA ReadInitInv == ReadInit => ReadInv
  BY InitTypeOK DEF ReadInit, ReadInv, NothingRead

LEMMA NextReadInv == ReadInv /\ [ReadNext]_readerVars => ReadInv'
  <1> SUFFICES ASSUME ReadInv, [ReadNext]_readerVars PROVE ReadInv'
    OBVIOUS
  <1>0. TypeOK /\ (UNCHANGED vars => TypeOK')
    BY NextTypeOK DEF ReadInv
  <1>1. CASE asked = None /\ Next /\ UNCHANGED reader
    <2>1. TypeOK'
      BY <1>0, <1>1, NextTypeOK
    <2> QED BY <1>1, <2>1, NoneIsNoId DEF ReadInv, reader, NothingRead
  <1>2. ASSUME NEW id \in Id, GetTransaction(id) PROVE ReadInv'
    <2>0. PICK s : s = OldestSnapshot(id)
      OBVIOUS
    <2>1. s \in Id /\ s < id /\ snapshots[s] \in State
      BY <1>0, <1>2, <2>0, OldestIs DEF GetTransaction
    <2>2. /\ asked' = id /\ txn' = snapshots[s] /\ reading' = s..(id - 1)
          /\ UNCHANGED vars /\ HasTransaction(id)
          /\ rows' = IF s..(id - 1) = {} THEN {} ELSE get_by_prefix(to_bytes(Lowest(s..(id - 1))))
          /\ current_change' = NoChange /\ last_key' = None /\ change_batch' = NoEntries
      BY <1>2, <2>0 DEF GetTransaction, StartLog
    <2>3. UNCHANGED <<trie_log, snapshots>>
      BY <2>2 DEF vars
    <2>4. OldestSnapshot(asked)' = s /\ HasTransaction(asked)'
      BY <2>0, <2>2, <2>3 DEF OldestSnapshot, HasTransaction, Saved
    <2>5. /\ s \in Int /\ id - 1 \in Int /\ s <= id - 1 /\ s..(id - 1) # {} /\ s # id
          /\ s <= id
      BY <2>1, InId
    <2>6. rows' = get_by_prefix(to_bytes(s))
      BY <2>2, <2>5, LowestOf
    <2>7. Sound(s)' /\ Complement(s)'
      BY <1>0, <2>1, <2>2, <2>3, <2>6, LogStarts
    <2>8. \A k \in DBKey : ReadsAs(s, s, k, snapshots[s][k])
      BY <2>1, ReadsAsBase
    <2>9. Progress(s)'
      BY <2>1, <2>2, <2>3, <2>4, <2>5, <2>7, <2>8 DEF Progress, ReadsAs
    <2> QED BY <1>0, <2>1, <2>2, <2>4, <2>9 DEF ReadInv
  <1>3. ASSUME NEW row \in rows, ReadRow(row) PROVE ReadInv'
    <2>1. PICK l \in Id : Progress(l) /\ asked \in Id /\ HasTransaction(asked)
      BY DEF ReadInv, NothingRead
    <2>2. l # asked /\ Sound(l) /\ Complement(l)
      BY <2>1 DEF Progress, NothingRead
    <2>3. Lowest(reading) = l
      <3>1. l \in Int /\ asked - 1 \in Int /\ l <= asked - 1 /\ reading = l..(asked - 1)
        BY <2>1, <2>2, InId DEF Progress
      <3> QED BY <3>1, LowestOf
    <2>4. Sound(l)' /\ Complement(l)'
      BY <1>0, <1>3, <2>2, <2>3, RowRead
    <2>5. UNCHANGED <<vars, reading, asked, txn>> /\ UNCHANGED <<trie_log, snapshots>>
      BY <1>3 DEF ReadRow, vars
    <2>6. OldestSnapshot(asked)' = OldestSnapshot(asked) /\ HasTransaction(asked)'
      BY <2>1, <2>5 DEF OldestSnapshot, HasTransaction, Saved
    <2>7. Progress(l)'
      BY <2>1, <2>2, <2>4, <2>5, <2>6 DEF Progress, ReadsAs
    <2> QED BY <1>0, <2>1, <2>5, <2>6, <2>7 DEF ReadInv
  <1>4. CASE UndoLog
    <2>1. PICK l \in Id : Progress(l) /\ asked \in Id /\ HasTransaction(asked)
      BY <1>4 DEF ReadInv, UndoLog
    <2> DEFINE s == OldestSnapshot(asked)
               h == asked - 1
    <2>2. /\ s <= l /\ l <= asked /\ reading = l..h /\ txn \in State
          /\ \A k \in DBKey : ReadsAs(s, l, k, txn[k])
          /\ IF l = asked THEN NothingRead ELSE Sound(l) /\ Complement(l)
      BY <2>1 DEF Progress
    <2>3. s \in Id
      BY <1>0, <2>1, OldestIs
    <2>4. UNCHANGED <<vars, asked>> /\ UNCHANGED <<trie_log, snapshots>> /\ reading # {} /\ rows = {}
      BY <1>4 DEF UndoLog, vars
    <2>5. OldestSnapshot(asked)' = s /\ HasTransaction(asked)'
      BY <2>1, <2>4 DEF OldestSnapshot, HasTransaction, Saved
    <2> HIDE DEF s
    <2>6. l # asked /\ l \in Int /\ h \in Int /\ l <= h /\ l + 1 \in Id /\ s <= l + 1 /\ l + 1 <= asked
      BY <2>1, <2>2, <2>3, <2>4, MaxIdAssumption DEF Id
    <2> HIDE DEF h
    <2>7. Lowest(reading) = l /\ reading \ {l} = (l + 1)..h
      BY <2>2, <2>6, LowestOf
    <2>8. /\ DOMAIN Deserialized \subseteq DBKey
          /\ \A k \in DBKey :
               /\ k \in DOMAIN Deserialized <=> trie_log[l][k] # NoChange
               /\ k \in DOMAIN Deserialized => Deserialized[k].old_value = trie_log[l][k].old_value
      BY <1>0, <2>1, <2>2, <2>4, <2>6, LogRead
    <2>9. txn' = [k \in DBKey |-> IF k \in DOMAIN Deserialized THEN Deserialized[k].old_value
                                                              ELSE txn[k]]
      BY <1>4 DEF UndoLog
    <2>10. ASSUME NEW k \in DBKey
           PROVE  /\ txn'[k] = UndoKey(trie_log[l][k], txn[k])
                  /\ txn'[k] \in DBValue \cup {None}
      <3>1. trie_log[l][k] \in Change /\ txn[k] \in DBValue \cup {None}
        BY <1>0, <2>2 DEF TypeOK, State
      <3>2. txn'[k] = IF trie_log[l][k] # NoChange THEN trie_log[l][k].old_value ELSE txn[k]
        BY <2>8, <2>9
      <3> QED BY <3>1, <3>2 DEF UndoKey, Change, NoChange
    <2>11. txn' \in State
      BY <2>9, <2>10 DEF State
    <2>12. \A k \in DBKey : ReadsAs(s, l + 1, k, txn'[k])
      BY <1>0, <2>2, <2>3, <2>6, <2>10, ReadsAsStep
    <2>13. /\ reading' = (l + 1)..h
           /\ rows' = IF (l + 1)..h = {} THEN {} ELSE get_by_prefix(to_bytes(Lowest((l + 1)..h)))
           /\ current_change' = NoChange /\ last_key' = None /\ change_batch' = NoEntries
      BY <1>4, <2>7 DEF UndoLog, StartLog
    <2>14. CASE l + 1 = asked
      <3>1. (l + 1)..h = {}
        BY <2>6, <2>14 DEF h
      <3>2. NothingRead'
        BY <2>13, <3>1 DEF NothingRead
      <3>3. Progress(l + 1)'
        BY <2>4, <2>5, <2>6, <2>11, <2>12, <2>13, <2>14, <3>2 DEF Progress, ReadsAs, h
      <3> QED BY <1>0, <2>1, <2>4, <2>5, <2>6, <3>3 DEF ReadInv
    <2>15. CASE l + 1 # asked
      <3>1. l + 1 \in Int /\ l + 1 <= h /\ (l + 1)..h # {}
        BY <2>1, <2>6, <2>15, InId DEF h
      <3>2. rows' = get_by_prefix(to_bytes(l + 1))
        BY <2>6, <2>13, <3>1, LowestOf
      <3>3. Sound(l + 1)' /\ Complement(l + 1)'
        BY <1>0, <2>4, <2>6, <2>13, <3>2, LogStarts
      <3>4. Progress(l + 1)'
        BY <2>4, <2>5, <2>6, <2>11, <2>12, <2>13, <2>15, <3>3 DEF Progress, ReadsAs, h
      <3> QED BY <1>0, <2>1, <2>4, <2>5, <2>6, <3>4 DEF ReadInv
    <2> QED BY <2>14, <2>15
  <1>5. CASE DropTransaction
    <2>1. /\ asked # None /\ reading = {} /\ asked' = None
          /\ UNCHANGED <<vars, reading, rows, current_change, last_key, change_batch>>
      BY <1>5 DEF DropTransaction
    <2>2. PICK l \in Id : Progress(l) /\ asked \in Id
      BY <2>1 DEF ReadInv
    <2>3. l = asked
      BY <2>1, <2>2, InId DEF Progress
    <2>4. NothingRead'
      BY <2>1, <2>2, <2>3 DEF Progress, NothingRead
    <2> QED BY <1>0, <2>1, <2>4 DEF ReadInv
  <1>6. CASE UNCHANGED readerVars
    <2>1. /\ UNCHANGED vars /\ UNCHANGED <<trie_log, snapshots>>
          /\ UNCHANGED <<reading, rows, current_change, last_key, change_batch, asked, txn>>
      BY <1>6 DEF readerVars, reader, vars
    <2>2. CASE asked = None
      BY <1>0, <2>1, <2>2, NoneIsNoId DEF ReadInv, NothingRead
    <2>3. CASE asked # None
      <3>1. PICK l \in Id : Progress(l) /\ asked \in Id /\ HasTransaction(asked)
        BY <2>3 DEF ReadInv
      <3>2. OldestSnapshot(asked)' = OldestSnapshot(asked) /\ HasTransaction(asked)'
        BY <2>1, <3>1 DEF OldestSnapshot, HasTransaction, Saved
      <3>3. Progress(l)'
        BY <2>1, <3>1, <3>2 DEF Progress, ReadsAs, NothingRead, Sound, Complement, OldKept, NewKept,
                               Seen, get_by_prefix, TrieLogColumn
      <3> QED BY <1>0, <2>1, <3>1, <3>2, <3>3 DEF ReadInv
    <2> QED BY <2>2, <2>3
  <1> QED BY <1>1, <1>2, <1>3, <1>4, <1>5, <1>6 DEF ReadNext

LEMMA ReadInvRead == ReadInv => LogsReadInAnyOrder /\ EntriesHaveAValue
  <1> SUFFICES ASSUME ReadInv PROVE LogsReadInAnyOrder /\ EntriesHaveAValue
    OBVIOUS
  <1>1. ASSUME asked # None, reading = {} PROVE txn = Transaction(asked)
    <2>1. PICK l \in Id : Progress(l) /\ asked \in Id /\ HasTransaction(asked)
      BY <1>1 DEF ReadInv
    <2>2. l = asked
      BY <1>1, <2>1, InId DEF Progress
    <2>3. TypeOK /\ OldestSnapshot(asked) \in Id
      BY <2>1, OldestIs DEF ReadInv
    <2>4. \A k \in DBKey : ReadsAs(OldestSnapshot(asked), asked, k, txn[k])
      BY <2>1, <2>2 DEF Progress
    <2>5. /\ \A k \in DBKey : ReadsAs(OldestSnapshot(asked), asked, k, Transaction(asked)[k])
          /\ Transaction(asked) = [k \in DBKey |-> Transaction(asked)[k]]
      BY <2>1, <2>3, TransactionComputes
    <2>6. \A k \in DBKey : txn[k] = Transaction(asked)[k]
      BY <2>1, <2>3, <2>4, <2>5, ReadsAsUnique
    <2>7. txn = [k \in DBKey |-> txn[k]]
      BY <2>1 DEF Progress, State
    <2> QED BY <2>5, <2>6, <2>7
  <1>2. ASSUME rows = {}, NEW k \in DOMAIN Deserialized PROVE Deserialized[k] # NoChange
    <2>1. CASE NothingRead
      BY <2>1 DEF NothingRead, Deserialized, NoEntries
    <2>2. CASE \E l \in Id : Sound(l) /\ Complement(l)
      BY <1>2, <2>2, LogRead DEF ReadInv
    <2> QED BY <2>1, <2>2 DEF ReadInv, Progress
  <1> QED BY <1>1, <1>2 DEF LogsReadInAnyOrder, EntriesHaveAValue

\* Whatever the order in which the database hands out the rows of a log,
\* get_transaction computes what KeyValueDB!Transaction says: each log from the
\* snapshot's on undone once, no old value lost and none invented.
THEOREM ReadsInAnyOrder == ReadSpec => []LogsReadInAnyOrder
  BY ReadInitInv, NextReadInv, ReadInvRead, PTL DEF ReadSpec

\* deserialize never returns an entry with neither value, so the unreachable!()
\* of get_transaction is not reached.
THEOREM NoEmptyEntry == ReadSpec => []EntriesHaveAValue
  BY ReadInitInv, NextReadInv, ReadInvRead, PTL DEF ReadSpec
=============================================================================
