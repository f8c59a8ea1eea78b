-------------------------- MODULE MerkleTrees_proofs --------------------------
(***************************************************************************)
(* Proofs about MerkleTrees, for every number of trees and every height.   *)
(***************************************************************************)
EXTENDS MerkleTrees, CanonicalTrie_proofs, FiniteSetTheorems

(***************************************************************************)
(* Bytes and bits                                                          *)
(***************************************************************************)
LEMMA DivMod ==
  ASSUME NEW a \in Nat, NEW b \in Nat \ {0}
  PROVE  /\ a \div b \in Nat /\ a % b \in 0..(b - 1)
         /\ a = b * (a \div b) + (a % b)
  OBVIOUS

LEMMA DivBelow ==
  ASSUME NEW a \in Nat, NEW c \in Nat, a < c, NEW b \in Nat \ {0}
  PROVE  1 + (a \div b) <= (c + b - 1) \div b
  <1>1. PICK q \in Nat, r \in 0..(b - 1) : a = b * q + r /\ q = a \div b
    BY DivMod
  <1>2. c + b - 1 \in Nat
    OBVIOUS
  <1>3. PICK u \in Nat, v \in 0..(b - 1) : c + b - 1 = b * u + v /\ u = (c + b - 1) \div b
    BY <1>2, DivMod
  <1>4. SUFFICES ASSUME u <= q PROVE FALSE
    BY <1>1, <1>3
  <1>5. b * u <= b * q
    BY <1>4
  <1> QED BY <1>1, <1>3, <1>5

LEMMA BytesForType == \A n \in Nat : BytesFor(n) \in Nat
  BY ByteAssumption DEF BytesFor

\* Bit n of the j-th byte of a path; zero behind its end.
PaddedBit(bits, j, n) ==
    LET at == (j - 1) * BitsPerByte + n IN IF at <= Len(bits) THEN bits[at] ELSE 0

LEMMA PaddedBitType ==
  ASSUME NEW bits \in Seq(Bit), NEW j \in Nat \ {0}, NEW n \in 1..BitsPerByte
  PROVE  PaddedBit(bits, j, n) \in Bit
  <1>1. PICK at \in Nat \ {0} : at = (j - 1) * BitsPerByte + n
    BY ByteAssumption
  <1> QED BY <1>1 DEF PaddedBit, Bit

\* The value of a byte, bit by bit from the highest.
LEMMA ByteValue ==
  ASSUME NEW bits \in Seq(Bit), NEW j \in Nat \ {0}
  PROVE  \E v \in [0..BitsPerByte -> Nat] :
            /\ ByteAt(bits, j) = v[BitsPerByte]
            /\ \A n \in 1..BitsPerByte : v[n] = 2 * v[n - 1] + PaddedBit(bits, j, n)
  <1> DEFINE B == BitsPerByte
             c == [n \in 1..B |-> PaddedBit(bits, j, n)]
             g == [x \in (1..B) \X Nat |-> 2 * x[2] + c[x[1]]]
             Body(f) == [n \in 0..B |-> IF n = 0 THEN 0
                                        ELSE 2 * f[n - 1] + PaddedBit(bits, j, n)]
             F == CHOOSE f : f = Body(f)
  <1>0. B \in Nat \ {0}
    BY ByteAssumption
  <1>1. c \in [1..B -> Nat]
    BY PaddedBitType DEF Bit
  <1>2. g \in Steps(B, Nat)
    <2> HIDE DEF c
    <2> QED BY <1>1 DEF Steps
  <1>3. ASSUME NEW f, Solution(f, B, Nat, 0, g)
        PROVE  f = Body(f)
    <2>0. /\ f \in [0..B -> Nat] /\ f[0] = 0
          /\ \A n \in 1..B : f[n] = g[<<n, f[n - 1]>>]
      BY <1>3 DEF Solution
    <2>1. ASSUME NEW n \in 1..B PROVE f[n] = 2 * f[n - 1] + PaddedBit(bits, j, n)
      <3>1. n - 1 \in 0..B /\ <<n, f[n - 1]>> \in (1..B) \X Nat
        BY <1>0, <2>0
      <3> QED BY <2>0, <3>1
    <2>2. \A n \in 0..B : n = 0 \/ n \in 1..B
      BY <1>0
    <2> HIDE DEF B
    <2> QED BY <2>0, <2>1, <2>2
  <1>4. \E f : Solution(f, B, Nat, 0, g)
    <2>1. 0 \in Nat /\ B \in Nat
      BY <1>0
    <2> HIDE DEF g, B
    <2> QED BY <1>2, <2>1, RecursionUpTo, Zenon
  <1>5. F = Body(F)
    <2> HIDE DEF g, Body
    <2>1. \E f : f = Body(f)
      BY <1>3, <1>4
    <2> QED BY <2>1
  <1>6. ByteAt(bits, j) = F[B]
    BY DEF ByteAt, PaddedBit
  <1> HIDE DEF F
  <1>7. F[0] = 0 /\ \A n \in 1..B : F[n] = 2 * F[n - 1] + c[n]
    BY <1>0, <1>5
  <1>8. \A n \in 0..B : F[n] \in Nat
    <2> DEFINE S == {n \in 0..B : F[n] \in Nat}
    <2>1. 0 \in S
      BY <1>0, <1>7
    <2>2. ASSUME NEW n \in 0..(B - 1), n \in S PROVE n + 1 \in S
      <3>1. n + 1 \in 1..B /\ (n + 1) - 1 = n /\ n + 1 \in 0..B
        BY <1>0
      <3>2. F[n + 1] = 2 * F[n] + c[n + 1] /\ F[n] \in Nat /\ c[n + 1] \in Nat
        <4> HIDE DEF c
        <4> QED BY <1>1, <1>7, <2>2, <3>1
      <3> HIDE DEF c
      <3> QED BY <3>1, <3>2
    <2>3. 0..B \subseteq S
      <3> HIDE DEF S, B
      <3> QED BY <1>0, <2>1, <2>2, UpTo
    <2> QED BY <2>3
  <1>9. F \in [0..B -> Nat]
    <2> HIDE DEF c
    <2> QED BY <1>5, <1>8
  <1> QED BY <1>6, <1>7, <1>9

\* Shifting a byte right undoes its last step.
LEMMA BitOfByte ==
  ASSUME NEW bits \in Seq(Bit), NEW j \in Nat \ {0}, NEW n \in 1..BitsPerByte
  PROVE  BitOf(ByteAt(bits, j), n) = PaddedBit(bits, j, n)
  <1> DEFINE B == BitsPerByte
             byte == ByteAt(bits, j)
             g == [x \in (1..B) \X Nat |-> x[2] \div 2]
             Body(f) == [k \in 0..B |-> IF k = 0 THEN byte ELSE f[k - 1] \div 2]
             F == CHOOSE f : f = Body(f)
  <1>0. B \in Nat \ {0}
    BY ByteAssumption
  <1>1. PICK v \in [0..B -> Nat] :
            /\ byte = v[B]
            /\ \A m \in 1..B : v[m] = 2 * v[m - 1] + PaddedBit(bits, j, m)
    BY ByteValue
  <1>2. byte \in Nat
    BY <1>0, <1>1
  <1>3. BitOf(byte, n) = F[B - n] % 2
    BY DEF BitOf
  <1> HIDE DEF byte
  <1>4. g \in Steps(B, Nat)
    BY DEF Steps
  <1>5. PICK f : Solution(f, B, Nat, byte, g)
    <2>1. B \in Nat
      BY <1>0
    <2> HIDE DEF g, B
    <2> QED BY <1>2, <1>4, <2>1, RecursionUpTo, Zenon
  <1>6. f = Body(f)
    <2>0. /\ f \in [0..B -> Nat] /\ f[0] = byte
          /\ \A k \in 1..B : f[k] = g[<<k, f[k - 1]>>]
      BY <1>5 DEF Solution
    <2>1. ASSUME NEW k \in 1..B PROVE f[k] = f[k - 1] \div 2
      <3>1. k - 1 \in 0..B /\ <<k, f[k - 1]>> \in (1..B) \X Nat
        BY <1>0, <2>0
      <3> QED BY <2>0, <3>1
    <2>2. \A k \in 0..B : k = 0 \/ k \in 1..B
      BY <1>0
    <2> HIDE DEF B
    <2> QED BY <2>0, <2>1, <2>2
  <1>7. F = Body(F)
    <2> HIDE DEF Body
    <2> QED BY <1>6
  <1> HIDE DEF F
  <1>8. F[0] = byte /\ \A k \in 1..B : F[k] = F[k - 1] \div 2
    BY <1>0, <1>7
  <1>9. \A k \in 0..B : F[k] = v[B - k]
    <2> DEFINE S == {k \in 0..B : F[k] = v[B - k]}
    <2>1. 0 \in S
      BY <1>0, <1>1, <1>8
    <2>2. ASSUME NEW k \in 0..(B - 1), k \in S PROVE k + 1 \in S
      <3>1. k + 1 \in 1..B /\ (k + 1) - 1 = k /\ k + 1 \in 0..B /\ B - k \in 1..B
        BY <1>0
      <3>2. F[k + 1] = v[B - k] \div 2
        BY <1>8, <2>2, <3>1
      <3>3. PICK d \in Bit, w \in Nat : v[B - k] = 2 * w + d /\ w = v[B - (k + 1)]
        <4>1. (B - k) - 1 = B - (k + 1) /\ B - (k + 1) \in 0..B
          BY <1>0
        <4>2. v[B - k] = 2 * v[B - (k + 1)] + PaddedBit(bits, j, B - k)
          BY <1>1, <3>1, <4>1
        <4> QED BY <3>1, <4>1, <4>2, PaddedBitType
      <3>4. v[B - k] \div 2 = w
        <4>1. (2 * w + d) \div 2 = w
          BY DEF Bit
        <4> QED BY <3>3, <4>1
      <3> QED BY <3>1, <3>2, <3>3, <3>4
    <2>3. 0..B \subseteq S
      <3> HIDE DEF S, B
      <3> QED BY <1>0, <2>1, <2>2, UpTo
    <2> QED BY <2>3
  <1>10. F[B - n] = v[n]
    <2>1. B - n \in 0..B /\ B - (B - n) = n
      BY <1>0
    <2> QED BY <1>9, <2>1
  <1>11. PICK d \in Bit, w \in Nat : v[n] = 2 * w + d /\ d = PaddedBit(bits, j, n)
    <2>1. n - 1 \in 0..B
      BY <1>0
    <2> QED BY <1>1, <2>1, PaddedBitType
  <1>12. v[n] % 2 = d
    BY <1>11 DEF Bit
  <1> QED BY <1>3, <1>10, <1>11, <1>12 DEF byte

LEMMA PackedIs ==
  ASSUME NEW p \in Seq(Bit)
  PROVE  /\ Packed(p) \in Seq(Nat) /\ Len(Packed(p)) = BytesFor(Len(p))
         /\ \A j \in 1..BytesFor(Len(p)) : Packed(p)[j] = ByteAt(p, j)
  <1>1. BytesFor(Len(p)) \in Nat
    BY BytesForType
  <1>2. ASSUME NEW j \in 1..BytesFor(Len(p)) PROVE ByteAt(p, j) \in Nat
    <2>1. j \in Nat \ {0} /\ BitsPerByte \in 0..BitsPerByte
      BY <1>1, ByteAssumption
    <2>2. PICK v \in [0..BitsPerByte -> Nat] : ByteAt(p, j) = v[BitsPerByte]
      BY <2>1, ByteValue
    <2> QED BY <2>1, <2>2
  <1>3. PICK b \in Nat : b = BytesFor(Len(p))
    BY <1>1
  <1>4. Packed(p) = [j \in 1..b |-> ByteAt(p, j)]
    BY <1>3 DEF Packed
  <1>5. Packed(p) \in [1..b -> Nat]
    BY <1>2, <1>3, <1>4
  <1>6. Packed(p) \in Seq(Nat) /\ Len(Packed(p)) = b
    <2>1. ASSUME NEW s \in [1..b -> Nat] PROVE s \in Seq(Nat) /\ Len(s) = b
      OBVIOUS
    <2> QED BY <1>5, <2>1
  <1> QED BY <1>3, <1>4, <1>6

LEMMA EncodePathIs ==
  ASSUME NEW p \in Seq(Bit)
  PROVE  /\ EncodePath(p) \in Seq(Nat) /\ Len(EncodePath(p)) = 1 + BytesFor(Len(p))
         /\ EncodePath(p)[1] = Len(p)
         /\ \A j \in 1..BytesFor(Len(p)) : EncodePath(p)[1 + j] = ByteAt(p, j)
  <1>1. PICK s \in Seq(Nat) : s = Packed(p)
    BY PackedIs
  <1>2. Len(s) = BytesFor(Len(p)) /\ \A j \in 1..BytesFor(Len(p)) : s[j] = ByteAt(p, j)
    BY <1>1, PackedIs
  <1>3. PICK n \in Nat : n = Len(p)
    OBVIOUS
  <1>4. /\ <<n>> \o s \in Seq(Nat) /\ Len(<<n>> \o s) = 1 + Len(s) /\ (<<n>> \o s)[1] = n
        /\ \A j \in 1..Len(s) : (<<n>> \o s)[1 + j] = s[j]
    OBVIOUS
  <1>5. EncodePath(p) = <<n>> \o s
    BY <1>1, <1>3 DEF EncodePath
  <1> QED BY <1>2, <1>3, <1>4, <1>5

\* A path is read back from its bytes.
LEMMA DecodeEncode ==
  ASSUME NEW p \in Seq(Bit)
  PROVE  DecodePath(EncodePath(p)) = p
  <1> DEFINE B == BitsPerByte
  <1>0. B \in Nat \ {0}
    BY ByteAssumption
  <1>1. PICK e \in Seq(Nat) : e = EncodePath(p)
    BY EncodePathIs
  <1>2. /\ Len(e) = 1 + BytesFor(Len(p)) /\ e[1] = Len(p)
        /\ \A j \in 1..BytesFor(Len(p)) : e[1 + j] = ByteAt(p, j)
    BY <1>1, EncodePathIs
  <1>3. Len(p) \in Nat /\ BytesFor(Len(p)) \in Nat
    BY BytesForType
  <1>4. e # << >> /\ ~(Len(e) - 1 < BytesFor(e[1]))
    BY <1>2, <1>3
  <1>5. DecodePath(e) = [n \in 1..Len(p) |-> BitOf(e[2 + ((n - 1) \div B)], 1 + ((n - 1) % B))]
    BY <1>2, <1>4 DEF DecodePath
  <1>6. ASSUME NEW n \in 1..Len(p)
        PROVE  BitOf(e[2 + ((n - 1) \div B)], 1 + ((n - 1) % B)) = p[n]
    <2>1. n - 1 \in Nat /\ n - 1 < Len(p)
      BY <1>3
    <2>2. PICK q \in Nat, r \in 0..(B - 1) : n - 1 = B * q + r /\ q = (n - 1) \div B /\ r = (n - 1) % B
      BY <1>0, <2>1, DivMod
    <2>3. 1 + q <= BytesFor(Len(p))
      <3>1. 1 + ((n - 1) \div B) <= (Len(p) + B - 1) \div B
        BY <1>0, <1>3, <2>1, DivBelow
      <3> QED BY <2>2, <3>1 DEF BytesFor
    <2>4. PICK j \in Nat \ {0} : j = 1 + q
      BY <2>2
    <2>5. j \in 1..BytesFor(Len(p)) /\ 1 + j = 2 + q
      BY <1>3, <2>3, <2>4
    <2>6. e[2 + q] = ByteAt(p, j)
      BY <1>2, <2>5
    <2>7. 1 + r \in 1..B
      BY <1>0, <2>2
    <2>8. BitOf(ByteAt(p, j), 1 + r) = PaddedBit(p, j, 1 + r)
      BY <2>7, BitOfByte
    <2>9. PaddedBit(p, j, 1 + r) = p[n]
      <3>1. (j - 1) * B + (1 + r) = n
        <4>1. j - 1 = q
          BY <2>4
        <4>2. PICK c \in Nat : c = B * q
          BY <1>0
        <4>3. (j - 1) * B = c
          <5>1. q * B = B * q
            BY <1>0
          <5> QED BY <4>1, <4>2, <5>1
        <4>4. n - 1 = c + r
          BY <2>2, <4>2
        <4>5. c + (1 + r) = n
          BY <1>0, <4>4
        <4> QED BY <4>3, <4>5
      <3> QED BY <1>3, <3>1 DEF PaddedBit
    <2> QED BY <2>2, <2>6, <2>8, <2>9
  <1>7. p = [n \in 1..Len(p) |-> p[n]]
    OBVIOUS
  <1> HIDE DEF B
  <1>8. DecodePath(e) = p
    BY <1>5, <1>6, <1>7
  <1> QED BY <1>1, <1>8

LEMMA EncodePathInjective ==
  ASSUME NEW p \in Seq(Bit), NEW q \in Seq(Bit), EncodePath(p) = EncodePath(q)
  PROVE  p = q
  <1>1. DecodePath(EncodePath(p)) = p /\ DecodePath(EncodePath(q)) = q
    BY DecodeEncode
  <1> QED BY <1>1

\* Keys have one length, so the bytes alone tell them apart.
LEMMA PackedInjective ==
  ASSUME NEW k \in Key, NEW l \in Key, Packed(k) = Packed(l)
  PROVE  k = l
  <1>1. k \in Seq(Bit) /\ l \in Seq(Bit) /\ Len(k) = Len(l)
    BY KeySeq
  <1>2. EncodePath(k) = EncodePath(l)
    BY <1>1 DEF EncodePath
  <1> QED BY <1>1, <1>2, EncodePathInjective

(***************************************************************************)
(* The keys of the rows                                                    *)
(***************************************************************************)
\* No identifier begins with another one.
PrefixFree == \A i, j \in Identifiers : IsPrefixOf(i, j) => i = j

LEMMA ConcatRows ==
  ASSUME NEW s \in Seq(Nat), NEW t \in Seq(Nat)
  PROVE  /\ s \o t \in Seq(Nat) /\ Len(s \o t) = Len(s) + Len(t)
         /\ \A n \in 1..Len(s) : (s \o t)[n] = s[n]
         /\ \A n \in 1..Len(t) : (s \o t)[Len(s) + n] = t[n]
  OBVIOUS

LEMMA SameRows ==
  ASSUME NEW s \in Seq(Nat), NEW t \in Seq(Nat), Len(s) = Len(t),
         \A n \in 1..Len(s) : s[n] = t[n]
  PROVE  s = t
  OBVIOUS

LEMMA RowPrefix ==
  ASSUME NEW i \in Seq(Nat), NEW s \in Seq(Nat)
  PROVE  IsPrefixOf(i, s) <=> Len(i) <= Len(s) /\ \A n \in 1..Len(i) : i[n] = s[n]
  <1>1. CASE Len(i) <= Len(s)
    <2>1. PICK f \in Seq(Nat) : f = First(s, Len(i)) /\ Len(f) = Len(i)
                                 /\ \A n \in 1..Len(i) : f[n] = s[n]
      <3>1. ASSUME NEW m \in 0..Len(s)
            PROVE  /\ First(s, m) \in Seq(Nat) /\ Len(First(s, m)) = m
                   /\ \A n \in 1..m : First(s, m)[n] = s[n]
        BY DEF First
      <3>2. Len(i) \in 0..Len(s)
        BY <1>1
      <3> QED BY <3>1, <3>2
    <2>2. f = i <=> \A n \in 1..Len(i) : i[n] = s[n]
      BY <2>1, SameRows
    <2> QED BY <1>1, <2>1, <2>2 DEF IsPrefixOf
  <1>2. CASE ~(Len(i) <= Len(s))
    BY <1>2 DEF IsPrefixOf
  <1> QED BY <1>1, <1>2

\* What follows an identifier can be told from the row.
LEMMA ConcatCancel ==
  ASSUME NEW i \in Seq(Nat), NEW s \in Seq(Nat), NEW t \in Seq(Nat), i \o s = i \o t
  PROVE  s = t
  <1>1. Len(s) = Len(t)
    <2>1. Len(i \o s) = Len(i) + Len(s) /\ Len(i \o t) = Len(i) + Len(t)
      BY ConcatRows
    <2> QED BY <2>1
  <1>2. \A n \in 1..Len(s) : s[n] = t[n]
    <2>1. \A n \in 1..Len(s) : (i \o s)[Len(i) + n] = s[n]
      BY ConcatRows
    <2>2. \A n \in 1..Len(t) : (i \o t)[Len(i) + n] = t[n]
      BY ConcatRows
    <2> QED BY <1>1, <2>1, <2>2
  <1> QED BY <1>1, <1>2, SameRows

\* Two identifiers that begin the same row begin with one another.
LEMMA CommonPrefix ==
  ASSUME PrefixFree, NEW i \in Identifiers, NEW j \in Identifiers,
         NEW s \in Seq(Nat), IsPrefixOf(i, s), IsPrefixOf(j, s)
  PROVE  i = j
  <1>1. i \in Seq(Nat) /\ j \in Seq(Nat)
    BY IdentifiersAssumption
  <1>2. /\ \A n \in 1..Len(i) : i[n] = s[n]
        /\ \A n \in 1..Len(j) : j[n] = s[n]
    BY <1>1, RowPrefix
  <1>3. CASE Len(i) <= Len(j)
    <2>1. IsPrefixOf(i, j)
      <3>1. \A n \in 1..Len(i) : i[n] = j[n]
        BY <1>1, <1>2, <1>3
      <3> QED BY <1>1, <1>3, <3>1, RowPrefix
    <2> QED BY <2>1 DEF PrefixFree
  <1>4. CASE ~(Len(i) <= Len(j))
    <2>1. IsPrefixOf(j, i)
      <3>0. Len(j) <= Len(i)
        BY <1>1, <1>4
      <3>1. \A n \in 1..Len(j) : j[n] = i[n]
        BY <1>1, <1>2, <3>0
      <3> QED BY <1>1, <3>0, <3>1, RowPrefix
    <2> QED BY <2>1 DEF PrefixFree
  <1> QED BY <1>3, <1>4

LEMMA PrefixOfConcat ==
  ASSUME NEW i \in Seq(Nat), NEW s \in Seq(Nat)
  PROVE  IsPrefixOf(i, i \o s)
  <1>1. PICK t \in Seq(Nat) : t = i \o s
    BY ConcatRows
  <1>2. Len(i) <= Len(t) /\ \A n \in 1..Len(i) : i[n] = t[n]
    BY <1>1
  <1>3. IsPrefixOf(i, t)
    BY <1>2, RowPrefix, Zenon
  <1> QED BY <1>1, <1>3

LEMMA TrieRowType ==
  ASSUME NEW i \in Identifiers, NEW p \in Path
  PROVE  TrieRow(i, p) \in Seq(Nat) /\ IsPrefixOf(i, TrieRow(i, p))
  <1>1. i \in Seq(Nat) /\ EncodePath(p) \in Seq(Nat)
    BY IdentifiersAssumption, PathSeq, EncodePathIs
  <1> QED BY <1>1, ConcatRows, PrefixOfConcat DEF TrieRow, TrieKey

\* Within a tree, a row is the row of one path.
LEMMA TrieRowInjective ==
  ASSUME NEW i \in Identifiers, NEW p \in Path, NEW q \in Path, TrieRow(i, p) = TrieRow(i, q)
  PROVE  p = q
  <1>1. p \in Seq(Bit) /\ q \in Seq(Bit) /\ i \in Seq(Nat)
    BY IdentifiersAssumption, PathSeq
  <1>2. EncodePath(p) \in Seq(Nat) /\ EncodePath(q) \in Seq(Nat)
    BY <1>1, EncodePathIs
  <1>3. i \o EncodePath(p) = i \o EncodePath(q)
    BY DEF TrieRow, TrieKey
  <1>4. EncodePath(p) = EncodePath(q)
    BY <1>1, <1>2, <1>3, ConcatCancel
  <1> QED BY <1>1, <1>4, EncodePathInjective

LEMMA TrieRowTree ==
  ASSUME PrefixFree, NEW i \in Identifiers, NEW j \in Identifiers,
         NEW p \in Path, NEW q \in Path, TrieRow(i, p) = TrieRow(j, q)
  PROVE  i = j /\ p = q
  <1>1. i = j
    BY TrieRowType, CommonPrefix
  <1> QED BY <1>1, TrieRowInjective

\* The row of a key: the identifier, the length and the packed bits.
LEMMA FlatRowIs ==
  ASSUME NEW i \in Identifiers, NEW k \in Key
  PROVE  /\ FlatRow(i, k) = TrieRow(i, k)
         /\ FlatRow(i, k) \in Seq(Nat) /\ IsPrefixOf(i, FlatRow(i, k))
         /\ Len(FlatRow(i, k)) > Len(i)
         /\ From(FlatRow(i, k), Len(i) + 1) = Packed(k)
  <1>1. k \in Seq(Bit) /\ Len(k) = MaxHeight /\ k # << >> /\ k \in Path /\ i \in Seq(Nat)
    <2>1. k \in Seq(Bit) /\ Len(k) = MaxHeight /\ k \in Path
      BY KeySeq, KeyInPath
    <2>2. k # << >>
      BY <2>1, MaxHeightAssumption
    <2> QED BY <2>1, <2>2, IdentifiersAssumption
  <1>2. FlatRow(i, k) = TrieRow(i, k)
    BY <1>1 DEF FlatRow, TrieRow, bitslice_to_bytes
  <1>3. TrieRow(i, k) \in Seq(Nat) /\ IsPrefixOf(i, TrieRow(i, k))
    BY <1>1, TrieRowType
  <1>4. PICK s \in Seq(Nat) : s = Packed(k)
    BY <1>1, PackedIs
  <1>5. PICK n \in Nat : n = Len(k)
    BY <1>1
  <1>6. FlatRow(i, k) = i \o (<<n>> \o s)
    BY <1>2, <1>4, <1>5 DEF TrieRow, TrieKey, EncodePath
  <1>7. PICK r \in Seq(Nat) : /\ r = i \o (<<n>> \o s) /\ Len(r) = Len(i) + 1 + Len(s)
                              /\ \A m \in 1..Len(s) : r[Len(i) + 1 + m] = s[m]
    <2>1. PICK e \in Seq(Nat) : /\ e = <<n>> \o s /\ Len(e) = 1 + Len(s)
                                /\ \A m \in 1..Len(s) : e[1 + m] = s[m]
      <3>1. /\ <<n>> \o s \in Seq(Nat) /\ Len(<<n>> \o s) = 1 + Len(s)
            /\ \A m \in 1..Len(s) : (<<n>> \o s)[1 + m] = s[m]
        OBVIOUS
      <3> QED BY <3>1
    <2>2. /\ i \o e \in Seq(Nat) /\ Len(i \o e) = Len(i) + Len(e)
          /\ \A m \in 1..Len(e) : (i \o e)[Len(i) + m] = e[m]
      BY <1>1, ConcatRows
    <2>3. Len(i \o e) = Len(i) + 1 + Len(s)
      BY <1>1, <2>1, <2>2
    <2>4. ASSUME NEW m \in 1..Len(s) PROVE (i \o e)[Len(i) + 1 + m] = s[m]
      <3>1. 1 + m \in 1..Len(e) /\ Len(i) + (1 + m) = Len(i) + 1 + m
        BY <1>1, <2>1
      <3>2. (i \o e)[Len(i) + (1 + m)] = e[1 + m]
        BY <2>2, <3>1
      <3> QED BY <2>1, <3>1, <3>2
    <2> QED BY <2>1, <2>2, <2>3, <2>4
  <1>8. From(r, Len(i) + 1) = s
    <2>1. PICK a \in Nat : a = Len(i) + 1
      BY <1>1
    <2>2. Len(r) = a + Len(s) /\ a \in 0..Len(r) /\ \A m \in 1..Len(s) : r[a + m] = s[m]
      BY <1>1, <1>7, <2>1
    <2>3. ASSUME NEW b \in 0..Len(r)
          PROVE  /\ From(r, b) \in Seq(Nat) /\ Len(From(r, b)) = Len(r) - b
                 /\ \A m \in 1..(Len(r) - b) : From(r, b)[m] = r[b + m]
      BY DEF From
    <2>4. /\ From(r, a) \in Seq(Nat) /\ Len(From(r, a)) = Len(s)
          /\ \A m \in 1..Len(s) : From(r, a)[m] = s[m]
      <3>1. Len(r) - a = Len(s)
        BY <2>2
      <3> QED BY <2>2, <2>3, <3>1
    <2>5. From(r, a) = s
      BY <2>4, SameRows
    <2> QED BY <2>1, <2>5
  <1>9. Len(FlatRow(i, k)) > Len(i)
    BY <1>1, <1>6, <1>7
  <1> QED BY <1>2, <1>3, <1>4, <1>6, <1>7, <1>8, <1>9

(***************************************************************************)
(* The values of the rows                                                  *)
(***************************************************************************)
LEMMA EdgeIs ==
  ASSUME NEW h, NEW n, NEW l, NEW c
  PROVE  LET e == EdgeNode(h, n, l, c)
         IN  /\ ~IsBinary(e) /\ EdgePath(e) = l /\ EdgeChild(e) = c
             /\ e.hash = h /\ e.height = n
  BY DEF EdgeNode, IsBinary, EdgePath, EdgeChild

\* A node of a stored trie is written as a row and read back as it was.
LEMMA DecodeEncodeNode ==
  ASSUME NEW m \in [Key -> Felt \cup {None}], NEW p \in Path, HasNode(m, p)
  PROVE  LET n == StoredTrie(m)[p]
         IN  EncodeNode(n) \in NodeRow /\ DecodeNode(EncodeNode(n)) = n
  <1>0. Len(p) \in Nat
    BY PathSeq
  <1>1. ASSUME NEW h \in Felt, NEW next \in [Directions -> Felt]
        PROVE  LET n == BinaryNode(h, Len(p), next)
               IN  EncodeNode(n) \in NodeRow /\ DecodeNode(EncodeNode(n)) = n
    BY <1>0 DEF BinaryNode, EncodeNode, DecodeNode, IsBinary, NodeRow
  <1>2. ASSUME NEW h \in Felt, NEW l \in Path, NEW c \in Felt
        PROVE  LET n == EdgeNode(h, Len(p), l, c)
               IN  EncodeNode(n) \in NodeRow /\ DecodeNode(EncodeNode(n)) = n
    <2> DEFINE e == EdgeNode(h, Len(p), l, c)
               r == [type |-> "Edge", hash |-> h, height |-> Len(p),
                     path |-> EncodePath(l), child |-> c]
    <2>1. EncodeNode(e) = r
      <3>1. ~IsBinary(e) /\ EdgePath(e) = l /\ EdgeChild(e) = c /\ e.hash = h /\ e.height = Len(p)
        BY EdgeIs
      <3> HIDE DEF e
      <3> QED BY <3>1 DEF EncodeNode
    <2>2. l \in Seq(Bit) /\ EncodePath(l) \in Seq(Nat) /\ DecodePath(EncodePath(l)) = l
      BY PathSeq, EncodePathIs, DecodeEncode
    <2>3. r \in NodeRow
      BY <1>0, <2>2 DEF NodeRow
    <2>4. DecodeNode(r) = e
      <3>1. l # None
        BY PathIsFelt, OptionAssumption
      <3>2. r.type = "Edge" /\ r.hash = h /\ r.height = Len(p) /\ r.path = EncodePath(l) /\ r.child = c
        OBVIOUS
      <3> HIDE DEF r, e
      <3>3. DecodeNode(r) = EdgeNode(h, Len(p), l, c)
        BY <2>2, <3>1, <3>2 DEF DecodeNode
      <3> QED BY <3>3 DEF e
    <2> QED BY <2>1, <2>3, <2>4
  <1>3. \/ \E h \in Felt, next \in [Directions -> Felt] :
                StoredTrie(m)[p] = BinaryNode(h, Len(p), next)
        \/ \E h \in Felt, l \in Path \ {<< >>}, c \in Felt :
                StoredTrie(m)[p] = EdgeNode(h, Len(p), l, c)
    BY StoredNode
  <1> QED BY <1>1, <1>2, <1>3

(***************************************************************************)
(* Batches                                                                 *)
(***************************************************************************)
\* Rows with keys in R and values in V.
Rows(R, V) == UNION {[D -> V] : D \in SUBSET R}

LEMMA RowsIs ==
  ASSUME NEW R, NEW V, NEW f
  PROVE  f \in Rows(R, V) <=> f \in [DOMAIN f -> V] /\ DOMAIN f \subseteq R
  BY DEF Rows

LEMMA OverwriteType ==
  ASSUME NEW R, NEW V, NEW f \in Rows(R, V), NEW g \in Rows(R, V)
  PROVE  Overwrite(f, g) \in Rows(R, V)
  <1>1. /\ f \in [DOMAIN f -> V] /\ DOMAIN f \subseteq R
        /\ g \in [DOMAIN g -> V] /\ DOMAIN g \subseteq R
    BY RowsIs
  <1> DEFINE o == Overwrite(f, g)
  <1>2. DOMAIN o = DOMAIN f \cup DOMAIN g /\ o \in [DOMAIN o -> V]
    BY <1>1 DEF Overwrite
  <1>3. o \in Rows(R, V)
    <2>1. DOMAIN o \subseteq R
      BY <1>1, <1>2
    <2> HIDE DEF o
    <2> QED BY <1>2, <2>1, RowsIs
  <1> QED BY <1>3

LEMMA NoRowsIs ==
  ASSUME NEW R, NEW V
  PROVE  NoRows \in Rows(R, V) /\ DOMAIN NoRows = {}
  <1>1. DOMAIN NoRows = {} /\ NoRows \in [DOMAIN NoRows -> V]
    BY DEF NoRows
  <1> QED BY <1>1, RowsIs

\* Every tree is somewhere in the order.
LEMMA OrderIs ==
  ASSUME NEW order \in Orders
  PROVE  /\ order \in Seq(Identifiers)
         /\ \A i \in Identifiers : \E n \in 1..Len(order) : order[n] = i
  <1>1. PICK c \in Nat : c = Cardinality(Identifiers)
    BY IdentifiersAssumption, FS_CardinalityType
  <1>2. order \in [1..c -> Identifiers] /\ \A i \in Identifiers : \E n \in DOMAIN order : order[n] = i
    BY <1>1 DEF Orders
  <1>3. ASSUME NEW s \in [1..c -> Identifiers]
        PROVE  s \in Seq(Identifiers) /\ Len(s) = c
    OBVIOUS
  <1> QED BY <1>2, <1>3

\* A batch has the rows of the updates of all trees; each value is that of
\* one of the trees that update the row.
BatchOf(batch, updates) ==
    /\ \A i \in Identifiers : DOMAIN updates[i] \subseteq DOMAIN batch
    /\ \A r \in DOMAIN batch :
          \E i \in Identifiers : r \in DOMAIN updates[i] /\ batch[r] = updates[i][r]

LEMMA BatchIs ==
  ASSUME NEW R, NEW V, NEW updates \in [Identifiers -> Rows(R, V)], NEW order \in Orders
  PROVE  /\ Batch(order, updates) \in Rows(R, V)
         /\ BatchOf(Batch(order, updates), updates)
  <1>1. /\ order \in Seq(Identifiers)
        /\ \A i \in Identifiers : \E n \in 1..Len(order) : order[n] = i
    BY OrderIs
  <1> DEFINE N == Len(order)
             W == Rows(R, V)
             g == [x \in (1..N) \X W |-> Overwrite(x[2], updates[order[x[1]]])]
             Body(f) == [n \in 0..N |-> IF n = 0 THEN NoRows
                                        ELSE Overwrite(f[n - 1], updates[order[n]])]
             F == CHOOSE f : f = Body(f)
  <1>2. N \in Nat /\ \A n \in 1..N : order[n] \in Identifiers /\ updates[order[n]] \in W
    BY <1>1
  <1>3. NoRows \in W
    BY NoRowsIs
  <1>4. g \in Steps(N, W)
    <2>1. ASSUME NEW x \in (1..N) \X W PROVE Overwrite(x[2], updates[order[x[1]]]) \in W
      <3>1. x[2] \in W /\ updates[order[x[1]]] \in W
        <4> HIDE DEF W
        <4> QED BY <1>2
      <3> QED BY <3>1, OverwriteType
    <2> HIDE DEF W, N
    <2> QED BY <2>1 DEF Steps
  <1>5. PICK f : Solution(f, N, W, NoRows, g)
    <2> HIDE DEF g, W, N
    <2> QED BY <1>2, <1>3, <1>4, RecursionUpTo, Zenon
  <1>6. f = Body(f)
    <2> HIDE DEF W, N
    <2>0. /\ f \in [0..N -> W] /\ f[0] = NoRows
          /\ \A n \in 1..N : f[n] = g[<<n, f[n - 1]>>]
      BY <1>5 DEF Solution
    <2>1. ASSUME NEW n \in 1..N PROVE f[n] = Overwrite(f[n - 1], updates[order[n]])
      <3>1. n - 1 \in 0..N /\ <<n, f[n - 1]>> \in (1..N) \X W
        BY <1>2, <2>0
      <3> QED BY <2>0, <3>1
    <2>2. \A n \in 0..N : n = 0 \/ n \in 1..N
      BY <1>2
    <2> QED BY <2>0, <2>1, <2>2
  <1>7. F = Body(F)
    <2> HIDE DEF Body
    <2> QED BY <1>6
  <1>8. Batch(order, updates) = F[N]
    BY DEF Batch
  <1> HIDE DEF F, W, N
  <1>9. F[0] = NoRows /\ \A n \in 1..N : F[n] = Overwrite(F[n - 1], updates[order[n]])
    BY <1>2, <1>7
  <1> DEFINE Good(n) == /\ F[n] \in W
                        /\ \A k \in 1..n : DOMAIN updates[order[k]] \subseteq DOMAIN F[n]
                        /\ \A r \in DOMAIN F[n] :
                              \E i \in Identifiers : r \in DOMAIN updates[i] /\ F[n][r] = updates[i][r]
             S == {n \in Nat : Good(n)}
  <1>10. 0 \in S
    <2>1. DOMAIN F[0] = {} /\ F[0] \in W
      BY <1>3, <1>9, NoRowsIs
    <2> QED BY <2>1
  <1>11. ASSUME NEW n \in 0..(N - 1), n \in S PROVE n + 1 \in S
    <2>1. n + 1 \in 1..N /\ (n + 1) - 1 = n
      BY <1>2
    <2> DEFINE a == F[n]
               u == updates[order[n + 1]]
    <2>2. F[n + 1] = Overwrite(a, u) /\ a \in W /\ u \in W /\ order[n + 1] \in Identifiers
      BY <1>2, <1>9, <1>11, <2>1
    <2>3. Good(n)
      BY <1>11
    <2>4. /\ F[n + 1] \in W /\ DOMAIN F[n + 1] = DOMAIN a \cup DOMAIN u
          /\ \A r \in DOMAIN u : F[n + 1][r] = u[r]
          /\ \A r \in DOMAIN a \ DOMAIN u : F[n + 1][r] = a[r]
      <3>1. a \in Rows(R, V) /\ u \in Rows(R, V)
        BY <2>2 DEF W
      <3> HIDE DEF a, u
      <3>2. Overwrite(a, u) \in Rows(R, V)
        BY <3>1, OverwriteType
      <3>3. /\ DOMAIN Overwrite(a, u) = DOMAIN a \cup DOMAIN u
            /\ \A r \in DOMAIN u : Overwrite(a, u)[r] = u[r]
            /\ \A r \in DOMAIN a \ DOMAIN u : Overwrite(a, u)[r] = a[r]
        BY DEF Overwrite
      <3> QED BY <2>2, <3>2, <3>3 DEF W
    <2>5. ASSUME NEW k \in 1..(n + 1) PROVE DOMAIN updates[order[k]] \subseteq DOMAIN F[n + 1]
      <3>1. k \in 1..n \/ k = n + 1
        BY <1>2
      <3>2. CASE k \in 1..n
        BY <2>3, <2>4, <3>2
      <3>3. CASE k = n + 1
        BY <2>4, <3>3
      <3> QED BY <3>1, <3>2, <3>3
    <2>6. ASSUME NEW r \in DOMAIN F[n + 1]
          PROVE  \E i \in Identifiers : r \in DOMAIN updates[i] /\ F[n + 1][r] = updates[i][r]
      <3>1. CASE r \in DOMAIN u
        BY <2>2, <2>4, <3>1
      <3>2. CASE r \in DOMAIN a \ DOMAIN u
        BY <2>3, <2>4, <3>2
      <3> QED BY <2>4, <3>1, <3>2
    <2> QED BY <2>1, <2>4, <2>5, <2>6
  <1>12. N \in S
    <2>1. 0..N \subseteq S
      <3> HIDE DEF S
      <3> QED BY <1>2, <1>10, <1>11, UpTo
    <2> QED BY <1>2, <2>1
  <1>13. Good(N)
    BY <1>12
  <1>14. ASSUME NEW i \in Identifiers PROVE DOMAIN updates[i] \subseteq DOMAIN F[N]
    <2>1. PICK n \in 1..N : order[n] = i
      BY <1>1 DEF N
    <2> QED BY <1>13, <2>1
  <1>15. BatchOf(F[N], updates) /\ F[N] \in Rows(R, V)
    BY <1>13, <1>14 DEF BatchOf, W
  <1> QED BY <1>8, <1>15

\* A column after a batch.
WrittenOf(w, column, batch) ==
    /\ \A r : r \in DOMAIN w <=> \/ r \in DOMAIN batch /\ batch[r] # Remove
                                \/ r \in DOMAIN column \ DOMAIN batch
    /\ \A r \in DOMAIN w : w[r] = IF r \in DOMAIN batch THEN batch[r] ELSE column[r]

LEMMA WrittenIs ==
  ASSUME NEW R, NEW V, NEW column \in Rows(R, V), NEW batch \in Rows(R, V \cup {Remove}),
         Remove \notin V
  PROVE  /\ Written(column, batch) \in Rows(R, V)
         /\ WrittenOf(Written(column, batch), column, batch)
  <1> DEFINE w == Written(column, batch)
             all == Overwrite(column, batch)
  <1>1. /\ column \in [DOMAIN column -> V] /\ DOMAIN column \subseteq R
        /\ batch \in [DOMAIN batch -> V \cup {Remove}] /\ DOMAIN batch \subseteq R
    BY RowsIs
  <1>2. /\ DOMAIN all = DOMAIN column \cup DOMAIN batch
        /\ \A r \in DOMAIN all : all[r] = IF r \in DOMAIN batch THEN batch[r] ELSE column[r]
    BY DEF Overwrite
  <1>3. w = [row \in {r \in DOMAIN all : all[r] # Remove} |-> all[row]]
    BY DEF Written
  <1> HIDE DEF w, all
  <1>4. DOMAIN w = {r \in DOMAIN all : all[r] # Remove} /\ \A r \in DOMAIN w : w[r] = all[r]
    BY <1>3
  <1>5. \A r \in DOMAIN column : column[r] # Remove
    BY <1>1
  <1>6. \A r : r \in DOMAIN w <=> \/ r \in DOMAIN batch /\ batch[r] # Remove
                                  \/ r \in DOMAIN column \ DOMAIN batch
    BY <1>2, <1>4, <1>5
  <1>7. \A r \in DOMAIN w : w[r] = IF r \in DOMAIN batch THEN batch[r] ELSE column[r]
    BY <1>2, <1>4
  <1>8. w \in [DOMAIN w -> V]
    <2>1. \A r \in DOMAIN w : w[r] \in V
      BY <1>1, <1>6, <1>7
    <2> QED BY <1>3, <1>4, <2>1
  <1>9. DOMAIN w \subseteq R
    BY <1>1, <1>6
  <1>10. w \in Rows(R, V)
    BY <1>8, <1>9, RowsIs
  <1> QED BY <1>6, <1>7, <1>10 DEF w, WrittenOf

(***************************************************************************)
(* The rows that the trees update                                          *)
(***************************************************************************)
\* The nodes in memory are nodes of the tree.
OverlayInv == \A i \in Identifiers : overlay[i] \subseteq NodePaths(leaves[i])

\* The types, and what they rest on.
TInv == TypeOK /\ OverlayInv

TrieUpdatesOf(i, u) ==
    /\ DOMAIN u = death_row[i] \cup {TrieRow(i, p) : p \in overlay[i]}
    /\ \A p \in overlay[i] : u[TrieRow(i, p)] = EncodeNode(StoredTrie(leaves[i])[p])
    /\ \A r \in DOMAIN u : r \notin {TrieRow(i, p) : p \in overlay[i]} => u[r] = Remove

LEMMA TrieUpdatesIs ==
  ASSUME TInv, NEW i \in Identifiers
  PROVE  /\ TrieUpdates(i) \in Rows(Seq(Nat), NodeRow \cup {Remove})
         /\ TrieUpdatesOf(i, TrieUpdates(i))
  <1> DEFINE u == TrieUpdates(i)
             new == StoredTrie(leaves[i])
             written == {TrieRow(i, p) : p \in overlay[i]}
             At(row) == CHOOSE p \in overlay[i] : TrieRow(i, p) = row
  <1>1. /\ leaves[i] \in [Key -> Felt \cup {None}] /\ overlay[i] \subseteq Path
        /\ death_row[i] \subseteq Seq(Nat) /\ \A p \in overlay[i] : HasNode(leaves[i], p)
    BY DEF TInv, TypeOK, OverlayInv, NodePaths
  <1>2. u = [row \in death_row[i] \cup written |->
                IF row \in written THEN EncodeNode(new[At(row)]) ELSE Remove]
    BY DEF TrieUpdates
  <1>3. ASSUME NEW p \in overlay[i] PROVE At(TrieRow(i, p)) = p
    <2> DEFINE q == At(TrieRow(i, p))
    <2>1. q \in overlay[i] /\ TrieRow(i, q) = TrieRow(i, p)
      OBVIOUS
    <2> HIDE DEF q
    <2>2. q = p
      BY <1>1, <2>1, TrieRowInjective
    <2> QED BY <2>2 DEF q
  <1>4. \A p \in overlay[i] : EncodeNode(new[p]) \in NodeRow
    BY <1>1, DecodeEncodeNode
  <1>5. \A p \in overlay[i] : TrieRow(i, p) \in Seq(Nat)
    BY <1>1, TrieRowType
  <1> HIDE DEF u, new, At
  <1>6. DOMAIN u = death_row[i] \cup written
    BY <1>2
  <1>7. ASSUME NEW p \in overlay[i] PROVE u[TrieRow(i, p)] = EncodeNode(new[p])
    <2>1. TrieRow(i, p) \in written
      OBVIOUS
    <2> QED BY <1>2, <1>3, <2>1
  <1>8. ASSUME NEW r \in DOMAIN u, r \notin written PROVE u[r] = Remove
    BY <1>2, <1>6, <1>8
  <1>9. ASSUME NEW r \in DOMAIN u PROVE u[r] \in NodeRow \cup {Remove}
    <2>1. CASE r \in written
      <3>1. PICK p \in overlay[i] : r = TrieRow(i, p)
        BY <2>1
      <3> QED BY <1>4, <1>7, <3>1
    <2>2. CASE r \notin written
      BY <1>8, <2>2
    <2> QED BY <2>1, <2>2
  <1>10. u \in Rows(Seq(Nat), NodeRow \cup {Remove})
    <2>1. u \in [DOMAIN u -> NodeRow \cup {Remove}]
      BY <1>2, <1>6, <1>9
    <2>2. DOMAIN u \subseteq Seq(Nat)
      BY <1>1, <1>5, <1>6
    <2> QED BY <2>1, <2>2, RowsIs
  <1>11. TrieUpdatesOf(i, u)
    BY <1>6, <1>7, <1>8 DEF TrieUpdatesOf, new
  <1> QED BY <1>10, <1>11 DEF u

FlatUpdatesOf(i, u) ==
    /\ DOMAIN u = {FlatRow(i, k) : k \in {x \in Key : cache_leaf_modified[i][x] # None}}
    /\ \A k \in Key : cache_leaf_modified[i][k] # None =>
          u[FlatRow(i, k)] = cache_leaf_modified[i][k]

LEMMA FlatUpdatesIs ==
  ASSUME TInv, NEW i \in Identifiers
  PROVE  /\ FlatUpdates(i) \in Rows(Seq(Nat), Felt \cup {Remove})
         /\ FlatUpdatesOf(i, FlatUpdates(i))
  <1> DEFINE u == FlatUpdates(i)
             c == cache_leaf_modified[i]
             modified == {k \in Key : c[k] # None}
             Of(row) == CHOOSE k \in modified : FlatRow(i, k) = row
  <1>1. c \in [Key -> Felt \cup {None, Remove}]
    BY DEF TInv, TypeOK
  <1>2. u = [row \in {FlatRow(i, k) : k \in modified} |-> c[Of(row)]]
    BY DEF FlatUpdates
  <1> HIDE DEF u, c
  <1>3. ASSUME NEW k \in modified PROVE Of(FlatRow(i, k)) = k
    <2> DEFINE l == Of(FlatRow(i, k))
    <2>1. l \in modified /\ FlatRow(i, l) = FlatRow(i, k)
      OBVIOUS
    <2> HIDE DEF l
    <2>2. TrieRow(i, l) = TrieRow(i, k) /\ l \in Path /\ k \in Path
      BY <2>1, FlatRowIs, KeyInPath
    <2>3. l = k
      BY <2>2, TrieRowInjective
    <2> QED BY <2>3 DEF l
  <1>4. ASSUME NEW k \in modified PROVE u[FlatRow(i, k)] = c[k]
    <2> HIDE DEF modified, Of
    <2>1. FlatRow(i, k) \in {FlatRow(i, x) : x \in modified}
      OBVIOUS
    <2>2. u[FlatRow(i, k)] = c[Of(FlatRow(i, k))]
      BY <1>2, <2>1
    <2> QED BY <1>3, <2>2
  <1>5. DOMAIN u = {FlatRow(i, k) : k \in modified}
    BY <1>2
  <1>6. ASSUME NEW r \in DOMAIN u PROVE u[r] \in Felt \cup {Remove} /\ r \in Seq(Nat)
    <2>1. PICK k \in modified : r = FlatRow(i, k)
      BY <1>5
    <2>2. c[k] \in Felt \cup {Remove}
      BY <1>1, <2>1
    <2> QED BY <1>4, <2>1, <2>2, FlatRowIs
  <1>7. u \in Rows(Seq(Nat), Felt \cup {Remove})
    <2>1. u \in [DOMAIN u -> Felt \cup {Remove}]
      BY <1>2, <1>5, <1>6
    <2> QED BY <1>6, <2>1, RowsIs
  <1>8. FlatUpdatesOf(i, u)
    BY <1>4, <1>5 DEF FlatUpdatesOf, c
  <1> QED BY <1>7, <1>8 DEF u

LEMMA DeepestIs ==
  ASSUME NEW S \in SUBSET Path, S # {}
  PROVE  Deepest(S) \in S /\ \A q \in S : Len(q) <= Len(Deepest(S))
  BY LongestPath DEF Deepest

\* On the way to a key, paths of the same length are the same.
LEMMA DeepestOf ==
  ASSUME NEW key \in Key, NEW S \in SUBSET Path, \A q \in S : IsPrefixOf(q, key),
         NEW x \in S, \A q \in S : Len(q) <= Len(x)
  PROVE  Deepest(S) = x
  <1>1. PICK d \in S : d = Deepest(S) /\ Len(x) <= Len(d)
    BY DeepestIs
  <1>2. d \in Path /\ x \in Path /\ key \in Path /\ Len(d) <= Len(x)
    BY <1>1, KeyInPath
  <1>3. IsPrefixOf(d, x)
    BY <1>1, <1>2, PrefixOfBoth
  <1>4. Len(d) >= Len(x)
    BY <1>1, <1>2, PathLen
  <1>5. d = x
    BY <1>2, <1>3, <1>4, PrefixSame
  <1> QED BY <1>1, <1>5

\* The row that a split puts on the death row.
LEMMA SplitRowIs ==
  ASSUME NEW m \in [Key -> Felt \cup {None}], NEW key \in Key
  PROVE  /\ SplitRow(m, key) \subseteq Seq(Nat)
         /\ \A r \in SplitRow(m, key) : \E q \in Path : r = bitslice_to_bytes(q)
  <1>1. CASE m[key] = None /\ m # NoLeaves
    <2>1. PICK k \in Key : m[k] # None
      BY <1>1 DEF NoLeaves
    <2>2. k \in Seq(Bit) /\ key \in Seq(Bit)
      BY KeySeq
    <2>3. HasNode(m, << >>)
      <3>1. k \in Through(m, << >>)
        BY <2>1, <2>2, EmptyPrefix DEF Through
      <3> QED BY <3>1, MaxHeightAssumption DEF HasNode
    <2>4. << >> \in NodesTo(m, key)
      BY <2>2, <2>3, RootInPath, EmptyPrefix DEF NodesTo
    <2>5. NodesTo(m, key) \in SUBSET Path
      BY DEF NodesTo
    <2>8. PICK q \in Path : q = Deepest(NodesTo(m, key))
      BY <2>4, <2>5, DeepestIs
    <2>9. bitslice_to_bytes(q) \in Seq(Nat)
      BY PathSeq, EncodePathIs DEF bitslice_to_bytes
    <2>10. SplitRow(m, key) = {bitslice_to_bytes(q)}
      BY <1>1, <2>8 DEF SplitRow
    <2> QED BY <2>9, <2>10
  <1>2. CASE ~(m[key] = None /\ m # NoLeaves)
    BY <1>2 DEF SplitRow
  <1> QED BY <1>1, <1>2

(***************************************************************************)
(* What delete_leaf puts on the death row are the nodes that go.           *)
(***************************************************************************)
\* The path where a key parts from the others.
LEMMA PartingExists ==
  ASSUME NEW m, NEW n, NEW key \in Key, m[key] # None, n[key] = None,
         \A k \in Key : k # key => m[k] = n[k], NEW other \in Key, n[other] # None
  PROVE  \E b : Parting(n, m, key, b)
  <1> DEFINE S == {p \in Path : IsPrefixOf(p, key) /\ Through(n, p) # {}}
  <1>1. key \in Path /\ Len(key) = MaxHeight /\ key \in Seq(Bit) /\ other \in Seq(Bit)
    BY KeySeq, KeyInPath
  <1>2. << >> \in S
    BY <1>1, RootInPath, EmptyPrefix DEF Through
  <1>3. PICK b \in S : \A o \in S : Len(o) <= Len(b)
    <2> HIDE DEF S
    <2>1. S \in SUBSET Path
      BY DEF S
    <2> QED BY <1>2, <2>1, LongestPath
  <1>4. b \in Path /\ IsPrefixOf(b, key) /\ Through(n, b) # {} /\ Len(b) \in Nat /\ Len(b) <= MaxHeight
    BY <1>3, PathLen
  <1>5. Len(b) < MaxHeight
    <2>1. SUFFICES ASSUME Len(b) >= MaxHeight PROVE FALSE
      BY <1>4, MaxHeightAssumption
    <2>2. b = key
      BY <1>1, <1>4, <2>1, PrefixSame
    <2>3. PICK k \in Key : n[k] # None /\ IsPrefixOf(key, k)
      BY <1>4, <2>2 DEF Through
    <2>4. k \in Path /\ Len(k) = MaxHeight
      BY KeySeq, KeyInPath
    <2>5. Len(key) >= Len(k)
      BY <1>1, <2>4, MaxHeightAssumption
    <2>6. key = k
      BY <1>1, <2>3, <2>4, <2>5, PrefixSame
    <2> QED BY <2>3, <2>6
  <1>6. PICK c \in Bit : c = key[Len(b) + 1] /\ IsPrefixOf(Append(b, c), key)
    <2>1. Len(b) < Len(key)
      BY <1>1, <1>5
    <2> QED BY <1>1, <1>4, <2>1, NextBit
  <1>7. Append(b, c) \in Path /\ Len(Append(b, c)) = Len(b) + 1
    BY <1>4, <1>5, AppendPath
  <1>8. Through(n, Append(b, c)) = {}
    <2>1. SUFFICES ASSUME Through(n, Append(b, c)) # {} PROVE FALSE
      OBVIOUS
    <2>2. Append(b, c) \in S
      BY <1>6, <1>7, <2>1
    <2>3. Len(Append(b, c)) <= Len(b)
      BY <1>3, <2>2
    <2> QED BY <1>4, <1>7, <2>3
  <1>9. \A k \in Key : m[k] # None <=> n[k] # None \/ k = key
    OBVIOUS
  <1>10. Through(n, Toward(key, b)) = {}
    BY <1>6, <1>8 DEF Toward
  <1> QED BY <1>4, <1>5, <1>9, <1>10 DEF Parting

LEMMA NodesToIs ==
  ASSUME NEW n, NEW m, NEW key, NEW b, Parting(n, m, key, b)
  PROVE  /\ b \in NodesTo(m, key)
         /\ Toward(key, b) \in NodesTo(m, key) <=> Len(Toward(key, b)) < MaxHeight
         /\ \A p \in NodesTo(m, key) : p = Toward(key, b) \/ IsPrefixOf(p, b)
         /\ NodesTo(m, key) \in SUBSET Path
         /\ \A p \in NodesTo(m, key) : IsPrefixOf(p, key)
         /\ ~IsPrefixOf(Toward(key, b), b)
  <1> DEFINE t == Toward(key, b)
             a == Away(key, b)
  <1>1. /\ key \in Path /\ b \in Path /\ t \in Path /\ Len(b) \in Nat /\ Len(t) = Len(b) + 1
        /\ IsPrefixOf(t, key) /\ ~IsPrefixOf(a, key)
    BY Turns
  <1>2. IsPrefixOf(b, key)
    BY DEF Parting
  <1>3. ~IsPrefixOf(t, b)
    <2>1. SUFFICES ASSUME IsPrefixOf(t, b) PROVE FALSE
      OBVIOUS
    <2>2. Len(t) <= Len(b)
      BY <1>1, <2>1, PrefixLen
    <2> QED BY <1>1, <2>2
  <1>4. HasNode(m, b) /\ (HasNode(m, t) <=> Len(t) < MaxHeight)
    <2>1. HasNode(m, b)
      BY <1>1, HasNodeMore
    <2>2. HasNode(m, t) <=> HasNode(n, t) \/ t = b \/ (t \in {t, a} /\ Len(t) < MaxHeight)
      BY <1>1, HasNodeMore
    <2>3. ~HasNode(n, t) /\ t # b
      BY <1>1, HasNodeMore
    <2> QED BY <2>1, <2>2, <2>3
  <1>5. ASSUME NEW p \in NodesTo(m, key) PROVE p = t \/ IsPrefixOf(p, b)
    <2>1. p \in Path /\ IsPrefixOf(p, key) /\ HasNode(m, p)
      BY DEF NodesTo
    <2>2. SUFFICES ASSUME IsPrefixOf(t, p) PROVE p = t
      BY <2>1, AboveOrBeyond
    <2>3. ~HasNode(n, p)
      BY <2>1, <2>2, AloneBeyond DEF HasNode
    <2>4. p # b /\ p # a
      BY <1>1, <1>3, <2>1, <2>2
    <2>5. p = b \/ p \in {t, a}
      BY <2>1, <2>3, HasNodeMore
    <2> QED BY <2>4, <2>5
  <1> QED BY <1>1, <1>2, <1>3, <1>4, <1>5 DEF NodesTo

\* The edge to the leaf is what is beyond the branch.
LEMMA FinalEdgeIs ==
  ASSUME NEW n, NEW m, NEW key, NEW b, Parting(n, m, key, b)
  PROVE  /\ FinalEdge(m, key) = {p \in {Toward(key, b)} : Len(p) < MaxHeight}
         /\ BranchNodes(m, key) = {p \in NodesTo(m, key) : IsPrefixOf(p, b)}
         /\ b \in BranchNodes(m, key) /\ Branch(m, key) = b /\ Sibling(m, key) = Away(key, b)
  <1> DEFINE t == Toward(key, b)
             W == NodesTo(m, key)
             R == BranchNodes(m, key)
  <1>1. /\ b \in Path /\ t \in Path /\ Len(b) \in Nat /\ Len(t) = Len(b) + 1 /\ IsPrefixOf(b, t)
    BY Turns
  <1>2. /\ b \in W /\ (t \in W <=> Len(t) < MaxHeight) /\ W \in SUBSET Path
        /\ \A p \in W : IsPrefixOf(p, key)
        /\ \A p \in W : p = t \/ IsPrefixOf(p, b)
        /\ ~IsPrefixOf(t, b)
    BY NodesToIs
  <1>3. key \in Key
    BY DEF Parting
  <1>4. \A p \in Path : IsPrefixOf(p, b) => Len(p) \in Nat /\ Len(p) <= Len(b)
    BY <1>1, PrefixLen
  <1> HIDE DEF W
  <1>5. ASSUME Len(t) < MaxHeight PROVE FinalEdge(m, key) = {t}
    <2>1. Deepest(W) = t
      <3>1. \A q \in W : Len(q) <= Len(t)
        BY <1>1, <1>2, <1>4
      <3>2. t \in W
        BY <1>2, <1>5
      <3> QED BY <1>2, <1>3, <3>1, <3>2, DeepestOf
    <2>2. HasNode(m, t)
      BY <1>2, <1>5 DEF W, NodesTo
    <2>3. ~Branches(m, t)
      BY EdgeToKey
    <2> QED BY <1>2, <1>5, <2>1, <2>2, <2>3 DEF FinalEdge, IsEdgeAt, W
  <1>6. ASSUME ~(Len(t) < MaxHeight) PROVE FinalEdge(m, key) = {}
    <2>1. t \notin W
      BY <1>2, <1>6
    <2>2. Deepest(W) = b
      <3>1. \A q \in W : Len(q) <= Len(b)
        BY <1>2, <1>4, <2>1
      <3> QED BY <1>2, <1>3, <3>1, DeepestOf
    <2>3. Branches(m, b)
      BY BranchesMore
    <2> QED BY <2>2, <2>3 DEF FinalEdge, IsEdgeAt, W
  <1>7. FinalEdge(m, key) = {p \in {t} : Len(p) < MaxHeight}
    BY <1>5, <1>6
  <1>8. R = {p \in W : IsPrefixOf(p, b)}
    <2>1. R = W \ FinalEdge(m, key)
      BY DEF BranchNodes, W
    <2> QED BY <1>2, <1>7, <2>1
  <1>9. b \in R
    BY <1>1, <1>2, <1>8, PrefixRefl
  <1> HIDE DEF R
  <1>10. Deepest(R) = b
    <2>1. R \in SUBSET Path /\ \A q \in R : IsPrefixOf(q, key)
      BY <1>2, <1>8
    <2>2. \A q \in R : Len(q) <= Len(b)
      BY <1>2, <1>4, <1>8
    <2> QED BY <1>3, <1>9, <2>1, <2>2, DeepestOf
  <1>11. Branch(m, key) = b
    BY <1>10 DEF Branch, R
  <1>12. Sibling(m, key) = Away(key, b)
    BY <1>11 DEF Sibling, Away
  <1> QED BY <1>7, <1>8, <1>9, <1>11, <1>12 DEF W, R

\* The branch goes if the node above it is an edge.
LEMMA BranchGoes ==
  ASSUME NEW n, NEW m, NEW key, NEW b, Parting(n, m, key, b),
         NEW P, P = {p \in NodesTo(m, key) : IsPrefixOf(p, b)} \ {b}
  PROVE  (P # {} /\ IsEdgeAt(m, Deepest(P))) <=> ~HasNode(n, b)
  <1>1. /\ key \in Path /\ b \in Path /\ Len(b) \in Nat /\ Len(b) < MaxHeight /\ key \in Key
        /\ IsPrefixOf(b, key) /\ Through(n, b) # {}
    BY Turns DEF Parting
  <1>2. P \in SUBSET Path /\ \A q \in P : IsPrefixOf(q, key) /\ HasNode(m, q) /\ IsPrefixOf(q, b) /\ q # b
    BY DEF NodesTo
  <1>3. ASSUME NEW q \in P PROVE Len(q) \in Nat /\ Len(q) < Len(b)
    <2>1. q \in Path /\ IsPrefixOf(q, b) /\ q # b
      BY <1>2
    <2>2. Len(q) \in Nat /\ Len(q) <= Len(b)
      BY <1>1, <2>1, PrefixLen
    <2>3. ~(Len(q) >= Len(b))
      BY <1>1, <2>1, PrefixSame
    <2> QED BY <1>1, <2>2, <2>3
  <1>4. HasNode(m, b) /\ (HasNode(n, b) <=> b = << >> \/ Branches(n, Parent(b)))
    BY <1>1, HasNodeMore
  <1>5. CASE b = << >>
    <2>1. P = {}
      <3>1. Len(b) = 0
        BY <1>5
      <3> QED BY <1>3, <3>1
    <2> QED BY <1>4, <1>5, <2>1
  <1>6. CASE b # << >>
    <2> DEFINE x == Parent(b)
    <2>1. x \in Path /\ Len(x) + 1 = Len(b) /\ IsPrefixOf(x, b) /\ Len(x) \in Nat /\ x # b
      <3>1. x \in Path /\ Len(x) + 1 = Len(b) /\ IsPrefixOf(x, b)
        BY <1>1, <1>6, ParentPathIs
      <3>2. Len(x) \in Nat
        BY <3>1, PathLen
      <3> QED BY <3>1, <3>2
    <2>2. HasNode(n, b) <=> Branches(m, x)
      BY <1>4, <1>6, <2>1, BranchesMore
    <2>3. << >> \in P
      <3>1. HasNode(m, << >>)
        <4>1. Through(m, b) # {}
          BY <1>4 DEF HasNode
        <4> QED BY <1>1, <4>1, RootNode
      <3>2. key \in Seq(Bit) /\ b \in Seq(Bit)
        BY <1>1, PathSeq
      <3>3. IsPrefixOf(<< >>, key) /\ IsPrefixOf(<< >>, b)
        BY <3>2, EmptyPrefix
      <3> QED BY <1>6, <3>1, <3>3, RootInPath DEF NodesTo
    <2> HIDE DEF x
    <2>4. CASE Branches(m, x)
      <3>1. HasNode(m, x)
        <4>1. Len(x) < MaxHeight /\ Through(m, x) # {}
          BY <2>1, <2>4, BranchesIs
        <4> QED BY <2>1, <2>4, <4>1, HasNodeIs
      <3>2. IsPrefixOf(x, key)
        BY <1>1, <2>1, PathPrefixTrans
      <3>3. x \in P
        BY <2>1, <3>1, <3>2 DEF NodesTo
      <3>4. \A q \in P : Len(q) <= Len(x)
        BY <1>1, <1>3, <2>1
      <3>5. Deepest(P) = x
        <4> HIDE DEF IsEdgeAt
        <4> QED BY <1>1, <1>2, <3>3, <3>4, DeepestOf
      <3> QED BY <2>2, <2>4, <3>5 DEF IsEdgeAt
    <2>5. CASE ~Branches(m, x)
      <3>1. PICK d \in P : d = Deepest(P) /\ \A q \in P : Len(q) <= Len(d)
        BY <1>2, <2>3, DeepestIs
      <3>2. d \in Path /\ HasNode(m, d) /\ IsPrefixOf(d, b) /\ d # b /\ Len(d) \in Nat /\ Len(d) < Len(b)
        BY <1>2, <1>3, <3>1
      <3>3. ~Branches(m, d)
        <4>1. SUFFICES ASSUME Branches(m, d) PROVE FALSE
          OBVIOUS
        <4>2. Through(m, b) # {}
          BY <1>4 DEF HasNode
        <4>3. PICK l \in Labels(m, d) : IsPrefixOf(d \o l, b)
          BY <1>1, <1>4, <3>2, <4>2, ArcToward
        <4>4. l \in Directions /\ Len(d) < MaxHeight
          BY <1>1, <3>2, <4>1, MaxHeightAssumption DEF Labels
        <4>5. PICK c \in Bit : d \o l = Append(d, c)
          BY <3>2, <4>4, BranchLabel
        <4>6. PICK y : y = d \o l
          OBVIOUS
        <4>7. y \in Path /\ Len(y) = Len(d) + 1 /\ IsPrefixOf(y, b) /\ y = Append(d, c)
          BY <3>2, <4>3, <4>4, <4>5, <4>6, AppendPath
        <4>8. ArcOf(m, d, l)
          BY <3>2, Arc
        <4>9. y = b
          <5>1. SUFFICES ASSUME y # b PROVE FALSE
            OBVIOUS
          <5>2. ~(Len(y) >= Len(b))
            BY <1>1, <4>7, <5>1, PrefixSame
          <5>3. Len(y) < MaxHeight
            BY <1>1, <3>2, <4>7, <5>2, MaxHeightAssumption
          <5>4. HasNode(m, y)
            BY <4>6, <4>8, <5>3 DEF ArcOf
          <5>5. IsPrefixOf(y, key)
            BY <1>1, <4>7, PathPrefixTrans
          <5>6. y \in P
            BY <4>7, <5>1, <5>4, <5>5 DEF NodesTo
          <5>7. Len(y) <= Len(d)
            BY <3>1, <5>6
          <5> QED BY <3>2, <4>7, <5>7
        <4>10. Parent(b) = d
          BY <3>2, <4>4, <4>7, <4>9, ParentAppend
        <4> QED BY <2>5, <4>1, <4>10 DEF x
      <3> QED BY <2>2, <2>3, <2>5, <3>1, <3>2, <3>3 DEF IsEdgeAt
    <2> QED BY <2>4, <2>5
  <1> QED BY <1>5, <1>6

\* The death row of a deletion: exactly the nodes that the trie loses.
LEMMA DeadIs ==
  ASSUME NEW m, NEW n, NEW key \in Key, m[key] # None, n[key] = None,
         \A k \in Key : k # key => m[k] = n[k]
  PROVE  DeadPaths(m, key) = NodePaths(m) \ NodePaths(n)
  <1>1. CASE \A k \in Key : n[k] = None
    <2>1. \A k \in Key : m[k] # None <=> k = key
      BY <1>1
    <2>2. HasNode(m, << >>) /\ \A p \in Path : ~Branches(m, p)
      BY <2>1, OnlyKey
    <2>3. ASSUME NEW p \in Path, p # << >> PROVE ~HasNode(m, p)
      BY <2>2, <2>3, ParentPathIs, HasNodeIs
    <2>4. \A p : ~HasNode(n, p)
      BY <1>1 DEF HasNode, Through
    <2>5. NodePaths(m) = {<< >>} /\ NodePaths(n) = {}
      BY <2>2, <2>3, <2>4, RootInPath DEF NodePaths
    <2>6. NodesTo(m, key) = {<< >>}
      <3>1. key \in Seq(Bit)
        BY KeySeq
      <3> QED BY <2>2, <2>3, <3>1, RootInPath, EmptyPrefix DEF NodesTo
    <2>7. FinalEdge(m, key) = {<< >>}
      <3>1. Deepest({<< >>}) = << >>
        BY DEF Deepest
      <3> QED BY <2>2, <2>6, <3>1, RootInPath DEF FinalEdge, IsEdgeAt
    <2>8. BranchNodes(m, key) = {}
      BY <2>6, <2>7 DEF BranchNodes
    <2> QED BY <2>5, <2>8 DEF DeadPaths
  <1>2. CASE \E k \in Key : n[k] # None
    <2>1. PICK b : Parting(n, m, key, b)
      BY <1>2, PartingExists
    <2> DEFINE t == Toward(key, b)
               a == Away(key, b)
    <2>2. /\ t \in Path /\ a \in Path /\ b \in Path /\ Len(b) \in Nat /\ Len(b) < MaxHeight
          /\ Len(t) = Len(b) + 1 /\ Len(a) = Len(b) + 1
      BY <2>1, Turns
    <2>3. /\ FinalEdge(m, key) = {p \in {t} : Len(p) < MaxHeight}
          /\ BranchNodes(m, key) = {p \in NodesTo(m, key) : IsPrefixOf(p, b)}
          /\ b \in BranchNodes(m, key) /\ Branch(m, key) = b /\ Sibling(m, key) = a
      BY <2>1, FinalEdgeIs
    <2>4. PICK P : P = BranchNodes(m, key) \ {b}
      OBVIOUS
    <2>5. (P # {} /\ IsEdgeAt(m, Deepest(P))) <=> ~HasNode(n, b)
      <3>1. P = {p \in NodesTo(m, key) : IsPrefixOf(p, b)} \ {b}
        BY <2>3, <2>4
      <3> QED BY <2>1, <3>1, BranchGoes
    <2> HIDE DEF t, a
    <2>6. DeadPaths(m, key) = {p \in {t} : Len(p) < MaxHeight}
                \cup {p \in {a} : IsEdgeAt(m, p)} \cup {p \in {b} : ~HasNode(n, p)}
      <3>1. BranchNodes(m, key) # {}
        BY <2>3
      <3>2. DeadPaths(m, key) = FinalEdge(m, key)
                 \cup {p \in {Sibling(m, key)} : IsEdgeAt(m, p)}
                 \cup (IF P # {} /\ IsEdgeAt(m, Deepest(P)) THEN {b} ELSE {})
        BY <2>3, <2>4, <3>1 DEF DeadPaths
      <3> QED BY <2>3, <2>5, <3>2
    <2>7. ASSUME NEW p \in Path
          PROVE  HasNode(m, p) <=> \/ HasNode(n, p) \/ p = b
                                   \/ p \in {t, a} /\ Len(p) < MaxHeight
      BY <2>1, HasNodeMore DEF t, a
    <2>8. ~HasNode(n, t) /\ (HasNode(n, a) <=> Branches(n, a))
      BY <2>1, <2>2, HasNodeMore DEF t, a
    <2>9. Branches(m, a) <=> Branches(n, a)
      BY <2>1, <2>2, BranchesMore
    <2>10. IsEdgeAt(m, a) <=> Len(a) < MaxHeight /\ ~HasNode(n, a)
      <3>1. a # b
        BY <2>2
      <3> QED BY <2>2, <2>7, <2>8, <2>9, <3>1 DEF IsEdgeAt
    <2> HIDE DEF IsEdgeAt
    <2> QED BY <2>2, <2>6, <2>7, <2>8, <2>10 DEF NodePaths
  <1> QED BY <1>1, <1>2

\* Whatever the key, the paths put on the death row are paths.
LEMMA DeadPathsType ==
  ASSUME NEW m, NEW key \in Key
  PROVE  DeadPaths(m, key) \subseteq Path
  <1>1. NodesTo(m, key) \subseteq Path /\ \A p \in NodesTo(m, key) : Len(p) < MaxHeight
    BY DEF NodesTo, HasNode
  <1>2. FinalEdge(m, key) \subseteq Path
    BY <1>1 DEF FinalEdge
  <1>3. CASE BranchNodes(m, key) = {}
    BY <1>3, RootInPath DEF DeadPaths
  <1>4. CASE BranchNodes(m, key) # {}
    <2>1. PICK b \in Path : b = Branch(m, key) /\ Len(b) < MaxHeight
      <3>1. BranchNodes(m, key) \in SUBSET Path /\ \A p \in BranchNodes(m, key) : Len(p) < MaxHeight
        BY <1>1 DEF BranchNodes
      <3> QED BY <1>4, <3>1, DeepestIs DEF Branch
    <2>2. Sibling(m, key) \in Path
      <3>1. Len(b) + 1 \in 1..MaxHeight
        BY <2>1, PathLen, MaxHeightAssumption
      <3>2. key[Len(b) + 1] \in Bit
        BY <3>1 DEF Key
      <3>3. Invert(key[Len(b) + 1]) \in Bit
        BY <3>2 DEF Bit, Invert
      <3> QED BY <2>1, <3>3, AppendPath DEF Sibling
    <2> QED BY <1>2, <1>4, <2>1, <2>2 DEF DeadPaths
  <1> QED BY <1>3, <1>4

(***************************************************************************)
(* Types                                                                   *)
(***************************************************************************)
Leaf == Felt \cup {None}

LEMMA ClientInput ==
  ASSUME NEW i \in Identifiers, NEW key \in Keys[i]
  PROVE  key \in Key
  BY KeysAssumption

LEMMA ValueIs == \A v \in Values : v \in Felt /\ v # None /\ v # Remove
  BY ValuesAssumption, OptionAssumption, RemoveAssumption

LEMMA NoTreesType ==
  /\ NoTrees \in [Identifiers -> [Key -> Leaf]]
  /\ NoTrees \in [Identifiers -> [Key -> Felt \cup {None, Remove}]]
  BY DEF NoTrees, NoLeaves, Leaf

LEMMA InitTInv == Init => TInv
  <1> SUFFICES ASSUME Init PROVE TInv
    OBVIOUS
  <1>1. DOMAIN NoRows = {} /\ NoRows \in [DOMAIN NoRows -> NodeRow]
                           /\ NoRows \in [DOMAIN NoRows -> Felt]
    BY DEF NoRows
  <1>2. TypeOK
    BY <1>1, NoTreesType DEF Init, TypeOK, Leaf
  <1>3. OverlayInv
    BY DEF Init, OverlayInv
  <1> QED BY <1>2, <1>3 DEF TInv

\* The types of a tree whose leaf changes in the trie.
LEMMA WriteTInv ==
  ASSUME TInv, NEW i \in Identifiers, NEW key \in Key, NEW v \in Leaf, NEW c \in Felt \cup {None, Remove},
         NEW dead, dead \subseteq Seq(Nat),
         leaves' = [leaves EXCEPT ![i][key] = v],
         overlay' = [overlay EXCEPT ![i] = InMemoryAfter(i, key, leaves'[i])],
         cache_leaf_modified' = [cache_leaf_modified EXCEPT ![i][key] = c],
         death_row' = [death_row EXCEPT ![i] = @ \cup dead],
         UNCHANGED <<columns, committed>>
  PROVE  TInv'
  <1>1. leaves' \in [Identifiers -> [Key -> Leaf]]
    BY DEF TInv, TypeOK, Leaf
  <1>2. cache_leaf_modified' \in [Identifiers -> [Key -> Felt \cup {None, Remove}]]
    BY DEF TInv, TypeOK
  <1>3. InMemoryAfter(i, key, leaves'[i]) \subseteq NodePaths(leaves'[i])
    BY DEF InMemoryAfter
  <1>4. ASSUME NEW j \in Identifiers
        PROVE  overlay'[j] \subseteq NodePaths(leaves'[j]) /\ overlay'[j] \subseteq Path
    <2>1. CASE j = i
      <3>1. overlay'[j] = InMemoryAfter(i, key, leaves'[i])
        BY <2>1 DEF TInv, TypeOK
      <3> QED BY <1>3, <2>1, <3>1 DEF NodePaths
    <2>2. CASE j # i
      <3>1. overlay'[j] = overlay[j] /\ leaves'[j] = leaves[j]
        BY <2>2 DEF TInv, TypeOK
      <3> QED BY <3>1 DEF TInv, TypeOK, OverlayInv
    <2> QED BY <2>1, <2>2
  <1>5. overlay' \in [Identifiers -> SUBSET Path]
    <2>1. overlay' = [j \in Identifiers |-> overlay'[j]]
      BY DEF TInv, TypeOK
    <2> QED BY <1>4, <2>1
  <1>6. DOMAIN death_row' = Identifiers /\ \A j \in Identifiers : death_row'[j] \subseteq Seq(Nat)
    BY DEF TInv, TypeOK
  <1>7. TypeOK'
    BY <1>1, <1>2, <1>5, <1>6 DEF TInv, TypeOK, columns, Leaf
  <1> QED BY <1>4, <1>7 DEF TInv, OverlayInv

LEMMA UnloadTInv ==
  ASSUME TInv, Unload, leaves' \in [Identifiers -> [Key -> Leaf]],
         committed' \in [Identifiers -> [Key -> Leaf]],
         trie_column' \in Rows(Seq(Nat), NodeRow), flat_column' \in Rows(Seq(Nat), Felt)
  PROVE  TInv'
  <1>1. /\ DOMAIN trie_column' \subseteq Seq(Nat) /\ trie_column' \in [DOMAIN trie_column' -> NodeRow]
        /\ DOMAIN flat_column' \subseteq Seq(Nat) /\ flat_column' \in [DOMAIN flat_column' -> Felt]
    BY RowsIs
  <1>2. TypeOK'
    BY <1>1, NoTreesType DEF Unload, TypeOK, Leaf
  <1>3. OverlayInv'
    BY DEF Unload, OverlayInv
  <1> QED BY <1>2, <1>3 DEF TInv

LEMMA ColumnRows ==
  ASSUME TInv
  PROVE  trie_column \in Rows(Seq(Nat), NodeRow) /\ flat_column \in Rows(Seq(Nat), Felt)
  BY RowsIs DEF TInv, TypeOK

\* What a commit does to the two columns.
Committed(column, next, updates) ==
    \E batch : BatchOf(batch, updates) /\ WrittenOf(next, column, batch)

LEMMA CommitColumns ==
  ASSUME TInv, NEW order \in Orders, Commit(order)
  PROVE  /\ trie_column' \in Rows(Seq(Nat), NodeRow)
         /\ flat_column' \in Rows(Seq(Nat), Felt)
         /\ Committed(trie_column, trie_column', [i \in Identifiers |-> TrieUpdates(i)])
         /\ Committed(flat_column, flat_column', [i \in Identifiers |-> FlatUpdates(i)])
  <1> DEFINE tu == [i \in Identifiers |-> TrieUpdates(i)]
             fu == [i \in Identifiers |-> FlatUpdates(i)]
             R == Seq(Nat)
             NV == NodeRow \cup {Remove}
             FV == Felt \cup {Remove}
  <1>1. tu \in [Identifiers -> Rows(R, NV)] /\ fu \in [Identifiers -> Rows(R, FV)]
    BY TrieUpdatesIs, FlatUpdatesIs
  <1>2. /\ trie_column' = Written(trie_column, Batch(order, tu))
        /\ flat_column' = Written(flat_column, Batch(order, fu))
    BY DEF Commit
  <1> HIDE DEF tu, fu
  <1>3. PICK tb \in Rows(R, NV) : tb = Batch(order, tu) /\ BatchOf(tb, tu)
    <2> HIDE DEF R, NV
    <2>1. Batch(order, tu) \in Rows(R, NV) /\ BatchOf(Batch(order, tu), tu)
      BY <1>1, BatchIs, Zenon
    <2> QED BY <2>1
  <1>4. PICK fb \in Rows(R, FV) : fb = Batch(order, fu) /\ BatchOf(fb, fu)
    <2> HIDE DEF R, FV
    <2>1. Batch(order, fu) \in Rows(R, FV) /\ BatchOf(Batch(order, fu), fu)
      BY <1>1, BatchIs, Zenon
    <2> QED BY <2>1
  <1>5. /\ trie_column \in Rows(R, NodeRow) /\ flat_column \in Rows(R, Felt)
        /\ Remove \notin NodeRow /\ Remove \notin Felt
    BY ColumnRows, RemoveAssumption
  <1>6. /\ Written(trie_column, tb) \in Rows(R, NodeRow)
        /\ WrittenOf(Written(trie_column, tb), trie_column, tb)
    BY <1>5, WrittenIs, Zenon
  <1>7. /\ Written(flat_column, fb) \in Rows(R, Felt)
        /\ WrittenOf(Written(flat_column, fb), flat_column, fb)
    BY <1>5, WrittenIs, Zenon
  <1>8. /\ Committed(trie_column, trie_column', tu)
        /\ Committed(flat_column, flat_column', fu)
    BY <1>2, <1>3, <1>4, <1>6, <1>7 DEF Committed
  <1> QED BY <1>2, <1>3, <1>4, <1>6, <1>7, <1>8 DEF tu, fu

\* A seek that fails only loads nodes.
LEMMA SeekFailsLoads ==
  ASSUME TInv, NEW i \in Identifiers, NEW key, SeekFails(i, key)
  PROVE  \E above : /\ above \subseteq NodePaths(leaves[i]) /\ above \subseteq Path
                    /\ overlay' = [overlay EXCEPT ![i] = @ \cup above]
                    /\ \A j \in Identifiers : overlay[j] \subseteq overlay'[j]
  <1>1. PICK p \in NodesTo(leaves[i], key) \ {<< >>} :
           overlay' = [overlay EXCEPT ![i] =
                          @ \cup {q \in NodesTo(leaves[i], key) : Len(q) < Len(p)}]
    BY DEF SeekFails
  <1>2. PICK above : above = {q \in NodesTo(leaves[i], key) : Len(q) < Len(p)}
    OBVIOUS
  <1>3. above \subseteq NodePaths(leaves[i]) /\ above \subseteq Path
    BY <1>2 DEF NodesTo, NodePaths
  <1>4. overlay' = [overlay EXCEPT ![i] = @ \cup above]
    BY <1>1, <1>2
  <1>5. \A j \in Identifiers : overlay[j] \subseteq overlay'[j]
    BY <1>4 DEF TInv, TypeOK
  <1> QED BY <1>3, <1>4, <1>5

LEMMA SeekFailsTInv ==
  ASSUME TInv, NEW i \in Identifiers, NEW key, SeekFails(i, key),
         UNCHANGED <<columns, leaves, death_row, committed>>,
         cache_leaf_modified' \in [Identifiers -> [Key -> Felt \cup {None, Remove}]]
  PROVE  TInv'
  <1>1. PICK above : /\ above \subseteq NodePaths(leaves[i]) /\ above \subseteq Path
                     /\ overlay' = [overlay EXCEPT ![i] = @ \cup above]
    BY SeekFailsLoads
  <1>2. overlay' \in [Identifiers -> SUBSET Path]
    BY <1>1 DEF TInv, TypeOK
  <1>3. OverlayInv'
    BY <1>1 DEF TInv, TypeOK, OverlayInv
  <1>4. TypeOK'
    BY <1>2 DEF TInv, TypeOK, columns
  <1> QED BY <1>3, <1>4 DEF TInv

LEMMA NextTInv == TInv /\ [Next]_vars => TInv'
  <1> SUFFICES ASSUME TInv, [Next]_vars PROVE TInv'
    OBVIOUS
  <1>1. ASSUME NEW i \in Identifiers, NEW key \in Keys[i], NEW value \in Values,
               SetCached(i, key, value)
        PROVE  TInv'
    <2>1. key \in Key /\ value \in Felt
      BY ClientInput, ValueIs
    <2>2. cache_leaf_modified' \in [Identifiers -> [Key -> Felt \cup {None, Remove}]]
      BY <1>1, <2>1 DEF SetCached, TInv, TypeOK
    <2> QED BY <1>1, <2>2 DEF SetCached, TInv, TypeOK, OverlayInv, columns
  <1>2. ASSUME NEW i \in Identifiers, NEW key \in Keys[i], NEW value \in Values,
               Set(i, key, value)
        PROVE  TInv'
    <2>1. key \in Key /\ value \in Leaf /\ value \in Felt \cup {None, Remove}
      BY ClientInput, ValueIs DEF Leaf
    <2>2. SplitRow(leaves[i], key) \subseteq Seq(Nat)
      BY <2>1, SplitRowIs DEF TInv, TypeOK
    <2> QED BY <1>2, <2>1, <2>2, WriteTInv DEF Set
  <1>3. ASSUME NEW i \in Identifiers, NEW key \in Keys[i], DeleteLeaf(i, key)
        PROVE  TInv'
    <2>1. key \in Key /\ None \in Leaf /\ Remove \in Felt \cup {None, Remove}
      BY ClientInput DEF Leaf
    <2>2. DeadRows(i, leaves[i], key) \subseteq Seq(Nat)
      BY <2>1, TrieRowType, DeadPathsType DEF DeadRows
    <2>3. PICK dead : dead = DeadRows(i, leaves[i], key)
      OBVIOUS
    <2> QED BY <1>3, <2>1, <2>2, <2>3, WriteTInv DEF DeleteLeaf
  <1>4. ASSUME NEW order \in Orders, Commit(order) PROVE TInv'
    <2>1. /\ leaves' \in [Identifiers -> [Key -> Leaf]] /\ committed' \in [Identifiers -> [Key -> Leaf]]
          /\ Unload
      BY <1>4 DEF Commit, TInv, TypeOK, Leaf
    <2> QED BY <1>4, <2>1, CommitColumns, UnloadTInv
  <1>5. ASSUME LoseChanges PROVE TInv'
    <2>1. /\ leaves' \in [Identifiers -> [Key -> Leaf]] /\ committed' \in [Identifiers -> [Key -> Leaf]]
          /\ Unload /\ trie_column' = trie_column /\ flat_column' = flat_column
      BY <1>5 DEF LoseChanges, TInv, TypeOK, Leaf, columns
    <2> QED BY <2>1, ColumnRows, UnloadTInv
  <1>6. ASSUME UNCHANGED vars PROVE TInv'
    BY <1>6 DEF vars, columns, trees, TInv, TypeOK, OverlayInv
  <1>7. ASSUME NEW i \in Identifiers, NEW key \in Keys[i], NEW value \in Values,
               SetFails(i, key, value)
        PROVE  TInv'
    <2>1. cache_leaf_modified' \in [Identifiers -> [Key -> Felt \cup {None, Remove}]]
      BY <1>7 DEF SetFails, TInv, TypeOK
    <2> QED BY <1>7, <2>1, SeekFailsTInv DEF SetFails
  <1>8. ASSUME NEW i \in Identifiers, NEW key \in Keys[i], DeleteFails(i, key)
        PROVE  TInv'
    <2>1. cache_leaf_modified' \in [Identifiers -> [Key -> Felt \cup {None, Remove}]]
      BY <1>8, ClientInput DEF DeleteFails, TInv, TypeOK
    <2> QED BY <1>8, <2>1, SeekFailsTInv DEF DeleteFails
  <1> QED BY <1>1, <1>2, <1>3, <1>4, <1>5, <1>6, <1>7, <1>8 DEF Next

\* Columns, leaves, caches and death rows keep their types: a removal never
\* reaches a column as a value, and every row that a commit writes is the
\* encoding of a node (MerkleTrees::commit, src/trie/trees.rs).
THEOREM TypeCorrect == Spec => []TypeOK
  <1>1. Spec => []TInv
    BY InitTInv, NextTInv, PTL DEF Spec
  <1>2. TInv => TypeOK
    BY DEF TInv
  <1> QED BY <1>1, <1>2, PTL

(***************************************************************************)
(* No row is left behind.  The inductive invariant: every node committed   *)
(* that the tree has done away with since is on its death row.             *)
(***************************************************************************)
DeathInv ==
    \A i \in Identifiers : \A p \in NodePaths(committed[i]) \ NodePaths(leaves[i]) :
        TrieRow(i, p) \in death_row[i]

StrayInv == TInv /\ DeathInv /\ NoStrayRows

LEMMA InitStrayInv == Init => StrayInv
  <1> SUFFICES ASSUME Init PROVE StrayInv
    OBVIOUS
  <1>1. DeathInv
    BY DEF Init, DeathInv
  <1>2. NoStrayRows
    BY DEF Init, NoStrayRows, NoRows
  <1> QED BY <1>1, <1>2, InitTInv DEF StrayInv

\* What a write does to the trees.
LEMMA TreeWritten ==
  ASSUME TInv, NEW i \in Identifiers, NEW key \in Key, NEW v,
         leaves' = [leaves EXCEPT ![i][key] = v]
  PROVE  /\ \A j \in Identifiers : j # i => leaves'[j] = leaves[j]
         /\ leaves'[i][key] = v
         /\ \A k \in Key : k # key => leaves'[i][k] = leaves[i][k]
  BY DEF TInv, TypeOK

\* A deletion puts the nodes it does away with on the death row, an insertion
\* does away with none.
LEMMA WriteDeath ==
  ASSUME TInv, DeathInv, NEW i \in Identifiers, NEW key \in Key, NEW v, NEW dead,
         leaves' = [leaves EXCEPT ![i][key] = v],
         death_row' = [death_row EXCEPT ![i] = @ \cup dead], UNCHANGED committed,
         \A p \in NodePaths(leaves[i]) \ NodePaths(leaves'[i]) : TrieRow(i, p) \in dead
  PROVE  DeathInv'
  <1> SUFFICES ASSUME NEW j \in Identifiers, NEW p \in NodePaths(committed[j]) \ NodePaths(leaves'[j])
               PROVE  TrieRow(j, p) \in death_row'[j]
    BY DEF DeathInv
  <1>1. DOMAIN death_row = Identifiers
    BY DEF TInv, TypeOK
  <1>2. CASE j = i
    <2>1. death_row'[i] = death_row[i] \cup dead
      BY <1>1
    <2>2. CASE p \in NodePaths(leaves[i])
      BY <1>2, <2>1, <2>2
    <2>3. CASE p \notin NodePaths(leaves[i])
      BY <1>2, <2>1, <2>3 DEF DeathInv
    <2> QED BY <2>2, <2>3
  <1>3. CASE j # i
    <2>1. leaves'[j] = leaves[j] /\ death_row'[j] = death_row[j]
      BY <1>1, <1>3, TreeWritten
    <2> QED BY <2>1 DEF DeathInv
  <1> QED BY <1>2, <1>3

LEMMA SetKeepsNodes ==
  ASSUME TInv, NEW i \in Identifiers, NEW key \in Keys[i], NEW value \in Values, Set(i, key, value)
  PROVE  NodePaths(leaves[i]) \subseteq NodePaths(leaves'[i])
  <1>1. key \in Key /\ value # None
    BY ClientInput, ValueIs
  <1>2. \A k \in Key : leaves[i][k] # None => leaves'[i][k] # None
    BY <1>1, TreeWritten DEF Set
  <1>3. PICK m, n : m = leaves[i] /\ n = leaves'[i]
    OBVIOUS
  <1>4. ASSUME NEW p, HasNode(m, p) PROVE HasNode(n, p)
    BY <1>2, <1>3, <1>4, HasNodeMonotone
  <1> QED BY <1>3, <1>4 DEF NodePaths

\* What a deletion does away with is what it puts on the death row.
LEMMA DeleteBuries ==
  ASSUME TInv, NEW i \in Identifiers, NEW key \in Keys[i], DeleteLeaf(i, key)
  PROVE  /\ \A p \in NodePaths(leaves[i]) \ NodePaths(leaves'[i]) :
               TrieRow(i, p) \in DeadRows(i, leaves[i], key)
         /\ leaves[i][key] # None =>
               DeadPaths(leaves[i], key) = NodePaths(leaves[i]) \ NodePaths(leaves'[i])
  <1>1. key \in Key
    BY ClientInput
  <1>2. leaves'[i][key] = None /\ \A k \in Key : k # key => leaves'[i][k] = leaves[i][k]
    BY <1>1, TreeWritten DEF DeleteLeaf
  <1>3. CASE leaves[i][key] # None
    <2>1. DeadPaths(leaves[i], key) = NodePaths(leaves[i]) \ NodePaths(leaves'[i])
      <3>1. PICK m, n : m = leaves[i] /\ n = leaves'[i]
        OBVIOUS
      <3>2. DeadPaths(m, key) = NodePaths(m) \ NodePaths(n)
        BY <1>1, <1>2, <1>3, <3>1, DeadIs
      <3> QED BY <3>1, <3>2
    <2> QED BY <2>1 DEF DeadRows
  <1>4. CASE leaves[i][key] = None
    <2>1. leaves'[i] = leaves[i]
      BY <1>1, <1>4 DEF DeleteLeaf, TInv, TypeOK
    <2> QED BY <1>4, <2>1
  <1> QED BY <1>3, <1>4

LEMMA CommitStray ==
  ASSUME StrayInv, NEW order \in Orders, Commit(order)
  PROVE  NoStrayRows'
  <1> DEFINE updates == [i \in Identifiers |-> TrieUpdates(i)]
  <1>1. PICK batch : BatchOf(batch, updates) /\ WrittenOf(trie_column', trie_column, batch)
    BY CommitColumns DEF StrayInv, Committed
  <1>2. committed' = leaves
    BY DEF Commit
  <1>3. ASSUME NEW i \in Identifiers
        PROVE  /\ DOMAIN updates[i] = death_row[i] \cup {TrieRow(i, p) : p \in overlay[i]}
               /\ \A r \in DOMAIN updates[i] :
                     r \notin {TrieRow(i, p) : p \in overlay[i]} => updates[i][r] = Remove
    <2>1. TrieUpdatesOf(i, updates[i])
      BY TrieUpdatesIs DEF StrayInv
    <2> HIDE DEF updates
    <2> QED BY <2>1 DEF TrieUpdatesOf
  <1> HIDE DEF updates
  <1> SUFFICES ASSUME NEW row \in DOMAIN trie_column'
               PROVE  \E i \in Identifiers : \E p \in NodePaths(leaves[i]) : row = TrieRow(i, p)
    BY <1>2 DEF NoStrayRows
  <1>4. CASE row \in DOMAIN batch
    <2>1. batch[row] # Remove
      BY <1>1, <1>4 DEF WrittenOf
    <2>2. PICK i \in Identifiers : row \in DOMAIN updates[i] /\ batch[row] = updates[i][row]
      BY <1>1, <1>4 DEF BatchOf
    <2>3. PICK p \in overlay[i] : row = TrieRow(i, p)
      BY <1>3, <2>1, <2>2
    <2>4. p \in NodePaths(leaves[i])
      BY DEF StrayInv, TInv, OverlayInv
    <2> QED BY <2>3, <2>4
  <1>5. CASE row \notin DOMAIN batch
    <2>1. row \in DOMAIN trie_column
      BY <1>1, <1>5 DEF WrittenOf
    <2>2. PICK i \in Identifiers : \E p \in NodePaths(committed[i]) : row = TrieRow(i, p)
      BY <2>1 DEF StrayInv, NoStrayRows
    <2>3. PICK p \in NodePaths(committed[i]) : row = TrieRow(i, p)
      BY <2>2
    <2>4. row \notin death_row[i]
      BY <1>1, <1>3, <1>5 DEF BatchOf
    <2>5. p \in NodePaths(leaves[i])
      BY <2>3, <2>4 DEF StrayInv, DeathInv
    <2> QED BY <2>3, <2>5
  <1> QED BY <1>4, <1>5

LEMMA NextStrayInv == StrayInv /\ [Next]_vars => StrayInv'
  <1> SUFFICES ASSUME StrayInv, [Next]_vars PROVE DeathInv' /\ NoStrayRows'
    BY NextTInv DEF StrayInv
  <1>0. TInv /\ DeathInv /\ NoStrayRows
    BY DEF StrayInv
  <1>1. ASSUME NEW i \in Identifiers, NEW key \in Keys[i], NEW value \in Values,
               SetCached(i, key, value)
        PROVE  DeathInv' /\ NoStrayRows'
    BY <1>0, <1>1 DEF SetCached, DeathInv, NoStrayRows, columns
  <1>2. ASSUME NEW i \in Identifiers, NEW key \in Keys[i], NEW value \in Values,
               Set(i, key, value)
        PROVE  DeathInv' /\ NoStrayRows'
    <2>1. NodePaths(leaves[i]) \subseteq NodePaths(leaves'[i])
      BY <1>0, <1>2, SetKeepsNodes
    <2>2. PICK dead : dead = SplitRow(leaves[i], key)
      OBVIOUS
    <2>3. DeathInv'
      BY <1>0, <1>2, <2>1, <2>2, ClientInput, WriteDeath DEF Set
    <2>4. NoStrayRows'
      BY <1>0, <1>2 DEF Set, columns, NoStrayRows
    <2> QED BY <2>3, <2>4
  <1>3. ASSUME NEW i \in Identifiers, NEW key \in Keys[i], DeleteLeaf(i, key)
        PROVE  DeathInv' /\ NoStrayRows'
    <2>1. PICK dead : dead = DeadRows(i, leaves[i], key)
      OBVIOUS
    <2>2. \A p \in NodePaths(leaves[i]) \ NodePaths(leaves'[i]) : TrieRow(i, p) \in dead
      BY <1>0, <1>3, <2>1, DeleteBuries
    <2>3. DeathInv'
      BY <1>0, <1>3, <2>1, <2>2, ClientInput, WriteDeath DEF DeleteLeaf
    <2>4. NoStrayRows'
      BY <1>0, <1>3 DEF DeleteLeaf, columns, NoStrayRows
    <2> QED BY <2>3, <2>4
  <1>4. ASSUME NEW order \in Orders, Commit(order) PROVE DeathInv' /\ NoStrayRows'
    <2>1. DeathInv'
      BY <1>4 DEF Commit, DeathInv
    <2> QED BY <1>4, <2>1, CommitStray
  <1>5. ASSUME LoseChanges PROVE DeathInv' /\ NoStrayRows'
    BY <1>0, <1>5 DEF LoseChanges, DeathInv, NoStrayRows, columns
  <1>6. ASSUME UNCHANGED vars PROVE DeathInv' /\ NoStrayRows'
    BY <1>0, <1>6 DEF vars, columns, trees, DeathInv, NoStrayRows
  <1>7. ASSUME NEW i \in Identifiers, NEW key \in Keys[i], NEW value \in Values,
               SetFails(i, key, value)
        PROVE  DeathInv' /\ NoStrayRows'
    BY <1>0, <1>7 DEF SetFails, DeathInv, NoStrayRows, columns
  <1>8. ASSUME NEW i \in Identifiers, NEW key \in Keys[i], DeleteFails(i, key)
        PROVE  DeathInv' /\ NoStrayRows'
    BY <1>0, <1>8 DEF DeleteFails, DeathInv, NoStrayRows, columns
  <1> QED BY <1>1, <1>2, <1>3, <1>4, <1>5, <1>6, <1>7, <1>8 DEF Next

(***************************************************************************)
(* The isolated trees are separate from all others.                        *)
(***************************************************************************)
LEMMA IsolatedIn == Isolated \subseteq Identifiers
  BY DEF Isolated

\* A row of an isolated tree is the row of no other node, and not one that a
\* split puts on the death row.
LEMMA IsolatedRow ==
  ASSUME NEW i \in Isolated, NEW j \in Identifiers, NEW p \in Path, NEW q \in Path
  PROVE  /\ i \in Identifiers
         /\ TrieRow(i, p) = TrieRow(j, q) => i = j /\ p = q
         /\ TrieRow(i, p) # bitslice_to_bytes(q)
  <1>1. i \in Identifiers /\ TrieRow(i, p) # bitslice_to_bytes(q)
    BY DEF Isolated, TrieRow, TrieKey
  <1>2. ASSUME TrieRow(i, p) = TrieRow(j, q) PROVE i = j
    BY <1>2 DEF Isolated, TrieRow, TrieKey
  <1> QED BY <1>1, <1>2, TrieRowInjective

LEMMA IsolatedFlatRow ==
  ASSUME NEW i \in Isolated, NEW j \in Identifiers, NEW k \in Key
  PROVE  /\ \A l \in Key : FlatRow(i, l) = FlatRow(j, k) => i = j /\ k = l
         /\ IsPrefixOf(i, FlatRow(j, k)) /\ Len(FlatRow(j, k)) > Len(i) => i = j
  <1>1. ASSUME NEW l \in Key, FlatRow(i, l) = FlatRow(j, k) PROVE i = j /\ k = l
    <2>1. TrieRow(i, l) = TrieRow(j, k)
      BY <1>1, FlatRowIs DEF Isolated
    <2> QED BY <2>1, KeyInPath, IsolatedRow
  <1>2. IsPrefixOf(i, FlatRow(j, k)) /\ Len(FlatRow(j, k)) > Len(i) => i = j
    BY DEF Isolated, FlatRow, TrieKey
  <1> QED BY <1>1, <1>2

\* The entry that a split puts on the death row is the row of no node.
SplitRowsHarmless ==
    \A i \in Identifiers : \A p, q \in Path : bitslice_to_bytes(q) # TrieRow(i, p)

\* All trees are isolated if no identifier begins with another one and the
\* entries of splits are harmless.
LEMMA PrefixFreeIsolated ==
  ASSUME PrefixFree, SplitRowsHarmless
  PROVE  Isolated = Identifiers
  <1> SUFFICES ASSUME NEW i \in Identifiers PROVE i \in Isolated
    BY DEF Isolated
  <1>1. \A p, q \in Path : i \o EncodePath(p) # bitslice_to_bytes(q)
    BY DEF SplitRowsHarmless, TrieRow, TrieKey
  <1>2. ASSUME NEW j \in Identifiers, j # i, NEW p \in Path, NEW q \in Path
        PROVE  i \o EncodePath(p) # j \o EncodePath(q)
    BY <1>2, TrieRowTree DEF TrieRow, TrieKey
  <1>3. ASSUME NEW j \in Identifiers, j # i, NEW k \in Key
        PROVE  ~IsPrefixOf(i, j \o bitslice_to_bytes(k))
    <2>1. FlatRow(j, k) \in Seq(Nat) /\ IsPrefixOf(j, FlatRow(j, k))
      BY FlatRowIs
    <2>2. ~IsPrefixOf(i, FlatRow(j, k))
      BY <1>3, <2>1, CommonPrefix
    <2> QED BY <2>2 DEF FlatRow, TrieKey
  <1> QED BY <1>1, <1>2, <1>3 DEF Isolated

\* For instance, identifiers that begin with a byte above the height.
LEMMA HighFirstByte ==
  ASSUME \A i \in Identifiers : i # << >> /\ i[1] > MaxHeight
  PROVE  SplitRowsHarmless
  <1> SUFFICES ASSUME NEW i \in Identifiers, NEW p \in Path, NEW q \in Path,
                      bitslice_to_bytes(q) = TrieRow(i, p)
               PROVE  FALSE
    BY DEF SplitRowsHarmless
  <1>1. i \in Seq(Nat) /\ Len(i) >= 1 /\ i[1] \in Nat
    <2>1. i \in Seq(Nat) /\ i # << >>
      BY IdentifiersAssumption
    <2> QED BY <2>1
  <1>2. EncodePath(p) \in Seq(Nat) /\ EncodePath(q)[1] = Len(q) /\ Len(q) \in Nat /\ Len(q) <= MaxHeight
    BY PathSeq, EncodePathIs
  <1>3. PICK row \in Seq(Nat) : row = TrieRow(i, p) /\ row[1] = i[1] /\ Len(row) >= 1
    <2>1. PICK e \in Seq(Nat) : e = EncodePath(p)
      BY <1>2
    <2>2. i \o e \in Seq(Nat) /\ (i \o e)[1] = i[1] /\ Len(i \o e) >= 1
      BY <1>1
    <2>3. TrieRow(i, p) = i \o e
      BY <2>1 DEF TrieRow, TrieKey
    <2> QED BY <2>2, <2>3
  <1>4. CASE q = << >>
    <2>1. row = << >>
      BY <1>3, <1>4 DEF bitslice_to_bytes
    <2> QED BY <1>3, <2>1
  <1>5. CASE q # << >>
    <2>1. row = EncodePath(q)
      BY <1>3, <1>5 DEF bitslice_to_bytes
    <2>2. i[1] <= MaxHeight
      BY <1>2, <1>3, <2>1
    <2> QED BY <1>1, <2>2, MaxHeightAssumption
  <1> QED BY <1>4, <1>5

\* A node that is not in memory is the node in the database: the leaves below
\* it have not changed since the commit.
UnloadedInv ==
    \A i \in Identifiers : \A p \in NodePaths(leaves[i]) \ overlay[i] :
        HasNode(committed[i], p) /\ SameBelow(leaves[i], committed[i], p)

\* A row of an isolated tree is on no other death row, and on its own only if
\* the node is gone or in memory, so that the commit writes it.
BuriedInv ==
    \A i \in Identifiers : \A j \in Isolated : \A p \in Path :
        TrieRow(j, p) \in death_row[i] =>
            j = i /\ (p \in NodePaths(leaves[i]) => p \in overlay[i])

\* The rows of an isolated tree are those of its committed nodes.
StoredInv ==
    \A i \in Isolated : \A p \in Path :
        /\ TrieRow(i, p) \in DOMAIN trie_column <=> HasNode(committed[i], p)
        /\ HasNode(committed[i], p) =>
              trie_column[TrieRow(i, p)] = EncodeNode(StoredTrie(committed[i])[p])

SeparateInv == TInv /\ DeathInv /\ UnloadedInv /\ BuriedInv /\ StoredInv

LEMMA NoNodeAtStart ==
  ASSUME NEW p
  PROVE  ~HasNode(NoLeaves, p)
  BY DEF HasNode, Through, NoLeaves

LEMMA InitSeparateInv == Init => SeparateInv
  <1> SUFFICES ASSUME Init PROVE SeparateInv
    OBVIOUS
  <1>1. \A i \in Identifiers : leaves[i] = NoLeaves /\ committed[i] = NoLeaves /\ death_row[i] = {}
    BY DEF Init, NoTrees
  <1>2. TInv /\ DeathInv
    BY InitTInv, InitStrayInv DEF StrayInv
  <1>3. UnloadedInv
    BY <1>1, NoNodeAtStart DEF UnloadedInv, NodePaths
  <1>4. BuriedInv
    BY <1>1 DEF BuriedInv
  <1>5. StoredInv
    BY <1>1, NoNodeAtStart DEF StoredInv, Init, NoRows, Isolated
  <1> QED BY <1>2, <1>3, <1>4, <1>5 DEF SeparateInv

\* A write loads or creates every node it changes.
LEMMA WriteUnloaded ==
  ASSUME TInv, UnloadedInv, NEW i \in Identifiers, NEW key \in Key, NEW v,
         leaves' = [leaves EXCEPT ![i][key] = v],
         overlay' = [overlay EXCEPT ![i] = InMemoryAfter(i, key, leaves'[i])],
         UNCHANGED committed
  PROVE  UnloadedInv'
  <1> SUFFICES ASSUME NEW j \in Identifiers, NEW p \in NodePaths(leaves'[j]) \ overlay'[j]
               PROVE  HasNode(committed[j], p) /\ SameBelow(leaves'[j], committed[j], p)
    BY DEF UnloadedInv
  <1>1. CASE j = i
    <2>1. overlay'[i] = InMemoryAfter(i, key, leaves'[i])
      BY DEF TInv, TypeOK
    <2>2. p \notin overlay[i] /\ ~IsPrefixOf(p, key) /\ HasNode(leaves[i], p)
      BY <1>1, <2>1 DEF InMemoryAfter
    <2>3. p \in NodePaths(leaves[i]) \ overlay[i]
      BY <2>2 DEF NodePaths
    <2>4. HasNode(committed[i], p) /\ SameBelow(leaves[i], committed[i], p)
      BY <2>3 DEF UnloadedInv
    <2>5. \A k \in Key : k # key => leaves'[i][k] = leaves[i][k]
      BY TreeWritten
    <2> QED BY <1>1, <2>2, <2>4, <2>5 DEF SameBelow
  <1>2. CASE j # i
    <2>1. leaves'[j] = leaves[j] /\ overlay'[j] = overlay[j]
      BY <1>2, TreeWritten DEF TInv, TypeOK
    <2> QED BY <2>1 DEF UnloadedInv
  <1> QED BY <1>1, <1>2

LEMMA WriteBuried ==
  ASSUME TInv, BuriedInv, NEW i \in Identifiers, NEW key \in Key, NEW v, NEW dead,
         leaves' = [leaves EXCEPT ![i][key] = v],
         overlay' = [overlay EXCEPT ![i] = InMemoryAfter(i, key, leaves'[i])],
         death_row' = [death_row EXCEPT ![i] = @ \cup dead],
         \A j \in Isolated : \A p \in Path :
            TrieRow(j, p) \in dead => j = i /\ p \notin NodePaths(leaves'[i])
  PROVE  BuriedInv'
  <1> SUFFICES ASSUME NEW h \in Identifiers, NEW j \in Isolated, NEW p \in Path,
                      TrieRow(j, p) \in death_row'[h]
               PROVE  j = h /\ (p \in NodePaths(leaves'[h]) => p \in overlay'[h])
    BY DEF BuriedInv
  <1>1. CASE h = i
    <2>1. /\ overlay'[i] = InMemoryAfter(i, key, leaves'[i])
          /\ death_row'[i] = death_row[i] \cup dead
      BY DEF TInv, TypeOK
    <2>2. CASE TrieRow(j, p) \in dead
      BY <1>1, <2>2
    <2>3. CASE TrieRow(j, p) \in death_row[i]
      <3>1. j = i /\ (p \in NodePaths(leaves[i]) => p \in overlay[i])
        BY <2>3 DEF BuriedInv
      <3>2. ASSUME p \in NodePaths(leaves'[i]) PROVE p \in overlay'[i]
        <4>1. p \in overlay[i] \/ ~HasNode(leaves[i], p)
          BY <3>1 DEF NodePaths
        <4> QED BY <2>1, <3>2, <4>1 DEF InMemoryAfter
      <3> QED BY <1>1, <3>1, <3>2
    <2> QED BY <1>1, <2>1, <2>2, <2>3
  <1>2. CASE h # i
    <2>1. leaves'[h] = leaves[h] /\ overlay'[h] = overlay[h] /\ death_row'[h] = death_row[h]
      BY <1>2, TreeWritten DEF TInv, TypeOK
    <2> QED BY <2>1 DEF BuriedInv
  <1> QED BY <1>1, <1>2

LEMMA CommitStored ==
  ASSUME SeparateInv, NEW order \in Orders, Commit(order)
  PROVE  StoredInv'
  <1> DEFINE updates == [i \in Identifiers |-> TrieUpdates(i)]
             written(i) == {TrieRow(i, p) : p \in overlay[i]}
  <1>0. TInv /\ DeathInv /\ UnloadedInv /\ BuriedInv /\ StoredInv
    BY DEF SeparateInv
  <1>1. PICK batch : BatchOf(batch, updates) /\ WrittenOf(trie_column', trie_column, batch)
    BY <1>0, CommitColumns DEF Committed
  <1>2. committed' = leaves
    BY DEF Commit
  <1>3. ASSUME NEW i \in Identifiers
        PROVE  /\ DOMAIN updates[i] = death_row[i] \cup written(i)
               /\ \A p \in overlay[i] : updates[i][TrieRow(i, p)] = EncodeNode(StoredTrie(leaves[i])[p])
               /\ \A r \in DOMAIN updates[i] : r \notin written(i) => updates[i][r] = Remove
    <2>1. TrieUpdatesOf(i, updates[i])
      BY <1>0, TrieUpdatesIs
    <2> HIDE DEF updates
    <2> QED BY <2>1 DEF TrieUpdatesOf
  <1> HIDE DEF updates
  <1> SUFFICES ASSUME NEW i \in Isolated, i \in Identifiers, NEW p \in Path
               PROVE  /\ TrieRow(i, p) \in DOMAIN trie_column' <=> HasNode(leaves[i], p)
                      /\ HasNode(leaves[i], p) =>
                            trie_column'[TrieRow(i, p)] = EncodeNode(StoredTrie(leaves[i])[p])
    BY <1>2 DEF StoredInv, Isolated
  <1>4. PICK row : row = TrieRow(i, p)
    OBVIOUS
  <1>5. row \in written(i) <=> p \in overlay[i]
    <2>1. ASSUME row \in written(i) PROVE p \in overlay[i]
      <3>1. PICK q \in overlay[i] : TrieRow(i, p) = TrieRow(i, q)
        BY <1>4, <2>1
      <3>2. q \in Path
        BY <1>0 DEF TInv, TypeOK
      <3> QED BY <3>1, <3>2, TrieRowInjective
    <2> QED BY <1>4, <2>1
  \* Only the tree itself updates the row.
  <1>6. ASSUME NEW j \in Identifiers, row \in DOMAIN updates[j] PROVE j = i
    <2>1. CASE row \in death_row[j]
      BY <1>0, <1>4, <2>1 DEF BuriedInv
    <2>2. CASE row \in written(j)
      <3>1. PICK q \in overlay[j] : TrieRow(i, p) = TrieRow(j, q)
        BY <1>4, <2>2
      <3>2. q \in Path
        BY <1>0 DEF TInv, TypeOK
      <3> QED BY <3>1, <3>2, IsolatedRow
    <2> QED BY <1>3, <1>6, <2>1, <2>2
  <1>7. /\ row \in DOMAIN batch <=> row \in DOMAIN updates[i]
        /\ row \in DOMAIN batch => batch[row] = updates[i][row]
    BY <1>1, <1>6 DEF BatchOf
  <1>8. CASE p \in overlay[i]
    <2>1. HasNode(leaves[i], p)
      BY <1>0, <1>8 DEF TInv, OverlayInv, NodePaths
    <2>2. EncodeNode(StoredTrie(leaves[i])[p]) # Remove
      <3>1. leaves[i] \in [Key -> Felt \cup {None}]
        BY <1>0 DEF TInv, TypeOK
      <3> QED BY <2>1, <3>1, DecodeEncodeNode, RemoveAssumption
    <2>3. row \in DOMAIN batch /\ batch[row] = EncodeNode(StoredTrie(leaves[i])[p])
      BY <1>3, <1>4, <1>5, <1>7, <1>8
    <2>4. row \in DOMAIN trie_column' /\ trie_column'[row] = batch[row]
      BY <1>1, <2>2, <2>3 DEF WrittenOf
    <2> QED BY <1>4, <2>1, <2>3, <2>4
  <1>9. CASE p \notin overlay[i] /\ row \in death_row[i]
    <2>1. row \in DOMAIN batch /\ batch[row] = Remove
      BY <1>3, <1>5, <1>7, <1>9
    <2>2. row \notin DOMAIN trie_column'
      BY <1>1, <2>1 DEF WrittenOf
    <2>3. ~HasNode(leaves[i], p)
      BY <1>0, <1>4, <1>9 DEF BuriedInv, NodePaths
    <2> QED BY <1>4, <2>2, <2>3
  <1>10. CASE p \notin overlay[i] /\ row \notin death_row[i]
    <2>1. row \notin DOMAIN batch
      BY <1>3, <1>5, <1>7, <1>10
    <2>2. row \in DOMAIN trie_column' <=> row \in DOMAIN trie_column
      BY <1>1, <2>1 DEF WrittenOf
    <2>3. row \in DOMAIN trie_column' => trie_column'[row] = trie_column[row]
      BY <1>1, <2>1 DEF WrittenOf
    <2>4. row \in DOMAIN trie_column <=> HasNode(committed[i], p)
      BY <1>0, <1>4 DEF StoredInv
    <2>5. ASSUME HasNode(leaves[i], p)
          PROVE  HasNode(committed[i], p) /\ SameBelow(leaves[i], committed[i], p)
      BY <1>0, <1>10, <2>5 DEF UnloadedInv, NodePaths
    <2>6. ASSUME HasNode(committed[i], p) PROVE HasNode(leaves[i], p)
      BY <1>0, <1>4, <1>10, <2>6 DEF DeathInv, NodePaths
    <2>7. ASSUME HasNode(leaves[i], p)
          PROVE  trie_column'[row] = EncodeNode(StoredTrie(leaves[i])[p])
      <3>1. HasNode(committed[i], p) /\ SameBelow(leaves[i], committed[i], p)
        BY <2>5, <2>7
      <3>2. StoredTrie(leaves[i])[p] = StoredTrie(committed[i])[p]
        BY <2>7, <3>1, StoredSame
      <3>3. trie_column[row] = EncodeNode(StoredTrie(committed[i])[p])
        BY <1>0, <1>4, <3>1 DEF StoredInv
      <3> QED BY <2>2, <2>3, <2>4, <3>1, <3>2, <3>3
    <2> QED BY <1>4, <2>2, <2>4, <2>5, <2>6, <2>7
  <1> QED BY <1>8, <1>9, <1>10

\* No row that a write to an isolated tree reads is missing.
LEMMA SeeksAll ==
  ASSUME SeparateInv, NEW i \in Isolated, i \in Identifiers, NEW key
  PROVE  ~SeekFails(i, key)
  <1> SUFFICES ASSUME NEW p \in NodesTo(leaves[i], key), p \notin overlay[i], NodeSeen(i, p) = NoNode
               PROVE  FALSE
    BY DEF SeekFails
  <1>1. p \in Path /\ HasNode(leaves[i], p)
    BY DEF NodesTo
  <1>2. HasNode(committed[i], p)
    BY <1>1 DEF SeparateInv, UnloadedInv, NodePaths
  <1>3. TrieRow(i, p) \notin death_row[i]
    BY <1>1 DEF SeparateInv, BuriedInv, NodePaths
  <1>4. NodeInDb(i, p) = NoNode
    BY <1>3 DEF NodeSeen
  <1>5. committed[i] \in [Key -> Felt \cup {None}]
    BY DEF SeparateInv, TInv, TypeOK
  <1>6. StoredTrie(committed[i])[p] # NoNode
    <2>1. PICK node : node = StoredTrie(committed[i])[p]
      OBVIOUS
    <2>2. \/ \E h \in Felt, next \in [Directions -> Felt] : node = BinaryNode(h, Len(p), next)
          \/ \E h \in Felt, l \in Path \ {<< >>}, c \in Felt : node = EdgeNode(h, Len(p), l, c)
      BY <1>1, <1>2, <1>5, <2>1, StoredNode
    <2>3. node.type \in {"Binary", "Edge"}
      <3>1. \A h, next : BinaryNode(h, Len(p), next).type = "Binary"
        BY DEF BinaryNode
      <3>2. \A h, l, c : EdgeNode(h, Len(p), l, c).type = "Edge"
        BY DEF EdgeNode
      <3> QED BY <2>2, <3>1, <3>2
    <2>4. node # NoNode
      BY <2>3 DEF NoNode
    <2> QED BY <2>1, <2>4
  <1>7. DecodeNode(EncodeNode(StoredTrie(committed[i])[p])) = StoredTrie(committed[i])[p]
    BY <1>1, <1>2, <1>5, DecodeEncodeNode
  <1>8. NodeInDb(i, p) = StoredTrie(committed[i])[p]
    BY <1>1, <1>2, <1>7 DEF SeparateInv, StoredInv, NodeInDb
  <1> QED BY <1>4, <1>6, <1>8

(***************************************************************************)
(* The keys that are listed.  The inductive invariant: of an isolated tree *)
(* the Flat column has the rows of the committed leaves, and a cached leaf *)
(* says whether the tree has the leaf.                                     *)
(***************************************************************************)
CacheInv ==
    \A i \in Isolated : \A k \in Key :
        /\ cache_leaf_modified[i][k] = None => leaves[i][k] = committed[i][k]
        /\ cache_leaf_modified[i][k] # None =>
              (leaves[i][k] = None <=> cache_leaf_modified[i][k] = Remove)

FlatInv ==
    /\ \A r \in DOMAIN flat_column : \E i \in Identifiers, k \in Key : r = FlatRow(i, k)
    /\ \A i \in Isolated, k \in Key :
          FlatRow(i, k) \in DOMAIN flat_column <=> committed[i][k] # None

KeysInv == TInv /\ CacheInv /\ FlatInv

LEMMA InitKeysInv == Init => KeysInv
  <1> SUFFICES ASSUME Init PROVE KeysInv
    OBVIOUS
  <1>1. CacheInv
    BY IsolatedIn DEF Init, CacheInv, NoTrees, NoLeaves
  <1>2. FlatInv
    <2>1. \A i \in Identifiers : \A k \in Key : committed[i][k] = None
      BY DEF Init, NoTrees, NoLeaves
    <2>2. DOMAIN flat_column = {}
      BY DEF Init, NoRows
    <2> QED BY <2>1, <2>2, IsolatedIn DEF FlatInv
  <1> QED BY <1>1, <1>2, InitTInv DEF KeysInv

LEMMA WriteCache ==
  ASSUME TInv, CacheInv, NEW i \in Identifiers, NEW key \in Key, NEW v, NEW c, c # None,
         leaves' = [leaves EXCEPT ![i][key] = v],
         cache_leaf_modified' = [cache_leaf_modified EXCEPT ![i][key] = c],
         UNCHANGED committed, v = None <=> c = Remove
  PROVE  CacheInv'
  <1> SUFFICES ASSUME NEW j \in Isolated, j \in Identifiers, NEW k \in Key
               PROVE  /\ cache_leaf_modified'[j][k] = None => leaves'[j][k] = committed[j][k]
                      /\ cache_leaf_modified'[j][k] # None =>
                            (leaves'[j][k] = None <=> cache_leaf_modified'[j][k] = Remove)
    BY IsolatedIn DEF CacheInv
  <1>1. CASE j = i /\ k = key
    <2>1. leaves'[j][k] = v /\ cache_leaf_modified'[j][k] = c
      BY <1>1 DEF TInv, TypeOK
    <2> QED BY <2>1
  <1>2. CASE ~(j = i /\ k = key)
    <2>1. leaves'[j][k] = leaves[j][k] /\ cache_leaf_modified'[j][k] = cache_leaf_modified[j][k]
      BY <1>2 DEF TInv, TypeOK
    <2> QED BY <2>1 DEF CacheInv
  <1> QED BY <1>1, <1>2

LEMMA CommitFlat ==
  ASSUME KeysInv, NEW order \in Orders, Commit(order)
  PROVE  FlatInv'
  <1> DEFINE updates == [i \in Identifiers |-> FlatUpdates(i)]
             c == cache_leaf_modified
  <1>0. TInv /\ CacheInv /\ FlatInv
    BY DEF KeysInv
  <1>1. PICK batch : BatchOf(batch, updates) /\ WrittenOf(flat_column', flat_column, batch)
    BY <1>0, CommitColumns DEF Committed
  <1>2. committed' = leaves
    BY DEF Commit
  <1>3. ASSUME NEW i \in Identifiers
        PROVE  /\ DOMAIN updates[i] = {FlatRow(i, k) : k \in {x \in Key : c[i][x] # None}}
               /\ \A k \in Key : c[i][k] # None => updates[i][FlatRow(i, k)] = c[i][k]
    <2>1. FlatUpdatesOf(i, updates[i])
      BY <1>0, FlatUpdatesIs
    <2> HIDE DEF updates
    <2> QED BY <2>1 DEF FlatUpdatesOf
  <1> HIDE DEF updates, c
  \* The batch has the row of a key if the cache of its tree does.
  <1>4. ASSUME NEW i \in Isolated, i \in Identifiers, NEW k \in Key
        PROVE  /\ FlatRow(i, k) \in DOMAIN batch <=> c[i][k] # None
               /\ c[i][k] # None => batch[FlatRow(i, k)] = c[i][k]
    <2>1. ASSUME c[i][k] # None PROVE FlatRow(i, k) \in DOMAIN batch
      <3>1. FlatRow(i, k) \in DOMAIN updates[i]
        BY <1>3, <1>4, <2>1
      <3> QED BY <1>1, <1>4, <3>1 DEF BatchOf
    <2>2. ASSUME FlatRow(i, k) \in DOMAIN batch PROVE c[i][k] # None /\ batch[FlatRow(i, k)] = c[i][k]
      <3>1. PICK j \in Identifiers : /\ FlatRow(i, k) \in DOMAIN updates[j]
                                     /\ batch[FlatRow(i, k)] = updates[j][FlatRow(i, k)]
        BY <1>1, <2>2 DEF BatchOf
      <3>2. PICK l \in Key : c[j][l] # None /\ FlatRow(i, k) = FlatRow(j, l)
        BY <1>3, <3>1
      <3>3. i = j /\ k = l
        BY <3>2, IsolatedFlatRow
      <3>4. updates[i][FlatRow(i, k)] = c[i][k]
        BY <1>3, <3>2, <3>3
      <3> QED BY <3>1, <3>2, <3>3, <3>4
    <2> QED BY <2>1, <2>2
  <1>5. ASSUME NEW i \in Isolated, i \in Identifiers, NEW k \in Key
        PROVE  FlatRow(i, k) \in DOMAIN flat_column' <=> leaves[i][k] # None
    <2>1. CASE c[i][k] = None
      <3>1. leaves[i][k] = committed[i][k]
        BY <1>0, <2>1 DEF CacheInv, c
      <3>2. FlatRow(i, k) \notin DOMAIN batch
        BY <1>4, <1>5, <2>1
      <3>3. FlatRow(i, k) \in DOMAIN flat_column' <=> FlatRow(i, k) \in DOMAIN flat_column
        BY <1>1, <3>2 DEF WrittenOf
      <3>4. FlatRow(i, k) \in DOMAIN flat_column <=> committed[i][k] # None
        BY <1>0 DEF FlatInv
      <3> QED BY <3>1, <3>3, <3>4
    <2>2. CASE c[i][k] # None
      <3>1. leaves[i][k] = None <=> c[i][k] = Remove
        BY <1>0, <2>2 DEF CacheInv, c
      <3>2. FlatRow(i, k) \in DOMAIN batch /\ batch[FlatRow(i, k)] = c[i][k]
        BY <1>4, <1>5, <2>2
      <3>3. FlatRow(i, k) \in DOMAIN flat_column' <=> batch[FlatRow(i, k)] # Remove
        BY <1>1, <3>2 DEF WrittenOf
      <3> QED BY <3>1, <3>2, <3>3
    <2> QED BY <2>1, <2>2
  \* Every row is the row of some key.
  <1>6. ASSUME NEW r \in DOMAIN flat_column'
        PROVE  \E i \in Identifiers, k \in Key : r = FlatRow(i, k)
    <2>1. CASE r \in DOMAIN batch
      <3>1. PICK j \in Identifiers : r \in DOMAIN updates[j]
        BY <1>1, <2>1 DEF BatchOf
      <3> QED BY <1>3, <3>1
    <2>2. CASE r \notin DOMAIN batch
      <3>1. r \in DOMAIN flat_column
        BY <1>1, <2>2 DEF WrittenOf
      <3> QED BY <1>0, <3>1 DEF FlatInv
    <2> QED BY <2>1, <2>2
  <1> QED BY <1>2, <1>5, <1>6, IsolatedIn DEF FlatInv

\* A key that has a value, as delete_leaf sees it, is in the trie.
LEMMA LeafThere ==
  ASSUME KeysInv, NEW i \in Isolated, NEW key \in Key, TreeHasValue(i, key)
  PROVE  leaves[i][key] # None
  <1>1. CASE cache_leaf_modified[i][key] # None
    BY <1>1 DEF TreeHasValue, KeysInv, CacheInv
  <1>2. CASE cache_leaf_modified[i][key] = None
    <2>1. FlatRow(i, key) \in DOMAIN flat_column
      BY <1>2 DEF TreeHasValue, FlatInDb
    <2>2. committed[i][key] # None
      BY <2>1 DEF KeysInv, FlatInv
    <2> QED BY <1>2, <2>2 DEF KeysInv, CacheInv
  <1> QED BY <1>1, <1>2

LEMMA NextKeysInv == SeparateInv /\ KeysInv /\ [Next]_vars => KeysInv'
  <1> SUFFICES ASSUME SeparateInv, KeysInv, [Next]_vars PROVE CacheInv' /\ FlatInv'
    BY NextTInv DEF KeysInv
  <1>0. TInv /\ CacheInv /\ FlatInv
    BY DEF KeysInv
  <1>1. ASSUME NEW i \in Identifiers, NEW key \in Keys[i], NEW value \in Values,
               SetCached(i, key, value)
        PROVE  CacheInv' /\ FlatInv'
    <2>1. key \in Key /\ value # None /\ value # Remove
      BY ClientInput, ValueIs
    <2>2. i \in Isolated => leaves[i][key] # None
      BY <1>0, <1>1, <2>1 DEF SetCached, CacheInv
    <2>3. leaves' = leaves /\ committed' = committed /\ flat_column' = flat_column
      BY <1>1 DEF SetCached, columns
    <2>4. ASSUME NEW j \in Identifiers, NEW k \in Key
          PROVE  \/ cache_leaf_modified'[j][k] = cache_leaf_modified[j][k]
                 \/ j = i /\ k = key /\ cache_leaf_modified'[j][k] = value
      BY <1>0, <1>1, <2>1 DEF SetCached, TInv, TypeOK
    <2>5. CacheInv'
      BY <1>0, <2>1, <2>2, <2>3, <2>4, IsolatedIn DEF CacheInv
    <2> QED BY <1>0, <2>3, <2>5 DEF FlatInv
  <1>2. ASSUME NEW i \in Identifiers, NEW key \in Keys[i], NEW value \in Values,
               Set(i, key, value)
        PROVE  CacheInv' /\ FlatInv'
    <2>1. key \in Key /\ value # None /\ value # Remove
      BY ClientInput, ValueIs
    <2>2. CacheInv'
      BY <1>0, <1>2, <2>1, WriteCache DEF Set
    <2> QED BY <1>0, <1>2, <2>2 DEF Set, columns, FlatInv
  <1>3. ASSUME NEW i \in Identifiers, NEW key \in Keys[i], DeleteLeaf(i, key)
        PROVE  CacheInv' /\ FlatInv'
    <2>1. key \in Key /\ Remove # None
      BY ClientInput, RemoveAssumption
    <2>2. CacheInv'
      BY <1>0, <1>3, <2>1, WriteCache DEF DeleteLeaf
    <2> QED BY <1>0, <1>3, <2>2 DEF DeleteLeaf, columns, FlatInv
  <1>4. ASSUME NEW order \in Orders, Commit(order) PROVE CacheInv' /\ FlatInv'
    <2>1. CacheInv'
      BY <1>4, IsolatedIn DEF Commit, Unload, CacheInv, NoTrees, NoLeaves
    <2> QED BY <1>4, <2>1, CommitFlat
  <1>5. ASSUME LoseChanges PROVE CacheInv' /\ FlatInv'
    BY <1>0, <1>5, IsolatedIn DEF LoseChanges, Unload, CacheInv, FlatInv, NoTrees, NoLeaves, columns
  <1>6. ASSUME UNCHANGED vars PROVE CacheInv' /\ FlatInv'
    BY <1>0, <1>6 DEF vars, columns, trees, CacheInv, FlatInv
  <1>7. ASSUME NEW i \in Identifiers, NEW key \in Keys[i], NEW value \in Values,
               SetFails(i, key, value)
        PROVE  CacheInv' /\ FlatInv'
    BY <1>0, <1>7 DEF SetFails, columns, CacheInv, FlatInv
  <1>8. ASSUME NEW i \in Identifiers, NEW key \in Keys[i], DeleteFails(i, key)
        PROVE  CacheInv' /\ FlatInv'
    <2>1. i \notin Isolated
      BY <1>8, SeeksAll DEF DeleteFails
    <2>2. \A j \in Isolated : cache_leaf_modified'[j] = cache_leaf_modified[j]
      BY <1>0, <1>8, <2>1, IsolatedIn DEF DeleteFails, TInv, TypeOK
    <2> QED BY <1>0, <1>8, <2>2 DEF DeleteFails, columns, CacheInv, FlatInv
  <1> QED BY <1>1, <1>2, <1>3, <1>4, <1>5, <1>6, <1>7, <1>8 DEF Next

LEMMA KeysInvListed == KeysInv => KeysListed
  <1> SUFFICES ASSUME KeysInv, NEW i \in Isolated, i \in Identifiers
               PROVE  get_keys(i) = {Packed(k) : k \in {k \in Key : committed[i][k] # None}}
    BY IsolatedIn DEF KeysListed
  <1>0. FlatInv
    BY DEF KeysInv
  <1>1. ASSUME NEW x \in get_keys(i)
        PROVE  \E k \in Key : committed[i][k] # None /\ x = Packed(k)
    <2>1. PICK r \in DOMAIN flat_column : /\ IsPrefixOf(i, r) /\ Len(r) > Len(i)
                                          /\ x = From(r, Len(i) + 1)
      BY DEF get_keys
    <2>2. PICK j \in Identifiers, k \in Key : r = FlatRow(j, k)
      BY <1>0 DEF FlatInv
    <2>3. i = j
      BY <2>1, <2>2, IsolatedFlatRow
    <2>4. committed[i][k] # None
      BY <1>0, <2>2, <2>3 DEF FlatInv
    <2>5. From(r, Len(j) + 1) = Packed(k)
      BY <2>2, FlatRowIs
    <2> QED BY <2>1, <2>3, <2>4, <2>5
  <1>2. ASSUME NEW k \in Key, committed[i][k] # None PROVE Packed(k) \in get_keys(i)
    <2>1. PICK r : r = FlatRow(i, k)
      OBVIOUS
    <2>2. r \in DOMAIN flat_column
      BY <1>0, <1>2, <2>1 DEF FlatInv
    <2>3. IsPrefixOf(i, r) /\ Len(r) > Len(i) /\ From(r, Len(i) + 1) = Packed(k)
      BY <2>1, FlatRowIs
    <2> QED BY <2>2, <2>3 DEF get_keys
  <1> QED BY <1>1, <1>2

LEMMA NextSeparateInv ==
  SeparateInv /\ KeysInv /\ [Next]_vars => SeparateInv'
  <1> DEFINE Rest == DeathInv /\ UnloadedInv /\ BuriedInv /\ StoredInv
  <1> SUFFICES ASSUME SeparateInv, KeysInv, [Next]_vars
               PROVE  Rest'
    BY NextTInv DEF SeparateInv
  <1>0. TInv /\ DeathInv /\ UnloadedInv /\ BuriedInv /\ StoredInv
    BY DEF SeparateInv
  <1>1. ASSUME NEW i \in Identifiers, NEW key \in Keys[i], NEW value \in Values,
               SetCached(i, key, value)
        PROVE  Rest'
    BY <1>0, <1>1 DEF SetCached, DeathInv, UnloadedInv, BuriedInv, StoredInv, columns
  <1>2. ASSUME NEW i \in Identifiers, NEW key \in Keys[i], NEW value \in Values,
               Set(i, key, value)
        PROVE  Rest'
    <2>0. key \in Key
      BY ClientInput
    <2>1. NodePaths(leaves[i]) \subseteq NodePaths(leaves'[i])
      BY <1>0, <1>2, SetKeepsNodes
    <2>2. PICK dead : dead = SplitRow(leaves[i], key)
      OBVIOUS
    <2>3. DeathInv'
      BY <1>0, <1>2, <2>0, <2>1, <2>2, WriteDeath DEF Set
    <2>4. UnloadedInv'
      BY <1>0, <1>2, <2>0, WriteUnloaded DEF Set
    <2>5. \A j \in Isolated : \A p \in Path : TrieRow(j, p) \notin dead
      <3>1. leaves[i] \in [Key -> Felt \cup {None}]
        BY <1>0 DEF TInv, TypeOK
      <3>2. \A r \in dead : \E q \in Path : r = bitslice_to_bytes(q)
        BY <2>0, <2>2, <3>1, SplitRowIs
      <3> QED BY <3>2, IsolatedRow
    <2>6. BuriedInv'
      BY <1>0, <1>2, <2>0, <2>2, <2>5, WriteBuried DEF Set
    <2>7. StoredInv'
      BY <1>0, <1>2 DEF Set, columns, StoredInv
    <2> QED BY <2>3, <2>4, <2>6, <2>7
  <1>3. ASSUME NEW i \in Identifiers, NEW key \in Keys[i], DeleteLeaf(i, key)
        PROVE  Rest'
    <2>0. key \in Key
      BY ClientInput
    <2>1. PICK dead : dead = DeadRows(i, leaves[i], key)
      OBVIOUS
    <2>2. \A p \in NodePaths(leaves[i]) \ NodePaths(leaves'[i]) : TrieRow(i, p) \in dead
      BY <1>0, <1>3, <2>1, DeleteBuries
    <2>3. DeathInv'
      BY <1>0, <1>3, <2>0, <2>1, <2>2, WriteDeath DEF DeleteLeaf
    <2>4. UnloadedInv'
      BY <1>0, <1>3, <2>0, WriteUnloaded DEF DeleteLeaf
    <2>5. ASSUME NEW j \in Isolated, NEW p \in Path, TrieRow(j, p) \in dead
          PROVE  j = i /\ p \notin NodePaths(leaves'[i])
      <3>1. PICK q \in DeadPaths(leaves[i], key) : TrieRow(j, p) = TrieRow(i, q)
        BY <2>1, <2>5 DEF DeadRows
      <3>2. q \in Path
        BY <2>0, DeadPathsType
      <3>3. j = i /\ p = q
        BY <3>1, <3>2, IsolatedRow
      <3>4. leaves[i][key] # None
        BY <1>3, <2>0, <3>3, LeafThere DEF DeleteLeaf
      <3>5. q \in NodePaths(leaves[i]) \ NodePaths(leaves'[i])
        BY <1>0, <1>3, <3>4, DeleteBuries
      <3> QED BY <3>3, <3>5
    <2>6. BuriedInv'
      BY <1>0, <1>3, <2>0, <2>1, <2>5, WriteBuried DEF DeleteLeaf
    <2>7. StoredInv'
      BY <1>0, <1>3 DEF DeleteLeaf, columns, StoredInv
    <2> QED BY <2>3, <2>4, <2>6, <2>7
  <1>4. ASSUME NEW order \in Orders, Commit(order) PROVE Rest'
    <2>1. committed' = leaves' /\ \A i \in Identifiers : death_row'[i] = {}
      BY <1>4 DEF Commit, Unload
    <2>2. DeathInv' /\ BuriedInv'
      BY <2>1 DEF DeathInv, BuriedInv
    <2>3. UnloadedInv'
      BY <2>1 DEF UnloadedInv, NodePaths, SameBelow
    <2> QED BY <1>4, <2>2, <2>3, CommitStored
  <1>5. ASSUME LoseChanges PROVE Rest'
    <2>1. /\ committed' = committed /\ leaves' = committed /\ trie_column' = trie_column
          /\ \A i \in Identifiers : death_row'[i] = {}
      BY <1>5 DEF LoseChanges, Unload, columns
    <2>2. DeathInv' /\ BuriedInv'
      BY <2>1 DEF DeathInv, BuriedInv
    <2>3. UnloadedInv'
      BY <2>1 DEF UnloadedInv, NodePaths, SameBelow
    <2>4. StoredInv'
      BY <1>0, <2>1 DEF StoredInv
    <2> QED BY <2>2, <2>3, <2>4
  <1>6. ASSUME UNCHANGED vars PROVE Rest'
    BY <1>0, <1>6 DEF vars, columns, trees, DeathInv, UnloadedInv, BuriedInv, StoredInv
  <1>7. ASSUME NEW i \in Identifiers, NEW key \in Keys[i], NEW value \in Values,
               SetFails(i, key, value)
        PROVE  Rest'
    <2>1. UNCHANGED <<columns, leaves, death_row, committed>> /\ SeekFails(i, key)
      BY <1>7 DEF SetFails
    <2> QED BY <1>0, <2>1, SeekFailsLoads
            DEF columns, DeathInv, UnloadedInv, BuriedInv, StoredInv
  <1>8. ASSUME NEW i \in Identifiers, NEW key \in Keys[i], DeleteFails(i, key)
        PROVE  Rest'
    <2>1. UNCHANGED <<columns, leaves, death_row, committed>> /\ SeekFails(i, key)
      BY <1>8 DEF DeleteFails
    <2> QED BY <1>0, <2>1, SeekFailsLoads
            DEF columns, DeathInv, UnloadedInv, BuriedInv, StoredInv
  <1> HIDE DEF Rest
  <1> QED BY <1>1, <1>2, <1>3, <1>4, <1>5, <1>6, <1>7, <1>8 DEF Next

LEMMA SeparateInvRead == SeparateInv => TriesSeparate
  <1> SUFFICES ASSUME SeparateInv, NEW i \in Isolated, i \in Identifiers, NEW p \in Path
               PROVE  NodeInDb(i, p) = StoredTrie(committed[i])[p]
    BY IsolatedIn DEF TriesSeparate, ReadsBack
  <1>1. /\ TrieRow(i, p) \in DOMAIN trie_column <=> HasNode(committed[i], p)
        /\ HasNode(committed[i], p) =>
              trie_column[TrieRow(i, p)] = EncodeNode(StoredTrie(committed[i])[p])
    BY DEF SeparateInv, StoredInv
  <1>2. CASE HasNode(committed[i], p)
    <2>1. committed[i] \in [Key -> Felt \cup {None}]
      BY DEF SeparateInv, TInv, TypeOK
    <2>2. DecodeNode(EncodeNode(StoredTrie(committed[i])[p])) = StoredTrie(committed[i])[p]
      BY <1>2, <2>1, DecodeEncodeNode
    <2> QED BY <1>1, <1>2, <2>2 DEF NodeInDb
  <1>3. CASE ~HasNode(committed[i], p)
    <2>1. StoredTrie(committed[i])[p] = NoNode
      BY <1>3 DEF StoredTrie
    <2> QED BY <1>1, <1>3, <2>1 DEF NodeInDb
  <1> QED BY <1>2, <1>3

(***************************************************************************)
(* The theorems                                                            *)
(***************************************************************************)
\* The two invariants hold together: a deletion finds its leaf because the
\* Flat rows are right, and its seek finds the nodes because the Trie rows are.
TreesInv == SeparateInv /\ KeysInv

LEMMA TreesInvHolds == Spec => []TreesInv
  <1>1. Init => TreesInv
    BY InitSeparateInv, InitKeysInv DEF TreesInv
  <1>2. TreesInv /\ [Next]_vars => TreesInv'
    BY NextSeparateInv, NextKeysInv DEF TreesInv
  <1> QED BY <1>1, <1>2, PTL DEF Spec

\* No commit leaves a row of a node that is gone: the edge to the leaf, the
\* sibling and the branch that delete_leaf puts on the death row are all the
\* nodes that the trie loses, for every shape of it, and they stay there until
\* the commit (MerkleTree::delete_leaf, get_updates, src/trie/tree.rs).  The
\* hypothesis is that no tree can lose a row to another one.
THEOREM NoRowLeftBehind == Isolated = Identifiers => (Spec => []NoStrayRows)
  <1>1. Spec => []StrayInv
    BY InitStrayInv, NextStrayInv, PTL DEF Spec
  <1>2. StrayInv => NoStrayRows
    BY DEF StrayInv
  <1>3. Spec => []NoStrayRows
    BY <1>1, <1>2, PTL
  <1> QED BY <1>3

\* Listing an isolated tree by the prefix of its rows returns exactly the keys
\* it had at the last commit, for any number of trees, whatever the others
\* store (MerkleTrees::get_keys).  It needs the rows of the nodes too: a
\* removal whose seek fails takes the Flat row and not the leaf.
THEOREM KeysAreListed == Spec => []KeysListed
  <1>1. TreesInv => KeysListed
    BY KeysInvListed DEF TreesInv
  <1> QED BY TreesInvHolds, <1>1, PTL

\* An isolated tree reads back exactly the nodes it committed, hashes and edges
\* included, for any number of trees beside it, isolated or not, any height and
\* any order of the updates in a batch.  Of other trees it is false: the entry
\* without an identifier (src/trie/tree.rs:713) removes nodes of the tree whose
\* rows begin with it.
THEOREM TriesAreSeparate == Spec => []TriesSeparate
  <1>1. TreesInv => TriesSeparate
    BY SeparateInvRead DEF TreesInv
  <1> QED BY TreesInvHolds, <1>1, PTL

\* README: "Define multiple identifier to use multiple tries that have separate
\* root hash."  It is true of identifiers none of which begins with another one,
\* if the entries that splits put on the death row are rows of no tree.
THEOREM PrefixFreeTriesSeparate ==
  PrefixFree /\ SplitRowsHarmless => (Spec => []AllTriesSeparate)
  <1> SUFFICES ASSUME PrefixFree, SplitRowsHarmless PROVE Spec => []AllTriesSeparate
    OBVIOUS
  <1>1. TriesSeparate => AllTriesSeparate
    BY PrefixFreeIsolated DEF TriesSeparate, AllTriesSeparate
  <1> QED BY TriesAreSeparate, <1>1, PTL
=============================================================================
