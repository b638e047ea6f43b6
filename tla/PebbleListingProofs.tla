------------------------- MODULE PebbleListingProofs -------------------------
(***************************************************************************)
(* First, what the byte layout of the secondary keys gives, for all names  *)
(* whose lengths fit their fields: one key per (bucket, key), keys that    *)
(* can be read back, and scans that cover exactly what List relies on.     *)
(* Then, what follows for the pages of a listing, beside any writers: they *)
(* ascend, nothing that stands still is skipped, and what is read beside   *)
(* the request is explained.  Last, what the layout of a record gives: a   *)
(* record whose strings fit is read back as it was written, one that was   *)
(* cut off is seen to be, and one with a longer string is never read back. *)
(***************************************************************************)
EXTENDS PebbleListing, RecordCodec, WellFoundedInduction, SequenceTheorems, FiniteSetTheorems, TLAPS

\* A bucket name whose length fits in 16 bits, and a key whose length has a
\* high byte below 0xFF.
StorableBucket(b) == b \in Bytes /\ Len(b) < 65536
StorableKey(k) == k \in Bytes /\ Len(k) < 255 * 16777216

-----------------------------------------------------------------------------
(* The order of byte strings. *)

LEMMA LeastNatural ==
    ASSUME NEW T \in SUBSET Nat, T # {}
    PROVE  \E n \in T : \A k \in T : n <= k
<1> DEFINE R == OpToRel(<, Nat)
<1>1. IsWellFoundedOn(R, Nat)
  BY NatLessThanWellFounded
<1>2. PICK n \in T : \A k \in T : <<k, n>> \notin R
  <2> HIDE DEF R
  <2> QED BY <1>1, WFMin
<1>3. ASSUME NEW k \in T PROVE n <= k
  <2>1. ~(k < n)
    BY <1>2 DEF OpToRel
  <2> QED BY <2>1
<1> QED BY <1>3

LEMMA GreatestBelow ==
    ASSUME NEW m \in Nat, NEW S \in SUBSET (1..m), S # {}
    PROVE  \E i \in S : \A j \in S : j <= i
<1> DEFINE T == {n \in Nat : n <= m /\ m - n \in S}
<1>1. T \in SUBSET Nat /\ T # {}
  <2>1. PICK i \in S : TRUE
    OBVIOUS
  <2>2. m - i \in T
    BY <2>1
  <2> QED BY <2>2
<1>2. PICK n \in T : \A k \in T : n <= k
  <2> HIDE DEF T
  <2> QED BY <1>1, LeastNatural
<1>3. ASSUME NEW j \in S PROVE j <= m - n
  <2>1. j \in Int /\ j <= m /\ m - j \in Nat /\ m - j \in T
    OBVIOUS
  <2>2. n <= m - j /\ n \in Int
    BY <2>1, <1>2
  <2> QED BY <2>1, <2>2
<1> QED BY <1>2, <1>3

LEMMA ByteAt ==
    ASSUME NEW a \in Bytes
    PROVE  /\ Len(a) \in Nat
           /\ \A i \in 1..Len(a) : a[i] \in Byte /\ a[i] \in Int /\ 0 <= a[i] /\ a[i] <= 255
<1>1. Len(a) \in Nat /\ \A i \in 1..Len(a) : a[i] \in Byte
  BY DEF Bytes
<1>2. \A x \in Byte : x \in Int /\ 0 <= x /\ x <= 255
  BY DEF Byte
<1> QED BY <1>1, <1>2

\* A finite set has a least element in every strict order.
LEMMA LeastOf ==
    ASSUME NEW S, IsFiniteSet(S), S # {}, NEW R,
           \A x \in S : <<x, x>> \notin R,
           \A x, y, z \in S : <<x, y>> \in R /\ <<y, z>> \in R => <<x, z>> \in R
    PROVE  \E x \in S : \A y \in S : <<y, x>> \notin R
<1> DEFINE Bad == {X \in SUBSET S : X # {} /\ \A x \in X : \E y \in X : <<y, x>> \in R}
           Sizes == {Cardinality(X) : X \in Bad}
<1>1. SUFFICES ASSUME Bad # {} PROVE FALSE
  OBVIOUS
<1>2. \A X \in SUBSET S : IsFiniteSet(X) /\ Cardinality(X) \in Nat
  BY FS_Subset, FS_CardinalityType
<1>3. Sizes \in SUBSET Nat /\ Sizes # {}
  BY <1>1, <1>2
<1>4. PICK n \in Sizes : \A m \in Sizes : n <= m
  <2> HIDE DEF Sizes
  <2> QED BY <1>3, LeastNatural
<1>5. PICK X \in Bad : Cardinality(X) = n
  BY <1>4
<1>6. PICK x \in X : TRUE
  BY <1>5
<1>7. /\ X \ {x} \in SUBSET S
      /\ Cardinality(X \ {x}) = Cardinality(X) - 1
  BY <1>2, <1>5, FS_RemoveElement
<1>8. X \ {x} \notin Bad
  <2>1. Cardinality(X \ {x}) < n
    BY <1>2, <1>5, <1>7
  <2>2. ~(n <= Cardinality(X \ {x}))
    BY <2>1, <1>2, <1>5, <1>7
  <2> QED BY <1>4, <2>2
<1>9. PICK y \in X : <<y, x>> \in R
  BY <1>5, <1>6
<1>10. y \in X \ {x}
  BY <1>5, <1>9
<1>11. PICK z \in X \ {x} : \A w \in X \ {x} : <<w, z>> \notin R
  BY <1>7, <1>8, <1>10
<1>12. PICK w \in X : <<w, z>> \in R
  BY <1>5, <1>11
<1>13. w = x
  BY <1>11, <1>12
<1>14. <<y, z>> \in R
  BY <1>5, <1>9, <1>11, <1>12, <1>13
<1> QED BY <1>10, <1>11, <1>14

\* Two byte strings are equal or one is before the other.
LEMMA BeforeTotal ==
    ASSUME NEW a \in Bytes, NEW b \in Bytes
    PROVE  a = b \/ Before(a, b) \/ Before(b, a)
<1> DEFINE D == {n \in 1..Len(a) : n <= Len(b) /\ a[n] # b[n]}
<1>0. Len(a) \in Nat /\ Len(b) \in Nat
  BY DEF Bytes
<1>1. CASE D = {}
  <2>0. \A i \in 1..Len(a) : i <= Len(b) => a[i] = b[i]
    BY <1>1
  <2>1. CASE Len(a) = Len(b)
    BY <2>0, <2>1 DEF Bytes
  <2>2. CASE Len(a) < Len(b)
    <3>1. Len(a) + 1 \in 1..Len(b)
      BY <1>0, <2>2
    <3>2. \A i \in 1..(Len(a) + 1 - 1) : i <= Len(a) /\ a[i] = b[i]
      BY <1>0, <2>0, <2>2
    <3> QED BY <1>0, <3>1, <3>2 DEF Before
  <2>3. CASE Len(b) < Len(a)
    <3>1. Len(b) + 1 \in 1..Len(a)
      BY <1>0, <2>3
    <3>2. \A i \in 1..(Len(b) + 1 - 1) : i <= Len(b) /\ b[i] = a[i]
      BY <1>0, <2>0, <2>3
    <3> QED BY <1>0, <3>1, <3>2 DEF Before
  <2> QED BY <1>0, <2>1, <2>2, <2>3
<1>2. CASE D # {}
  <2>1. PICK n \in D : \A k \in D : n <= k
    <3>1. D \in SUBSET Nat
      BY <1>0
    <3> HIDE DEF D
    <3> QED BY <1>2, <3>1, LeastNatural
  <2>2. /\ n \in 1..Len(a) /\ n \in 1..Len(b) /\ a[n] # b[n]
        /\ \A i \in 1..(n - 1) : i <= Len(a) /\ i <= Len(b) /\ a[i] = b[i]
    BY <1>0, <2>1
  <2> HIDE DEF D
  <2>3. a[n] \in Int /\ b[n] \in Int
    BY <2>2, ByteAt
  <2>4. a[n] < b[n] \/ b[n] < a[n]
    BY <2>2, <2>3
  <2> QED BY <2>2, <2>4 DEF Before
<1> QED BY <1>1, <1>2

\* Nothing is both before and after another byte string, or before itself.
LEMMA BeforeAsymmetric ==
    ASSUME NEW a \in Bytes, NEW b \in Bytes, Before(a, b)
    PROVE  ~Before(b, a)
<1>0. Len(a) \in Nat /\ Len(b) \in Nat
  BY DEF Bytes
<1>1. PICK n \in 1..Len(b) : /\ \A i \in 1..(n - 1) : i <= Len(a) /\ a[i] = b[i]
                             /\ n <= Len(a) => a[n] < b[n]
  BY DEF Before
<1>2. SUFFICES ASSUME NEW k \in 1..Len(a),
                      \A i \in 1..(k - 1) : i <= Len(b) /\ b[i] = a[i],
                      k <= Len(b) => b[k] < a[k]
               PROVE  FALSE
  BY DEF Before
<1>3. n \in Nat /\ k \in Nat
  BY <1>0
<1>5. CASE k < n
  <2>1. k \in 1..(n - 1) /\ k \in 1..Len(a) /\ k <= Len(b)
    BY <1>0, <1>3, <1>5
  <2>2. a[k] = b[k] /\ b[k] < a[k]
    BY <2>1, <1>1, <1>2
  <2>3. a[k] \in Int
    BY <2>1, ByteAt
  <2> QED BY <2>2, <2>3
<1>6. CASE n < k
  <2>1. n \in 1..(k - 1) /\ n \in 1..Len(b) /\ n <= Len(a)
    BY <1>0, <1>3, <1>6
  <2>2. a[n] = b[n] /\ a[n] < b[n]
    BY <2>1, <1>1, <1>2
  <2>3. b[n] \in Int
    BY <2>1, ByteAt
  <2> QED BY <2>2, <2>3
<1>7. CASE n = k
  <2>1. a[n] < b[n] /\ b[n] < a[n]
    BY <1>0, <1>1, <1>2, <1>7
  <2>2. a[n] \in Int /\ b[n] \in Int
    BY <1>0, <1>7, ByteAt
  <2> QED BY <2>1, <2>2
<1> QED BY <1>0, <1>5, <1>6, <1>7

-----------------------------------------------------------------------------
(* The layout of a key. *)

LEMMA ConcatBytes ==
    ASSUME NEW a \in Bytes, NEW b \in Bytes
    PROVE  /\ a \o b \in Bytes
           /\ Len(a \o b) = Len(a) + Len(b)
           /\ \A i \in 1..Len(a) : (a \o b)[i] = a[i]
           /\ \A i \in 1..Len(b) : (a \o b)[Len(a) + i] = b[i]
<1>1. /\ a \o b \in Bytes
      /\ Len(a \o b) = Len(a) + Len(b)
      /\ \A i \in 1..(Len(a) + Len(b)) :
            (a \o b)[i] = IF i <= Len(a) THEN a[i] ELSE b[i - Len(a)]
  BY ConcatProperties DEF Bytes
<1>2. Len(a) \in Nat /\ Len(b) \in Nat
  BY ByteAt
<1> QED BY <1>1, <1>2

LEMMA Uint16Bytes ==
    ASSUME NEW n \in Nat
    PROVE  appendUint16(n) \in Bytes /\ Len(appendUint16(n)) = 2
<1>1. (n \div 256) % 256 \in Byte /\ n % 256 \in Byte
  BY DEF Byte
<1> QED BY <1>1 DEF appendUint16, Bytes

LEMMA Uint32Bytes ==
    ASSUME NEW n \in Nat
    PROVE  appendUint32(n) \in Bytes /\ Len(appendUint32(n)) = 4
<1>1. /\ (n \div 16777216) % 256 \in Byte /\ (n \div 65536) % 256 \in Byte
      /\ (n \div 256) % 256 \in Byte /\ n % 256 \in Byte
  BY SMT DEF Byte
<1> QED BY <1>1, SMT DEF appendUint32, Bytes

\* Two lengths below the bound with the same bytes are the same.
LEMMA Uint16Injective ==
    ASSUME NEW m \in Nat, NEW n \in Nat, m < 65536, n < 65536,
           appendUint16(m)[1] = appendUint16(n)[1], appendUint16(m)[2] = appendUint16(n)[2]
    PROVE  m = n
<1>1. (m \div 256) % 256 = (n \div 256) % 256 /\ m % 256 = n % 256
  BY SMT DEF appendUint16
<1> QED BY <1>1, SMT

LEMMA Uint32Injective ==
    ASSUME NEW m \in Nat, NEW n \in Nat, m < 4294967296, n < 4294967296,
           \A i \in 1..4 : appendUint32(m)[i] = appendUint32(n)[i]
    PROVE  m = n
<1>1. /\ appendUint32(m)[1] = appendUint32(n)[1] /\ appendUint32(m)[2] = appendUint32(n)[2]
      /\ appendUint32(m)[3] = appendUint32(n)[3] /\ appendUint32(m)[4] = appendUint32(n)[4]
  BY SMT
<1>2. /\ (m \div 16777216) % 256 = (n \div 16777216) % 256
      /\ (m \div 65536) % 256 = (n \div 65536) % 256
      /\ (m \div 256) % 256 = (n \div 256) % 256 /\ m % 256 = n % 256
  BY <1>1, SMT DEF appendUint32
<1> QED BY <1>2, SMT

LEMMA BucketStartShape ==
    ASSUME NEW b \in Bytes
    PROVE  /\ BucketStart(b) \in Bytes
           /\ Len(BucketStart(b)) = 3 + Len(b)
           /\ BucketStart(b)[1] = 2
           /\ BucketStart(b)[2] = appendUint16(Len(b))[1]
           /\ BucketStart(b)[3] = appendUint16(Len(b))[2]
           /\ \A i \in 1..Len(b) : BucketStart(b)[3 + i] = b[i]
<1> DEFINE g == appendUint16(Len(b))
           f == appendString16(b)
           s == BucketStart(b)
<1>0. Len(b) \in Nat
  BY ByteAt
<1>1. g \in Bytes /\ Len(g) = 2
  BY <1>0, Uint16Bytes
<1>2. f = g \o b
  BY DEF appendString16
<1>3. <<keyPrefixSecondary>> \in Bytes /\ Len(<<keyPrefixSecondary>>) = 1
      /\ <<keyPrefixSecondary>>[1] = 2
  BY DEF keyPrefixSecondary, Bytes, Byte
<1>4. s = <<keyPrefixSecondary>> \o f
  BY DEF BucketStart
<1> HIDE DEF g, f, s
<1>5. /\ f \in Bytes /\ Len(f) = 2 + Len(b)
      /\ \A i \in 1..2 : f[i] = g[i]
      /\ \A i \in 1..Len(b) : f[2 + i] = b[i]
  <2>1. /\ f \in Bytes /\ Len(f) = Len(g) + Len(b)
        /\ \A i \in 1..Len(g) : f[i] = g[i]
        /\ \A i \in 1..Len(b) : f[Len(g) + i] = b[i]
    BY <1>1, <1>2, ConcatBytes, Zenon
  <2> QED BY <2>1, <1>1
<1>6. /\ s \in Bytes /\ Len(s) = 3 + Len(b)
      /\ s[1] = 2
      /\ \A i \in 1..(2 + Len(b)) : s[1 + i] = f[i]
  BY <1>0, <1>3, <1>4, <1>5, ConcatBytes
<1>7. s[2] = g[1] /\ s[3] = g[2]
  <2>1. s[1 + 1] = f[1] /\ s[1 + 2] = f[2]
    BY <1>0, <1>6
  <2> QED BY <2>1, <1>5
<1>8. ASSUME NEW i \in 1..Len(b) PROVE s[3 + i] = b[i]
  <2>1. 2 + i \in 1..(2 + Len(b)) /\ 1 + (2 + i) = 3 + i
    BY <1>0
  <2>2. s[3 + i] = f[2 + i]
    BY <2>1, <1>6
  <2> QED BY <2>2, <1>5
<1> QED BY <1>6, <1>7, <1>8 DEF s, g

\* A key is the start of its bucket, the length of the name in four bytes, and
\* the name.
LEMMA KeyShape ==
    ASSUME NEW b \in Bytes, NEW k \in Bytes
    PROVE  /\ encodeSecondaryKey(b, k) \in Bytes
           /\ Len(encodeSecondaryKey(b, k)) = 7 + Len(b) + Len(k)
           /\ \A i \in 1..(3 + Len(b)) : encodeSecondaryKey(b, k)[i] = BucketStart(b)[i]
           /\ \A i \in 1..4 : encodeSecondaryKey(b, k)[3 + Len(b) + i] = appendUint32(Len(k))[i]
           /\ \A i \in 1..Len(k) : encodeSecondaryKey(b, k)[7 + Len(b) + i] = k[i]
<1> DEFINE s == BucketStart(b)
           g == appendUint32(Len(k))
           f == appendString32(k)
           e == encodeSecondaryKey(b, k)
<1>0. Len(b) \in Nat /\ Len(k) \in Nat
  BY ByteAt
<1>1. s \in Bytes /\ Len(s) = 3 + Len(b)
  BY BucketStartShape
<1>2. g \in Bytes /\ Len(g) = 4
  BY <1>0, Uint32Bytes
<1>3. f = g \o k
  BY DEF appendString32
<1>4. e = s \o f
  BY DEF encodeSecondaryKey, BucketStart
<1> HIDE DEF s, g, f, e
<1>5. /\ f \in Bytes /\ Len(f) = 4 + Len(k)
      /\ \A i \in 1..4 : f[i] = g[i]
      /\ \A i \in 1..Len(k) : f[4 + i] = k[i]
  <2>1. /\ f \in Bytes /\ Len(f) = Len(g) + Len(k)
        /\ \A i \in 1..Len(g) : f[i] = g[i]
        /\ \A i \in 1..Len(k) : f[Len(g) + i] = k[i]
    BY <1>2, <1>3, ConcatBytes, Zenon
  <2> QED BY <2>1, <1>2
<1>6. /\ e \in Bytes /\ Len(e) = Len(s) + Len(f)
      /\ \A i \in 1..Len(s) : e[i] = s[i]
      /\ \A i \in 1..Len(f) : e[Len(s) + i] = f[i]
  BY <1>1, <1>4, <1>5, ConcatBytes
<1>7. Len(e) = 7 + Len(b) + Len(k)
  BY <1>0, <1>1, <1>5, <1>6
<1>8. ASSUME NEW i \in 1..4 PROVE e[3 + Len(b) + i] = g[i]
  <2>1. i \in 1..Len(f)
    BY <1>0, <1>5
  <2> QED BY <2>1, <1>1, <1>5, <1>6
<1>9. ASSUME NEW i \in 1..Len(k) PROVE e[7 + Len(b) + i] = k[i]
  <2>1. 4 + i \in 1..Len(f) /\ Len(s) + (4 + i) = 7 + Len(b) + i
    BY <1>0, <1>1, <1>5
  <2>2. e[7 + Len(b) + i] = f[4 + i]
    BY <2>1, <1>6
  <2> QED BY <2>2, <1>5
<1> QED BY <1>1, <1>6, <1>7, <1>8, <1>9 DEF e, s, g

\* A key that runs on like the start of a bucket is a key of that bucket: no
\* name bleeds into another one.
LEMMA SameBucket ==
    ASSUME NEW b, NEW c, StorableBucket(b), StorableBucket(c), NEW k \in Bytes,
           StartsWith(encodeSecondaryKey(c, k), BucketStart(b))
    PROVE  b = c
<1>0. b \in Bytes /\ c \in Bytes
  BY DEF StorableBucket
<1>1. Len(b) \in Nat /\ Len(c) \in Nat
  BY <1>0, ByteAt
<1>2. Len(b) < 65536 /\ Len(c) < 65536
  BY SMT DEF StorableBucket
<1> DEFINE e == encodeSecondaryKey(c, k)
           s == BucketStart(b)
           r == BucketStart(c)
<1>3. /\ Len(s) = 3 + Len(b) /\ Len(r) = 3 + Len(c)
      /\ s[2] = appendUint16(Len(b))[1] /\ s[3] = appendUint16(Len(b))[2]
      /\ r[2] = appendUint16(Len(c))[1] /\ r[3] = appendUint16(Len(c))[2]
  BY <1>0, BucketStartShape
<1>4. /\ \A i \in 1..Len(b) : s[3 + i] = b[i]
      /\ \A i \in 1..Len(c) : r[3 + i] = c[i]
  BY <1>0, BucketStartShape
<1>5. \A i \in 1..(3 + Len(c)) : e[i] = r[i]
  BY <1>0, KeyShape
<1>6. \A i \in 1..(3 + Len(b)) : e[i] = s[i]
  BY <1>3 DEF StartsWith
<1> HIDE DEF e, s, r
<1>7. s[2] = r[2] /\ s[3] = r[3]
  <2>1. 2 \in 1..(3 + Len(b)) /\ 2 \in 1..(3 + Len(c)) /\ 3 \in 1..(3 + Len(b)) /\ 3 \in 1..(3 + Len(c))
    BY <1>1
  <2> QED BY <2>1, <1>5, <1>6
<1>8. Len(b) = Len(c)
  <2>1. /\ appendUint16(Len(b))[1] = appendUint16(Len(c))[1]
        /\ appendUint16(Len(b))[2] = appendUint16(Len(c))[2]
    BY <1>3, <1>7
  <2> QED BY <2>1, <1>1, <1>2, Uint16Injective, SMT
<1>9. ASSUME NEW i \in 1..Len(b) PROVE b[i] = c[i]
  <2>1. 3 + i \in 1..(3 + Len(b)) /\ 3 + i \in 1..(3 + Len(c))
    BY <1>1, <1>8
  <2>2. s[3 + i] = r[3 + i]
    BY <2>1, <1>5, <1>6
  <2> QED BY <2>2, <1>4, <1>8
<1> QED BY <1>0, <1>8, <1>9 DEF Bytes

\* And if it runs on like a whole key, it is that key.
LEMMA SameKey ==
    ASSUME NEW b, NEW c, StorableBucket(b), StorableBucket(c),
           NEW k, NEW p, StorableKey(k), StorableKey(p),
           StartsWith(encodeSecondaryKey(c, k), encodeSecondaryKey(b, p))
    PROVE  b = c /\ k = p
<1>0. b \in Bytes /\ c \in Bytes /\ k \in Bytes /\ p \in Bytes
  BY DEF StorableBucket, StorableKey
<1>1. Len(b) \in Nat /\ Len(k) \in Nat /\ Len(p) \in Nat
  BY <1>0, ByteAt
<1>2. Len(k) < 4294967296 /\ Len(p) < 4294967296
  BY <1>1, SMT DEF StorableKey
<1> DEFINE e == encodeSecondaryKey(c, k)
           d == encodeSecondaryKey(b, p)
<1>3. Len(d) = 7 + Len(b) + Len(p) /\ Len(e) = 7 + Len(c) + Len(k)
  BY <1>0, KeyShape
<1>4. Len(d) <= Len(e) /\ \A i \in 1..(7 + Len(b) + Len(p)) : e[i] = d[i]
  BY <1>3 DEF StartsWith
<1>5. /\ \A i \in 1..(3 + Len(b)) : d[i] = BucketStart(b)[i]
      /\ \A i \in 1..4 : d[3 + Len(b) + i] = appendUint32(Len(p))[i]
      /\ \A i \in 1..Len(p) : d[7 + Len(b) + i] = p[i]
  BY <1>0, KeyShape
<1>6. /\ \A i \in 1..4 : e[3 + Len(c) + i] = appendUint32(Len(k))[i]
      /\ \A i \in 1..Len(k) : e[7 + Len(c) + i] = k[i]
  BY <1>0, KeyShape
<1>7. b = c
  <2>1. Len(BucketStart(b)) = 3 + Len(b) /\ Len(e) \in Nat
    BY <1>0, <1>1, KeyShape, BucketStartShape, ByteAt
  <2> HIDE DEF d, e
  <2>2. Len(BucketStart(b)) <= Len(e)
    BY <1>1, <1>3, <1>4, <2>1
  <2>3. \A i \in 1..(3 + Len(b)) : e[i] = BucketStart(b)[i]
    BY <1>1, <1>4, <1>5
  <2>4. StartsWith(e, BucketStart(b))
    BY <2>1, <2>2, <2>3 DEF StartsWith
  <2> QED BY <1>0, <2>4, SameBucket DEF e
<1> HIDE DEF d, e
<1>8. ASSUME NEW i \in 1..4 PROVE appendUint32(Len(k))[i] = appendUint32(Len(p))[i]
  <2>1. 3 + Len(b) + i \in 1..(7 + Len(b) + Len(p))
    BY <1>1
  <2> QED BY <2>1, <1>4, <1>5, <1>6, <1>7
<1>9. Len(k) = Len(p)
  BY <1>1, <1>2, <1>8, Uint32Injective, SMT
<1>10. ASSUME NEW i \in 1..Len(p) PROVE k[i] = p[i]
  <2>1. 7 + Len(b) + i \in 1..(7 + Len(b) + Len(p))
    BY <1>1
  <2> QED BY <2>1, <1>4, <1>5, <1>6, <1>7, <1>9
<1> QED BY <1>0, <1>7, <1>9, <1>10 DEF Bytes

-----------------------------------------------------------------------------
(* Scans. *)

\* Byte strings that agree up to a position and differ there by order.
LEMMA FirstDifference ==
    ASSUME NEW a \in Bytes, NEW b \in Bytes, NEW n \in 1..Len(b), n <= Len(a),
           \A i \in 1..(n - 1) : a[i] = b[i], a[n] < b[n]
    PROVE  Before(a, b)
<1>1. Len(a) \in Nat /\ Len(b) \in Nat
  BY ByteAt
<1>2. \A i \in 1..(n - 1) : i <= Len(a)
  BY <1>1
<1> QED BY <1>1, <1>2 DEF Before

\* A byte string that is neither before b nor different from it in the first n
\* bytes goes on.
LEMMA NotBefore ==
    ASSUME NEW a \in Bytes, NEW b \in Bytes, NEW n \in 1..Len(b),
           \A i \in 1..(n - 1) : i <= Len(a) /\ a[i] = b[i], ~Before(a, b)
    PROVE  n <= Len(a) /\ a[n] >= b[n]
<1>1. Len(a) \in Nat /\ Len(b) \in Nat
  BY ByteAt
<1>2. n <= Len(a) /\ ~(a[n] < b[n])
  BY DEF Before
<1>3. a[n] \in Int /\ b[n] \in Int
  BY <1>1, <1>2, ByteAt
<1> QED BY <1>2, <1>3

\* A string that starts with b is not before it.
LEMMA StartsNotBefore ==
    ASSUME NEW a \in Bytes, NEW b \in Bytes, StartsWith(a, b)
    PROVE  ~Before(a, b)
<1>1. SUFFICES ASSUME NEW n \in 1..Len(b), n <= Len(a) => a[n] < b[n]
               PROVE  FALSE
  BY DEF Before
<1>2. n <= Len(a) /\ a[n] = b[n] /\ b[n] \in Int
  BY ByteAt DEF StartsWith
<1> QED BY <1>1, <1>2

\* The definition of the order, to be cited with its position.
LEMMA BeforeAt ==
    ASSUME NEW a, NEW b, NEW n \in 1..Len(b),
           \A i \in 1..(n - 1) : i <= Len(a) /\ a[i] = b[i],
           n <= Len(a) => a[n] < b[n]
    PROVE  Before(a, b)
BY Zenon DEF Before

\* The order of byte strings is transitive.
LEMMA BeforeTransitive ==
    ASSUME NEW a \in Bytes, NEW b \in Bytes, NEW c \in Bytes, Before(a, b), Before(b, c)
    PROVE  Before(a, c)
<1>0. Len(a) \in Nat /\ Len(b) \in Nat /\ Len(c) \in Nat
  BY ByteAt
<1>1. PICK m \in 1..Len(b) : /\ \A i \in 1..(m - 1) : i <= Len(a) /\ a[i] = b[i]
                             /\ m <= Len(a) => a[m] < b[m]
  BY DEF Before
<1>2. PICK n \in 1..Len(c) : /\ \A i \in 1..(n - 1) : i <= Len(b) /\ b[i] = c[i]
                             /\ n <= Len(b) => b[n] < c[n]
  BY DEF Before
<1>3. CASE m < n
  <2>1. m \in 1..Len(c) /\ m \in 1..(n - 1) /\ \A i \in 1..(m - 1) : i \in 1..(n - 1)
    BY <1>0, <1>3
  <2>2. \A i \in 1..(m - 1) : i <= Len(a) /\ a[i] = c[i]
    BY <2>1, <1>1, <1>2
  <2>3. m <= Len(a) => a[m] < c[m]
    BY <2>1, <1>1, <1>2
  <2> QED BY <2>1, <2>2, <2>3, BeforeAt
<1>4. CASE n <= m
  <2>1. n \in 1..Len(b) /\ \A i \in 1..(n - 1) : i \in 1..(m - 1)
    BY <1>0, <1>4
  <2>2. \A i \in 1..(n - 1) : i <= Len(a) /\ a[i] = c[i]
    BY <2>1, <1>1, <1>2
  <2>3. b[n] < c[n]
    BY <2>1, <1>2
  <2>4. n <= Len(a) => a[n] < c[n]
    <3>1. SUFFICES ASSUME n <= Len(a) PROVE a[n] < c[n]
      OBVIOUS
    <3>2. a[n] \in Int /\ b[n] \in Int /\ c[n] \in Int
      BY <1>0, <2>1, <3>1, ByteAt
    <3>3. a[n] = b[n] \/ a[n] < b[n]
      BY <1>0, <1>1, <1>4, <3>1, <3>2
    <3> QED BY <2>3, <3>2, <3>3
  <2> QED BY <2>2, <2>4, BeforeAt
<1> QED BY <1>0, <1>3, <1>4

\* The greatest byte below 0xFF is raised, the bytes behind it are cut off.
LEMMA IncrementShape ==
    ASSUME NEW b \in Bytes, \E i \in 1..Len(b) : b[i] < 255
    PROVE  \E m \in 1..Len(b) :
              /\ b[m] < 255
              /\ \A j \in 1..Len(b) : j > m => b[j] = 255
              /\ incrementBytes(b) \in Bytes /\ Len(incrementBytes(b)) = m
              /\ incrementBytes(b)[m] = b[m] + 1
              /\ \A i \in 1..(m - 1) : incrementBytes(b)[i] = b[i]
<1> DEFINE below == {i \in 1..Len(b) : b[i] < 255}
           m == CHOOSE i \in below : \A j \in below : j <= i
           u == incrementBytes(b)
<1>0. Len(b) \in Nat
  BY ByteAt
<1>1. m \in below /\ \A j \in below : j <= m
  <2>1. \E i \in below : \A j \in below : j <= i
    <3>1. below \in SUBSET (1..Len(b)) /\ below # {}
      OBVIOUS
    <3> HIDE DEF below
    <3> QED BY <3>1, <1>0, GreatestBelow
  <2> HIDE DEF below
  <2> QED BY <2>1
<1>2. u = [i \in 1..m |-> IF i = m THEN b[i] + 1 ELSE b[i]]
  BY <1>1 DEF incrementBytes
<1> HIDE DEF m
<1>3. /\ m \in 1..Len(b) /\ b[m] < 255 /\ b[m] \in Int
      /\ \A j \in 1..Len(b) : j > m => b[j] = 255
  <2>1. m \in 1..Len(b) /\ b[m] < 255
    BY <1>1
  <2>2. ASSUME NEW j \in 1..Len(b), j > m PROVE b[j] = 255
    <3>1. ~(b[j] < 255)
      BY <1>0, <1>1, <2>1, <2>2
    <3> QED BY <3>1, ByteAt
  <2> QED BY <2>1, <2>2, ByteAt
<1> HIDE DEF below
<1>4. /\ u \in Bytes /\ Len(u) = m /\ u[m] = b[m] + 1
      /\ \A i \in 1..(m - 1) : u[i] = b[i]
  <2>1. m \in Nat /\ m <= Len(b)
    BY <1>0, <1>3
  <2>2. ASSUME NEW i \in 1..m PROVE u[i] \in Byte
    <3>1. i \in 1..Len(b)
      BY <1>0, <2>1
    <3>2. b[i] \in Int /\ 0 <= b[i] /\ b[i] <= 255
      BY <3>1, ByteAt
    <3>3. u[i] = IF i = m THEN b[i] + 1 ELSE b[i]
      BY <1>2
    <3>4. u[i] \in Int /\ 0 <= u[i] /\ u[i] <= 255
      BY <1>3, <3>2, <3>3
    <3>5. \A x : x \in Int /\ 0 <= x /\ x <= 255 => x \in Byte
      BY DEF Byte
    <3> QED BY <3>4, <3>5, Zenon
  <2>3. u \in [1..m -> Byte]
    BY <1>2, <2>2
  <2>4. u \in Bytes /\ Len(u) = m
    BY <2>1, <2>3 DEF Bytes
  <2>5. \A i \in 1..(m - 1) : i \in 1..m /\ i # m
    BY <2>1
  <2> QED BY <1>2, <1>3, <2>1, <2>4, <2>5
<1> QED BY <1>3, <1>4 DEF u

\* What is before b is before its increment too.
LEMMA BeforeIncrement ==
    ASSUME NEW a \in Bytes, NEW b \in Bytes, \E i \in 1..Len(b) : b[i] < 255, Before(a, b)
    PROVE  Before(a, incrementBytes(b))
<1> DEFINE u == incrementBytes(b)
<1>0. Len(a) \in Nat /\ Len(b) \in Nat
  BY ByteAt
<1>1. PICK m \in 1..Len(b) :
        /\ \A j \in 1..Len(b) : j > m => b[j] = 255
        /\ u \in Bytes /\ Len(u) = m /\ u[m] = b[m] + 1
        /\ \A i \in 1..(m - 1) : u[i] = b[i]
  BY IncrementShape
<1> SUFFICES Before(a, u)
  OBVIOUS
<1> HIDE DEF u
<1>2. PICK n \in 1..Len(b) : /\ \A i \in 1..(n - 1) : i <= Len(a) /\ a[i] = b[i]
                             /\ n <= Len(a) => a[n] < b[n]
  BY DEF Before
<1>3. m \in Nat /\ n \in Nat /\ 1 <= m /\ 1 <= n
  BY <1>0
<1>4. CASE n < m
  <2>1. n \in 1..Len(u) /\ n \in 1..(m - 1)
    BY <1>1, <1>3, <1>4
  <2>2. \A i \in 1..(n - 1) : i <= Len(a) /\ a[i] = u[i]
    BY <1>1, <1>2, <1>3, <1>4
  <2>3. n <= Len(a) => a[n] < u[n]
    BY <1>1, <1>2, <2>1
  <2> QED BY <2>1, <2>2, <2>3, BeforeAt
<1>5. CASE m <= n
  <2>1. m \in 1..Len(u)
    BY <1>1, <1>3
  <2>2. \A i \in 1..(m - 1) : i <= Len(a) /\ a[i] = u[i]
    BY <1>1, <1>2, <1>3, <1>5
  <2>3. m <= Len(a) => a[m] < u[m]
    <3>1. SUFFICES ASSUME m <= Len(a) PROVE a[m] < b[m] + 1
      BY <1>1
    <3>2. m \in 1..Len(a) /\ a[m] \in Int /\ b[m] \in Int
      BY <1>0, <1>3, <3>1, ByteAt
    <3>3. m < n => a[m] = b[m]
      BY <1>2, <1>3
    <3>4. m = n => a[m] < b[m]
      BY <1>2, <3>1
    <3> QED BY <1>3, <1>5, <3>2, <3>3, <3>4
  <2> QED BY <2>1, <2>2, <2>3, BeforeAt
<1> QED BY <1>3, <1>4, <1>5

\* incrementBytes makes the upper bound of a prefix scan: what lies from b up
\* to its increment is what starts with b.
THEOREM IncrementScan ==
    ASSUME NEW b \in Bytes, NEW a \in Bytes, \E i \in 1..Len(b) : b[i] < 255
    PROVE  InScan(a, b, incrementBytes(b)) <=> StartsWith(a, b)
<1> DEFINE u == incrementBytes(b)
<1>0. Len(a) \in Nat /\ Len(b) \in Nat
  BY ByteAt
<1>1. PICK m \in 1..Len(b) :
        /\ b[m] < 255
        /\ \A j \in 1..Len(b) : j > m => b[j] = 255
        /\ u \in Bytes /\ Len(u) = m /\ u[m] = b[m] + 1
        /\ \A i \in 1..(m - 1) : u[i] = b[i]
  BY IncrementShape
<1> HIDE DEF u
<1>3. /\ m \in 1..Len(b) /\ b[m] < 255 /\ b[m] \in Int
      /\ \A j \in 1..Len(b) : j > m => b[j] = 255
  BY <1>1, ByteAt
<1>4. /\ u \in Bytes /\ Len(u) = m /\ u[m] = b[m] + 1
      /\ \A i \in 1..(m - 1) : u[i] = b[i]
  BY <1>1
<1>5. ASSUME InScan(a, b, u) PROVE StartsWith(a, b)
  <2>1. ~Before(a, b) /\ Before(a, u)
    BY <1>5 DEF InScan
  <2>2. PICK n \in 1..Len(u) : /\ \A i \in 1..(n - 1) : i <= Len(a) /\ a[i] = u[i]
                               /\ n <= Len(a) => a[n] < u[n]
    BY <2>1 DEF Before
  <2>3. n \in 1..m /\ n \in 1..Len(b)
    BY <1>0, <1>3, <1>4
  <2>4. \A i \in 1..(n - 1) : i <= Len(a) /\ a[i] = b[i]
    BY <1>0, <1>3, <1>4, <2>2, <2>3
  <2>5. n <= Len(a) /\ a[n] >= b[n]
    BY <2>1, <2>3, <2>4, NotBefore
  <2>6. a[n] < u[n] /\ a[n] \in Int /\ b[n] \in Int
    BY <1>0, <2>2, <2>3, <2>5, ByteAt
  <2>7. n = m /\ a[m] = b[m]
    <3>1. n # m => u[n] = b[n]
      BY <1>3, <1>4, <2>3
    <3>2. n = m
      BY <2>5, <2>6, <3>1
    <3> QED BY <1>4, <2>5, <2>6, <3>2
  <2>8. m <= Len(a) /\ \A i \in 1..m : a[i] = b[i]
    <3>1. \A i \in 1..m : i = m \/ i \in 1..(m - 1)
      BY <1>3
    <3> QED BY <2>4, <2>5, <2>7, <3>1
  <2> DEFINE D == {i \in 1..Len(b) : i > Len(a) \/ a[i] # b[i]}
  <2>9. CASE D = {}
    <3>1. \A i \in 1..Len(b) : i <= Len(a) /\ a[i] = b[i]
      BY <1>0, <2>9
    <3>2. Len(b) <= Len(a)
      BY <1>0, <3>1
    <3> QED BY <3>1, <3>2 DEF StartsWith
  <2>10. CASE D # {}
    <3>1. PICK k \in D : \A i \in D : k <= i
      <4>1. D \in SUBSET Nat
        BY <1>0
      <4> HIDE DEF D
      <4> QED BY <2>10, <4>1, LeastNatural
    <3>2. \A i \in 1..(k - 1) : i <= Len(a) /\ a[i] = b[i]
      BY <1>0, <3>1
    <3>3. k \in 1..Len(b)
      BY <3>1
    <3>4. k <= Len(a) /\ a[k] >= b[k]
      BY <2>1, <3>2, <3>3, NotBefore
    <3>5. k > m
      BY <1>0, <1>3, <2>8, <3>1, <3>3, <3>4
    <3>6. b[k] = 255 /\ k \in 1..Len(a)
      BY <1>0, <1>3, <3>3, <3>4, <3>5
    <3>7. a[k] = 255
      BY <3>4, <3>6, ByteAt
    <3> QED BY <1>0, <3>1, <3>4, <3>6, <3>7
  <2> QED BY <2>9, <2>10
<1>6. ASSUME StartsWith(a, b) PROVE InScan(a, b, u)
  <2>1. Len(b) <= Len(a) /\ \A i \in 1..Len(b) : a[i] = b[i]
    BY <1>6 DEF StartsWith
  <2>2. m \in 1..Len(u) /\ m <= Len(a) /\ a[m] < u[m]
    BY <1>0, <1>3, <1>4, <2>1
  <2>3. \A i \in 1..(m - 1) : a[i] = u[i]
    BY <1>0, <1>3, <1>4, <2>1
  <2>4. Before(a, u)
    BY <1>4, <2>2, <2>3, FirstDifference
  <2> QED BY <1>6, <2>4, StartsNotBefore DEF InScan
<1> QED BY <1>5, <1>6 DEF u

\* Distinct pairs of bucket and key have distinct entries in the index.
THEOREM SecondaryKeyInjective ==
    ASSUME NEW b, NEW c, StorableBucket(b), StorableBucket(c),
           NEW k, NEW p, StorableKey(k), StorableKey(p),
           encodeSecondaryKey(b, k) = encodeSecondaryKey(c, p)
    PROVE  b = c /\ k = p
<1>1. encodeSecondaryKey(b, k) \in Bytes
  BY KeyShape DEF StorableBucket, StorableKey
<1>2. StartsWith(encodeSecondaryKey(b, k), encodeSecondaryKey(c, p))
  BY <1>1, ByteAt DEF StartsWith
<1> QED BY <1>2, SameKey

\* A listing of a whole bucket finds exactly the keys of that bucket: the high
\* byte of a key's length is below the 0xFF that ends the scan.
THEOREM BucketScan ==
    ASSUME NEW b, NEW c, StorableBucket(b), StorableBucket(c), b # << >>,
           NEW k, StorableKey(k)
    PROVE  InScan(encodeSecondaryKey(c, k), LowerBound(b, << >>), UpperBound(b, << >>))
             <=> b = c
<1> DEFINE s == BucketStart(b)
           e == encodeSecondaryKey(c, k)
           u == s \o <<keyPrefixMax>>
<1>0. b \in Bytes /\ c \in Bytes /\ k \in Bytes
  BY DEF StorableBucket, StorableKey
<1>1. LowerBound(b, << >>) = s /\ UpperBound(b, << >>) = u
  BY DEF LowerBound, UpperBound, encodeBucketPrefix
<1>2. s \in Bytes /\ Len(s) = 3 + Len(b) /\ e \in Bytes /\ Len(e) = 7 + Len(c) + Len(k)
  BY <1>0, BucketStartShape, KeyShape
<1>3. Len(b) \in Nat /\ Len(c) \in Nat /\ Len(k) \in Nat
  BY <1>0, ByteAt
<1>4. <<keyPrefixMax>> \in Bytes /\ Len(<<keyPrefixMax>>) = 1 /\ <<keyPrefixMax>>[1] = 255
  BY DEF keyPrefixMax, Bytes, Byte
<1>5. /\ u \in Bytes /\ Len(u) = 4 + Len(b) /\ u[4 + Len(b)] = 255
      /\ \A i \in 1..(3 + Len(b)) : u[i] = s[i]
  <2> HIDE DEF s
  <2>1. /\ u \in Bytes /\ Len(u) = Len(s) + 1
        /\ \A i \in 1..Len(s) : u[i] = s[i]
        /\ \A i \in 1..1 : u[Len(s) + i] = <<keyPrefixMax>>[i]
    BY <1>2, <1>4, ConcatBytes
  <2>2. u[Len(s) + 1] = 255
    BY <2>1, <1>4
  <2> QED BY <2>1, <2>2, <1>2, <1>3
<1>6. ASSUME b = c PROVE InScan(e, s, u)
  <2>1. \A i \in 1..(3 + Len(b)) : e[i] = s[i]
    BY <1>0, <1>6, KeyShape
  <2>2. e[3 + Len(b) + 1] = appendUint32(Len(k))[1]
    <3>1. 1 \in 1..4
      OBVIOUS
    <3> QED BY <1>0, <1>6, <3>1, KeyShape
  <2>3. appendUint32(Len(k))[1] < 255
    <3>1. appendUint32(Len(k))[1] = (Len(k) \div 16777216) % 256
      BY SMT DEF appendUint32
    <3>2. Len(k) < 255 * 16777216
      BY SMT DEF StorableKey
    <3> QED BY <1>3, <3>1, <3>2, SMT
  <2> HIDE DEF s, e, u
  <2>4. StartsWith(e, s)
    BY <1>2, <1>3, <1>6, <2>1 DEF StartsWith
  <2>5. Before(e, u)
    <3> DEFINE n == 4 + Len(b)
    <3>1. 3 + Len(b) + 1 = n /\ n \in 1..Len(u) /\ n <= Len(e)
      BY <1>2, <1>3, <1>5, <1>6
    <3>2. e[n] < u[n]
      BY <1>5, <2>2, <2>3, <3>1
    <3>3. \A i \in 1..(n - 1) : e[i] = u[i]
      BY <1>3, <1>5, <2>1
    <3> HIDE DEF n
    <3> QED BY <1>2, <1>5, <3>1, <3>2, <3>3, FirstDifference
  <2> QED BY <1>2, <2>4, <2>5, StartsNotBefore DEF InScan
<1>7. ASSUME InScan(e, s, u) PROVE b = c
  <2> HIDE DEF s, e, u
  <2>1. ~Before(e, s) /\ Before(e, u)
    BY <1>7 DEF InScan
  <2>2. PICK n \in 1..Len(u) : /\ \A i \in 1..(n - 1) : i <= Len(e) /\ e[i] = u[i]
                               /\ n <= Len(e) => e[n] < u[n]
    BY <2>1 DEF Before
  <2>3. n \in Nat /\ n <= 4 + Len(b) /\ n >= 1
    BY <1>3, <1>5, <2>2
  <2>4. n = 4 + Len(b)
    <3>1. SUFFICES ASSUME n # 4 + Len(b) PROVE FALSE
      OBVIOUS
    <3>2. n \in 1..Len(s) /\ n \in 1..(3 + Len(b))
      BY <1>2, <1>3, <2>3, <3>1
    <3>3. \A i \in 1..(n - 1) : i <= Len(e) /\ e[i] = s[i]
      BY <1>3, <1>5, <2>2, <2>3, <3>2
    <3>4. n <= Len(e) /\ e[n] >= s[n]
      BY <1>2, <2>1, <3>2, <3>3, NotBefore
    <3>5. e[n] < s[n]
      BY <1>5, <2>2, <3>2, <3>4
    <3>6. n \in 1..Len(e)
      BY <1>2, <1>3, <2>3, <3>4
    <3>7. e[n] \in Int /\ s[n] \in Int
      BY <1>2, <3>2, <3>6, ByteAt
    <3> QED BY <3>4, <3>5, <3>7
  <2>5. \A i \in 1..(3 + Len(b)) : i <= Len(e) /\ e[i] = s[i]
    BY <1>3, <1>5, <2>2, <2>4
  <2>6. Len(s) <= Len(e)
    <3>1. 3 + Len(b) \in 1..(3 + Len(b))
      BY <1>3
    <3> QED BY <3>1, <1>2, <2>5
  <2>7. StartsWith(e, s)
    BY <1>2, <2>5, <2>6 DEF StartsWith
  <2> QED BY <1>0, <2>7, SameBucket DEF e, s
<1> QED BY <1>1, <1>6, <1>7 DEF e, s, u

\* A key of an object always holds a byte below 0xFF, so its increment is the
\* next byte string and not one of the same length.
LEMMA KeyHasLowByte ==
    ASSUME NEW b \in Bytes, NEW k \in Bytes
    PROVE  \E i \in 1..Len(encodeSecondaryKey(b, k)) : encodeSecondaryKey(b, k)[i] < 255
<1>1. Len(b) \in Nat /\ Len(k) \in Nat
  BY ByteAt
<1> DEFINE e == encodeSecondaryKey(b, k)
<1>2. /\ Len(e) = 7 + Len(b) + Len(k)
      /\ \A i \in 1..(3 + Len(b)) : e[i] = BucketStart(b)[i]
  BY KeyShape, Zenon
<1>3. BucketStart(b)[1] = 2
  BY BucketStartShape, Zenon
<1> HIDE DEF e
<1>4. 1 \in 1..Len(e) /\ 1 \in 1..(3 + Len(b)) /\ 2 < 255
  BY <1>1, <1>2
<1>5. e[1] = 2
  BY <1>2, <1>3, <1>4
<1> QED BY <1>4, <1>5 DEF e

\* A listing under a prefix finds the object whose key IS the prefix, and
\* nothing else: the length field stands before the name.
THEOREM PrefixScan ==
    ASSUME NEW b, NEW c, StorableBucket(b), StorableBucket(c), b # << >>,
           NEW k, NEW p, StorableKey(k), StorableKey(p), p # << >>
    PROVE  InScan(encodeSecondaryKey(c, k), LowerBound(b, p), UpperBound(b, p))
             <=> b = c /\ k = p
<1>0. b \in Bytes /\ c \in Bytes /\ k \in Bytes /\ p \in Bytes
  BY DEF StorableBucket, StorableKey
<1>1. /\ LowerBound(b, p) = encodeSecondaryKey(b, p)
      /\ UpperBound(b, p) = incrementBytes(encodeSecondaryKey(b, p))
  BY DEF LowerBound, UpperBound, encodeBucketKeyPrefix, encodeSecondaryKey
<1>2. encodeSecondaryKey(b, p) \in Bytes /\ encodeSecondaryKey(c, k) \in Bytes
  BY <1>0, KeyShape
<1>3. InScan(encodeSecondaryKey(c, k), LowerBound(b, p), UpperBound(b, p))
        <=> StartsWith(encodeSecondaryKey(c, k), encodeSecondaryKey(b, p))
  <2> DEFINE d == encodeSecondaryKey(b, p)
             e == encodeSecondaryKey(c, k)
  <2>1. \E i \in 1..Len(d) : d[i] < 255
    BY <1>0, KeyHasLowByte
  <2>2. d \in Bytes /\ e \in Bytes
    BY <1>2
  <2>3. LowerBound(b, p) = d /\ UpperBound(b, p) = incrementBytes(d)
    BY <1>1
  <2> HIDE DEF d, e
  <2>4. InScan(e, d, incrementBytes(d)) <=> StartsWith(e, d)
    BY <2>1, <2>2, IncrementScan
  <2> QED BY <2>3, <2>4 DEF d, e
<1>4. StartsWith(encodeSecondaryKey(c, k), encodeSecondaryKey(c, k))
  BY <1>2, ByteAt DEF StartsWith
<1> QED BY <1>3, <1>4, SameKey

\* A listing goes on after its cursor with exactly the keys behind it: none is
\* repeated and none is skipped.
THEOREM CursorScan ==
    ASSUME NEW b, NEW c, StorableBucket(b), StorableBucket(c),
           NEW k, NEW p, StorableKey(k), StorableKey(p)
    PROVE  ~Before(encodeSecondaryKey(c, k), incrementBytes(encodeSecondaryKey(b, p)))
             <=> Before(encodeSecondaryKey(b, p), encodeSecondaryKey(c, k))
<1> DEFINE d == encodeSecondaryKey(b, p)
           e == encodeSecondaryKey(c, k)
<1>0. d \in Bytes /\ e \in Bytes
  BY KeyShape DEF StorableBucket, StorableKey
<1>1. InScan(e, d, incrementBytes(d)) <=> StartsWith(e, d)
  BY <1>0, KeyHasLowByte, IncrementScan DEF StorableBucket, StorableKey
<1>2. StartsWith(e, d) => e = d
  BY SameKey
<1>3. StartsWith(d, d)
  BY <1>0, ByteAt DEF StartsWith
<1> HIDE DEF d, e
<1>4. InScan(e, d, incrementBytes(d)) <=> e = d
  BY <1>1, <1>2, <1>3
<1>5. Before(e, d) => Before(e, incrementBytes(d))
  <2>1. SUFFICES ASSUME Before(e, d) PROVE Before(e, incrementBytes(d))
    OBVIOUS
  <2> QED BY <2>1, <1>0, KeyHasLowByte, BeforeIncrement DEF d, StorableBucket, StorableKey
<1>6. Before(e, d) \/ e = d \/ Before(d, e)
  BY <1>0, BeforeTotal
<1>7. Before(d, e) => ~Before(e, d) /\ e # d
  <2>1. Before(d, e) => ~Before(e, d)
    BY <1>0, BeforeAsymmetric
  <2> QED BY <2>1
<1> QED BY <1>4, <1>5, <1>6, <1>7 DEF InScan, d, e

\* The length fields of a key read back.
LEMMA Uint16Value ==
    ASSUME NEW n \in Nat, n < 65536
    PROVE  256 * appendUint16(n)[1] + appendUint16(n)[2] = n
BY SMT DEF appendUint16

LEMMA Uint32Value ==
    ASSUME NEW n \in Nat, n < 4294967296
    PROVE  16777216 * appendUint32(n)[1] + 65536 * appendUint32(n)[2]
             + 256 * appendUint32(n)[3] + appendUint32(n)[4] = n
BY SMT DEF appendUint32

LEMMA Slice ==
    ASSUME NEW e \in Bytes, NEW p \in Bytes, NEW n \in Nat, n + Len(p) <= Len(e),
           \A i \in 1..Len(p) : e[n + i] = p[i]
    PROVE  SubSeq(e, n + 1, n + Len(p)) = p
<1> DEFINE q == SubSeq(e, n + 1, n + Len(p))
<1>0. Len(e) \in Nat /\ Len(p) \in Nat
  BY ByteAt
<1>1. q \in Bytes /\ Len(q) = Len(p) /\ \A i \in 1..Len(p) : q[i] = e[n + i]
  <2>1. ASSUME NEW i \in (n + 1)..(n + Len(p)) PROVE e[i] \in Byte
    <3>1. i \in 1..Len(e)
      BY <1>0
    <3> QED BY <3>1, ByteAt
  <2>2. /\ q \in Seq(Byte)
        /\ Len(q) = IF n + 1 <= n + Len(p) THEN n + Len(p) - (n + 1) + 1 ELSE 0
        /\ \A i \in 1..(n + Len(p) - (n + 1) + 1) : q[i] = e[n + 1 + i - 1]
    <3>1. n + 1 \in Int /\ n + Len(p) \in Int
      BY <1>0
    <3> HIDE DEF q
    <3> QED BY <2>1, <3>1, SubSeqProperties DEF q
  <2> HIDE DEF q
  <2>3. n + Len(p) - (n + 1) + 1 = Len(p)
    BY <1>0
  <2>4. \A i \in 1..Len(p) : n + 1 + i - 1 = n + i
    BY <1>0
  <2> QED BY <1>0, <2>2, <2>3, <2>4 DEF Bytes
<1> HIDE DEF q
<1>2. \A i \in 1..Len(p) : q[i] = p[i]
  BY <1>1
<1>3. q = p
  BY <1>1, <1>2 DEF Bytes
<1> QED BY <1>3 DEF q

\* Decoding a key gives the bucket and the name it was made of.
THEOREM KeyRoundTrip ==
    ASSUME NEW b, NEW k, StorableBucket(b), StorableKey(k)
    PROVE  decodeSecondaryKey(encodeSecondaryKey(b, k)) = [ok |-> TRUE, bucket |-> b, key |-> k]
<1> DEFINE e == encodeSecondaryKey(b, k)
           u == appendUint16(Len(b))
           v == appendUint32(Len(k))
<1>0. b \in Bytes /\ k \in Bytes
  BY DEF StorableBucket, StorableKey
<1>1. Len(b) \in Nat /\ Len(k) \in Nat
  BY <1>0, ByteAt
<1>2. /\ e \in Bytes /\ Len(e) = 7 + Len(b) + Len(k)
      /\ \A i \in 1..(3 + Len(b)) : e[i] = BucketStart(b)[i]
      /\ \A i \in 1..4 : e[3 + Len(b) + i] = v[i]
      /\ \A i \in 1..Len(k) : e[7 + Len(b) + i] = k[i]
  BY <1>0, KeyShape
<1>3. /\ BucketStart(b)[1] = 2 /\ BucketStart(b)[2] = u[1] /\ BucketStart(b)[3] = u[2]
      /\ \A i \in 1..Len(b) : BucketStart(b)[3 + i] = b[i]
  BY <1>0, BucketStartShape
<1>4. 256 * u[1] + u[2] = Len(b)
  <2>1. Len(b) < 65536
    BY SMT DEF StorableBucket
  <2> QED BY <1>1, <2>1, Uint16Value, SMT
<1>5. 16777216 * v[1] + 65536 * v[2] + 256 * v[3] + v[4] = Len(k)
  <2>1. Len(k) < 4294967296
    BY <1>1, SMT DEF StorableKey
  <2> QED BY <1>1, <2>1, Uint32Value, SMT
<1> HIDE DEF e, u, v
<1>6. e[1] = 2 /\ e[2] = u[1] /\ e[3] = u[2]
  <2>1. 1 \in 1..(3 + Len(b)) /\ 2 \in 1..(3 + Len(b)) /\ 3 \in 1..(3 + Len(b))
    BY <1>1
  <2> QED BY <2>1, <1>2, <1>3
<1>7. Uint16(e, 2) = Len(b)
  <2>1. Uint16(e, 2) = 256 * e[2] + e[2 + 1]
    BY DEF Uint16
  <2>2. 2 + 1 = 3
    OBVIOUS
  <2> QED BY <1>4, <1>6, <2>1, <2>2
<1> DEFINE pos == 4 + Len(b)
<1>8. e[pos] = v[1] /\ e[pos + 1] = v[2] /\ e[pos + 2] = v[3] /\ e[pos + 3] = v[4]
  <2>1. /\ e[3 + Len(b) + 1] = v[1] /\ e[3 + Len(b) + 2] = v[2]
        /\ e[3 + Len(b) + 3] = v[3] /\ e[3 + Len(b) + 4] = v[4]
    BY <1>2
  <2>2. /\ 3 + Len(b) + 1 = pos /\ 3 + Len(b) + 2 = pos + 1
        /\ 3 + Len(b) + 3 = pos + 2 /\ 3 + Len(b) + 4 = pos + 3
    BY <1>1
  <2> QED BY <2>1, <2>2
<1>9. Uint32(e, pos) = Len(k)
  <2> HIDE DEF pos
  <2> QED BY <1>5, <1>8, SMT DEF Uint32
<1>10. SubSeq(e, 4, pos - 1) = b
  <2>1. \A i \in 1..Len(b) : e[3 + i] = b[i]
    <3>1. \A i \in 1..Len(b) : 3 + i \in 1..(3 + Len(b))
      BY <1>1
    <3> QED BY <3>1, <1>2, <1>3
  <2>2. SubSeq(e, 3 + 1, 3 + Len(b)) = b
    <3>1. 3 \in Nat /\ 3 + Len(b) <= Len(e)
      BY <1>1, <1>2
    <3> QED BY <1>0, <1>2, <2>1, <3>1, Slice, Zenon
  <2>3. 3 + 1 = 4 /\ 3 + Len(b) = pos - 1
    BY <1>1
  <2> QED BY <2>2, <2>3
<1>11. SubSeq(e, pos + 4, pos + 3 + Len(k)) = k
  <2> DEFINE n == 7 + Len(b)
  <2>1. n \in Nat /\ n + Len(k) <= Len(e) /\ \A i \in 1..Len(k) : e[n + i] = k[i]
    BY <1>1, <1>2
  <2>2. n + 1 = pos + 4 /\ n + Len(k) = pos + 3 + Len(k)
    BY <1>1
  <2>3. SubSeq(e, n + 1, n + Len(k)) = k
    <3> HIDE DEF n
    <3> QED BY <1>0, <1>2, <2>1, Slice
  <2> QED BY <2>2, <2>3
<1>12. /\ ~(Len(e) < 3) /\ e[1] = keyPrefixSecondary
       /\ ~(Len(e) < pos + 3) /\ ~(Len(e) < pos + 3 + Len(k))
  BY <1>1, <1>2, <1>6 DEF keyPrefixSecondary
<1>13. decodeSecondaryKey(e) = [ok |-> TRUE, bucket |-> SubSeq(e, 4, pos - 1),
                                key |-> SubSeq(e, pos + 4, pos + 3 + Len(k))]
  <2> HIDE DEF pos
  <2>1. 4 + Uint16(e, 2) = pos
    BY <1>7 DEF pos
  <2> QED BY <1>9, <1>12, <2>1 DEF decodeSecondaryKey
<1> QED BY <1>10, <1>11, <1>13 DEF e

\* A listing of all buckets covers every key.
LEMMA WholeScan ==
    ASSUME NEW b, StorableBucket(b), NEW k, StorableKey(k), NEW p
    PROVE  InScan(encodeSecondaryKey(b, k), LowerBound(<< >>, p), UpperBound(<< >>, p))
<1> DEFINE e == encodeSecondaryKey(b, k)
<1>1. b \in Bytes /\ k \in Bytes
  BY DEF StorableBucket, StorableKey
<1>2. e \in Bytes /\ Len(e) = 7 + Len(b) + Len(k) /\ e[1] = 2
  <2>1. Len(b) \in Nat /\ Len(k) \in Nat
    BY <1>1, ByteAt
  <2>2. /\ e \in Bytes /\ Len(e) = 7 + Len(b) + Len(k)
        /\ \A i \in 1..(3 + Len(b)) : e[i] = BucketStart(b)[i]
    BY <1>1, KeyShape, Zenon
  <2>3. 1 \in 1..(3 + Len(b))
    BY <2>1
  <2>4. BucketStart(b)[1] = 2
    BY <1>1, BucketStartShape, Zenon
  <2> HIDE DEF e
  <2> QED BY <2>2, <2>3, <2>4
<1>3. Len(e) \in Nat /\ 1 <= Len(e)
  BY <1>1, <1>2, ByteAt
<1>4. LowerBound(<< >>, p) = <<2>> /\ UpperBound(<< >>, p) = <<3>>
  BY DEF LowerBound, UpperBound, keyPrefixSecondary
<1> HIDE DEF e
<1>5. ~Before(e, <<2>>)
  BY <1>2, <1>3 DEF Before
<1>6. Before(e, <<3>>)
  BY <1>2, <1>3 DEF Before
<1> QED BY <1>4, <1>5, <1>6 DEF InScan, e

-----------------------------------------------------------------------------
(* The order of places, and the bounds of a listing. *)

\* All names fit their length fields in a key, as those of at most
\* MaxBucketLength and MaxKeyLength bytes do.
NamesFit == /\ \A b \in Buckets : StorableBucket(b)
            /\ \A k \in Keys \cup Prefixes : StorableKey(k)

LEMMA KeyNotEmpty ==
    ASSUME NEW b \in Bytes, NEW k \in Bytes
    PROVE  encodeSecondaryKey(b, k) \in Bytes /\ encodeSecondaryKey(b, k) # << >>
<1> DEFINE e == encodeSecondaryKey(b, k)
<1>1. Len(b) \in Nat /\ Len(k) \in Nat
  BY ByteAt
<1>2. e \in Bytes /\ Len(e) = 7 + Len(b) + Len(k)
  BY KeyShape
<1> HIDE DEF e
<1>3. e # << >>
  BY <1>1, <1>2
<1> QED BY <1>2, <1>3 DEF e

LEMMA PlaceKey ==
    ASSUME NamesFit, NEW l \in Locs
    PROVE  /\ StorableBucket(l.bucket) /\ StorableKey(l.key)
           /\ l.bucket \in Bytes /\ l.key \in Bytes
           /\ SecondaryKey[l] = encodeSecondaryKey(l.bucket, l.key)
           /\ SecondaryKey[l] \in Bytes /\ SecondaryKey[l] # << >>
<1>1. l.bucket \in Buckets /\ l.key \in Keys
  BY DEF Locs
<1>2. StorableBucket(l.bucket) /\ StorableKey(l.key)
  BY <1>1 DEF NamesFit
<1>3. l.bucket \in Bytes /\ l.key \in Bytes
  BY <1>2 DEF StorableBucket, StorableKey
<1>4. SecondaryKey[l] = encodeSecondaryKey(l.bucket, l.key)
  BY DEF SecondaryKey
<1>5. SecondaryKey[l] \in Bytes /\ SecondaryKey[l] # << >>
  BY <1>3, <1>4, KeyNotEmpty
<1> QED BY <1>2, <1>3, <1>4, <1>5

LEMMA PlaceOfKey ==
    ASSUME NamesFit, NEW l \in Locs, NEW m \in Locs, SecondaryKey[l] = SecondaryKey[m]
    PROVE  l = m
<1>1. l.bucket = m.bucket /\ l.key = m.key
  BY PlaceKey, SecondaryKeyInjective
<1> QED BY <1>1 DEF Locs

LEMMA PrecedesDef ==
    ASSUME NEW l \in Locs, NEW m \in Locs
    PROVE  <<l, m>> \in Precedes <=> Before(SecondaryKey[l], SecondaryKey[m])
BY DEF Precedes

\* The index orders places strictly and totally.
LEMMA PlacesOrdered ==
    ASSUME NamesFit
    PROVE  /\ \A l \in Locs : <<l, l>> \notin Precedes
           /\ \A l, m \in Locs : l = m \/ <<l, m>> \in Precedes \/ <<m, l>> \in Precedes
           /\ \A l, m, n \in Locs : <<l, m>> \in Precedes /\ <<m, n>> \in Precedes
                                      => <<l, n>> \in Precedes
<1>1. ASSUME NEW l \in Locs PROVE <<l, l>> \notin Precedes
  BY PlaceKey, PrecedesDef, BeforeAsymmetric
<1>2. ASSUME NEW l \in Locs, NEW m \in Locs
      PROVE  l = m \/ <<l, m>> \in Precedes \/ <<m, l>> \in Precedes
  BY PlaceKey, PrecedesDef, BeforeTotal, PlaceOfKey
<1>3. ASSUME NEW l \in Locs, NEW m \in Locs, NEW n \in Locs,
             <<l, m>> \in Precedes, <<m, n>> \in Precedes
      PROVE  <<l, n>> \in Precedes
  BY <1>3, PlaceKey, PrecedesDef, BeforeTransitive
<1> QED BY <1>1, <1>2, <1>3

\* Without a cursor, the bounds hold the places that the request finds.
LEMMA BoundsFind ==
    ASSUME NamesFit, NEW scan \in Scans, NEW l \in Locs
    PROVE  InScan(SecondaryKey[l], LowerBound(scan.bucket, scan.prefix),
                  UpperBound(scan.bucket, scan.prefix)) <=> Finds(scan, l)
<1>1. /\ StorableBucket(l.bucket) /\ StorableKey(l.key)
      /\ SecondaryKey[l] = encodeSecondaryKey(l.bucket, l.key)
  BY PlaceKey
<1>2. scan.bucket \in Buckets \cup {<< >>} /\ scan.prefix \in Prefixes
  BY DEF Scans
<1>3. CASE scan.bucket = << >>
  BY <1>1, <1>3, WholeScan DEF Finds
<1>4. CASE scan.bucket # << >> /\ scan.prefix = << >>
  <2>1. StorableBucket(scan.bucket)
    BY <1>2, <1>4 DEF NamesFit
  <2>2. InScan(SecondaryKey[l], LowerBound(scan.bucket, << >>), UpperBound(scan.bucket, << >>))
          <=> scan.bucket = l.bucket
    BY <1>1, <1>4, <2>1, BucketScan
  <2> QED BY <1>4, <2>2 DEF Finds
<1>5. CASE scan.bucket # << >> /\ scan.prefix # << >>
  <2>1. StorableBucket(scan.bucket) /\ StorableKey(scan.prefix)
    BY <1>2, <1>5 DEF NamesFit
  <2>2. InScan(SecondaryKey[l], LowerBound(scan.bucket, scan.prefix),
               UpperBound(scan.bucket, scan.prefix))
          <=> scan.bucket = l.bucket /\ l.key = scan.prefix
    BY <1>1, <1>5, <2>1, PrefixScan
  <2> QED BY <1>5, <2>2 DEF Finds
<1> QED BY <1>3, <1>4, <1>5

LEMMA CoveredFirst ==
    ASSUME NamesFit, NEW scan \in Scans, NEW l \in Locs
    PROVE  <<scan, << >>, l>> \in Covered <=> Finds(scan, l)
<1>1. << >> \in Cursors
  BY DEF Cursors
<1>2. <<scan, << >>, l>> \in Covered
        <=> InScan(SecondaryKey[l], LowerBound(scan.bucket, scan.prefix),
                   UpperBound(scan.bucket, scan.prefix))
  BY <1>1 DEF Covered, Lower
<1> QED BY <1>2, BoundsFind

LEMMA LowerBoundBytes ==
    ASSUME NamesFit, NEW scan \in Scans
    PROVE  LowerBound(scan.bucket, scan.prefix) \in Bytes
<1>1. scan.bucket \in Buckets \cup {<< >>} /\ scan.prefix \in Prefixes
  BY DEF Scans
<1>2. scan.bucket \in Bytes /\ scan.prefix \in Bytes
  <2>1. << >> \in Bytes
    BY DEF Bytes
  <2> QED BY <1>1, <2>1 DEF NamesFit, StorableBucket, StorableKey
<1>3. <<keyPrefixSecondary>> \in Bytes
  BY DEF keyPrefixSecondary, Bytes, Byte
<1>4. BucketStart(scan.bucket) \in Bytes
  BY <1>2, BucketStartShape
<1>5. encodeBucketKeyPrefix(scan.bucket, scan.prefix) \in Bytes
  BY <1>2, KeyShape DEF encodeBucketKeyPrefix, encodeSecondaryKey
<1> QED BY <1>3, <1>4, <1>5 DEF LowerBound

\* From the cursor of a place m on, a page holds places behind m; and if the
\* request finds m itself, exactly those behind m that it finds.
LEMMA CoveredNext ==
    ASSUME NamesFit, NEW scan \in Scans, NEW l \in Locs, NEW m \in Locs
    PROVE  /\ <<scan, SecondaryKey[m], l>> \in Covered => <<m, l>> \in Precedes
           /\ Finds(scan, m) => (<<scan, SecondaryKey[m], l>> \in Covered
                                   <=> <<m, l>> \in Precedes /\ Finds(scan, l))
<1> DEFINE k == SecondaryKey[l]
           c == SecondaryKey[m]
           low == LowerBound(scan.bucket, scan.prefix)
           up == UpperBound(scan.bucket, scan.prefix)
<1>1. c \in Cursors /\ c # << >> /\ c \in Bytes /\ k \in Bytes
  BY PlaceKey DEF Cursors
<1>2. <<scan, c, l>> \in Covered <=> InScan(k, incrementBytes(c), up)
  BY <1>1 DEF Covered, Lower
<1>3. ~Before(k, incrementBytes(c)) <=> Before(c, k)
  BY PlaceKey, CursorScan
<1>4. <<m, l>> \in Precedes <=> Before(c, k)
  BY PrecedesDef
<1>5. /\ InScan(k, low, up) <=> Finds(scan, l)
      /\ InScan(c, low, up) <=> Finds(scan, m)
  BY BoundsFind
<1>6. low \in Bytes
  BY LowerBoundBytes
<1> HIDE DEF k, c, low, up
<1>7. ASSUME InScan(c, low, up), Before(c, k) PROVE ~Before(k, low)
  BY <1>1, <1>6, <1>7, BeforeTransitive DEF InScan
<1>8. <<scan, c, l>> \in Covered <=> Before(c, k) /\ Before(k, up)
  BY <1>2, <1>3 DEF InScan
<1>9. Finds(scan, m) => (<<scan, c, l>> \in Covered <=> Before(c, k) /\ Finds(scan, l))
  BY <1>5, <1>7, <1>8 DEF InScan
<1> QED BY <1>4, <1>8, <1>9 DEF c

-----------------------------------------------------------------------------
(* The inductive invariant. *)

\* Two records are never at one place, and the snapshot of the iterator has one
\* entry for each record and each place.
OnePlace == \A i, j \in Present : at[i] = at[j] => i = j

Snapshot == \A e, f \in iter.ahead : e.id = f.id \/ e.loc = f.loc => e = f

\* Which of caller and iterator has the listing.
Turns ==
    /\ ~iter.open => iter = Closed
    /\ iter.open => paging.active
    /\ paging.active => paging.req \in Requests
    /\ iter.end = "exhausted" => iter.ahead = {}
    /\ paging.blind => iter.open /\ iter.ahead = {} /\ iter.lastKey = << >>
    /\ paging.steady \subseteq Present

\* c is the key of the last place visited.
LastVisited(c) ==
    \E l \in paging.visited : /\ c = SecondaryKey[l]
                              /\ \A k \in paging.visited \ {l} : <<k, l>> \in Precedes

\* What was visited is behind the iterator, and behind the cursor between two
\* pages.
Behind ==
    /\ \A k \in paging.visited, e \in iter.ahead : <<k, e.loc>> \in Precedes
    /\ iter.open => iter.lastKey = << >> \/ LastVisited(iter.lastKey)
    /\ ~iter.open /\ paging.active => LastVisited(cursor)

\* In a listing that began without a cursor, what is visited or ahead is what
\* the request finds.
Asked ==
    paging.own => /\ \A l \in paging.visited : Finds(paging.req.scan, l)
                  /\ \A e \in iter.ahead : Finds(paging.req.scan, e.loc)

\* A record of such a listing that has not changed was visited, or is still
\* ahead: in the snapshot of this page, or behind the cursor.
Ahead(i) == IF iter.open THEN [id |-> i, loc |-> at[i]] \in iter.ahead
            ELSE \A l \in Locs : cursor = SecondaryKey[l] => <<l, at[i]>> \in Precedes

Awaited ==
    paging.active /\ paging.own /\ ~paging.blind =>
        \A i \in paging.steady : Finds(paging.req.scan, at[i]) =>
            at[i] \in paging.visited \/ Ahead(i)

\* An entry that does not agree with its record is of one that changed.
Current == \A e \in iter.ahead : at[e.id] = e.loc \/ e.id \in paging.changed

IInv == TypeOK /\ OnePlace /\ Snapshot /\ Turns /\ Behind /\ Asked /\ Awaited /\ Current

IterType == [open: BOOLEAN, ahead: SUBSET [id: Ids, loc: Locs],
             limit: 0..MaxListLimit, count: 0..MaxListLimit,
             lastKey: Cursors, end: {"none", "limit", "exhausted", "error"}]

LEMMA PresentAt ==
    ASSUME TypeOK, NEW i \in Present
    PROVE  i \in Ids /\ at[i] \in Locs
BY DEF TypeOK, Present

\* The entry the iterator comes to is one of its snapshot, and before the rest.
LEMMA LeastAhead ==
    ASSUME NamesFit, TypeOK, Snapshot, iter.ahead # {}
    PROVE  /\ Least(iter.ahead) \in iter.ahead
           /\ \A f \in iter.ahead \ {Least(iter.ahead)} :
                 <<Least(iter.ahead).loc, f.loc>> \in Precedes
<1> DEFINE A == iter.ahead
           g == [e \in A |-> e.id]
           R == {p \in A \X A : <<p[1].loc, p[2].loc>> \in Precedes}
<1>1. A \in SUBSET [id: Ids, loc: Locs]
  BY DEF TypeOK
<1>2. \A e \in A : e.id \in Ids /\ e.loc \in Locs
  BY <1>1
<1>3. IsFiniteSet(A)
  <2>1. g \in [A -> Ids]
    BY <1>2
  <2>2. \A e, f \in A : g[e] = g[f] => e = f
    BY DEF Snapshot
  <2>3. g \in Injection(A, Ids)
    BY <2>1, <2>2 DEF Injection, IsInjective
  <2> QED BY <2>3, FS_Injection, ListingAssumption
<1>4. /\ \A x \in A : <<x, x>> \notin R
      /\ \A x, y, z \in A : <<x, y>> \in R /\ <<y, z>> \in R => <<x, z>> \in R
  <2>1. \A x, y \in A : <<x, y>> \in R <=> <<x.loc, y.loc>> \in Precedes
    OBVIOUS
  <2>2. \A x \in A : <<x, x>> \notin R
    BY <1>2, <2>1, PlacesOrdered
  <2>3. ASSUME NEW x \in A, NEW y \in A, NEW z \in A, <<x, y>> \in R, <<y, z>> \in R
        PROVE  <<x, z>> \in R
    BY <1>2, <2>1, <2>3, PlacesOrdered
  <2> QED BY <2>2, <2>3
<1>5. \E x \in A : \A y \in A : <<y, x>> \notin R
  <2> HIDE DEF R, A
  <2> QED BY <1>3, <1>4, LeastOf DEF A
<1>6. \E x \in A : \A y \in A : <<y.loc, x.loc>> \notin Precedes
  BY <1>5
<1>7. Least(A) \in A /\ \A y \in A : <<y.loc, Least(A).loc>> \notin Precedes
  BY <1>6, Zenon DEF Least
<1>8. ASSUME NEW f \in A \ {Least(A)} PROVE <<Least(A).loc, f.loc>> \in Precedes
  <2>1. f.loc # Least(A).loc
    BY <1>7 DEF Snapshot
  <2>2. <<f.loc, Least(A).loc>> \notin Precedes
    BY <1>7
  <2> QED BY <1>2, <1>7, <2>1, <2>2, PlacesOrdered
<1> QED BY <1>7, <1>8

-----------------------------------------------------------------------------
(* The steps of caller, iterator and writers. *)

\* A page begins: the snapshot that the iterator starts from.
LEMMA PageBegins ==
    ASSUME TypeOK, OnePlace, NEW req, req.limit \in Int, NEW c, NEW fails \in BOOLEAN,
           iter' = Listing(req, c, fails), at' = at
    PROVE  /\ iter' \in IterType /\ iter'.count <= iter'.limit
           /\ iter'.open /\ iter'.end = "none" /\ iter'.lastKey = << >>
           /\ \A e \in iter'.ahead : /\ e.id \in Present /\ e.loc = at[e.id] /\ e.loc \in Locs
                                     /\ ~fails /\ <<req.scan, c, e.loc>> \in Covered
           /\ ~fails => \A i \in Present : <<req.scan, c, at[i]>> \in Covered
                                             => [id |-> i, loc |-> at[i]] \in iter'.ahead
           /\ Snapshot'
<1> DEFINE found == {i \in Present : ~fails /\ <<req.scan, c, at[i]>> \in Covered}
           entries == {[id |-> i, loc |-> at[i]] : i \in found}
<1>1. Limit(req.limit) \in 0..MaxListLimit
  BY ListingAssumption DEF Limit
<1>2. iter' = [open |-> TRUE, ahead |-> entries, limit |-> Limit(req.limit), count |-> 0,
               lastKey |-> << >>, end |-> "none"]
  BY DEF Listing, Closed
<1>10. \A i : i \in found <=> i \in Present /\ ~fails /\ <<req.scan, c, at[i]>> \in Covered
  OBVIOUS
<1>11. \A i \in Present : i \in Ids /\ at[i] \in Locs
  BY PresentAt
<1> HIDE DEF found
<1>3. entries \in SUBSET [id: Ids, loc: Locs]
  <2>1. SUFFICES ASSUME NEW i \in found PROVE [id |-> i, loc |-> at[i]] \in [id: Ids, loc: Locs]
    OBVIOUS
  <2>2. i \in Ids /\ at[i] \in Locs
    BY <1>10, <1>11
  <2> QED BY <2>2
<1>4. iter' \in IterType /\ iter'.count <= iter'.limit
  <2>1. << >> \in Cursors
    BY DEF Cursors
  <2>2. 0 \in 0..MaxListLimit
    BY ListingAssumption
  <2>3. 0 <= Limit(req.limit)
    BY <1>1
  <2> HIDE DEF entries
  <2> QED BY <1>1, <1>2, <1>3, <2>1, <2>2, <2>3 DEF IterType
<1>5. \A e \in iter'.ahead : /\ e.id \in Present /\ e.loc = at[e.id] /\ e.loc \in Locs
                             /\ ~fails /\ <<req.scan, c, e.loc>> \in Covered
  BY <1>2, <1>10, <1>11
<1>6. \A e, f \in iter'.ahead : e.id = f.id \/ e.loc = f.loc => e = f
  <2>1. SUFFICES ASSUME NEW e \in entries, NEW f \in entries, e.id = f.id \/ e.loc = f.loc
                 PROVE  e = f
    BY <1>2
  <2>2. PICK i \in found : e = [id |-> i, loc |-> at[i]]
    OBVIOUS
  <2>3. PICK j \in found : f = [id |-> j, loc |-> at[j]]
    OBVIOUS
  <2>4. i = j
    BY <1>10, <2>1, <2>2, <2>3 DEF OnePlace
  <2> QED BY <2>2, <2>3, <2>4
<1>7. ~fails => \A i \in Present : <<req.scan, c, at[i]>> \in Covered
                                     => [id |-> i, loc |-> at[i]] \in iter'.ahead
  BY <1>2, <1>10
<1>8. iter'.open /\ iter'.end = "none" /\ iter'.lastKey = << >>
  BY <1>2
<1> HIDE DEF entries
<1>9. Snapshot'
  BY <1>6 DEF Snapshot
<1> QED BY <1>4, <1>5, <1>7, <1>8, <1>9

LEMMA BeginIInv ==
    ASSUME NamesFit, IInv, NEW req \in Requests, NEW c, NEW fails \in BOOLEAN, Begin(req, c, fails)
    PROVE  IInv'
<1>1. /\ iter' = Listing(req, c, fails) /\ at' = at /\ cursor' = c /\ c \in {<< >>, cursor}
      /\ paging' = [NoPaging EXCEPT !.active = TRUE, !.req = req, !.own = (c = << >>),
                                    !.blind = fails, !.steady = Present]
  BY DEF Begin
<1>2. /\ paging'.active /\ paging'.req = req /\ paging'.own = (c = << >>)
      /\ paging'.blind = fails /\ paging'.visited = {} /\ paging'.steady = Present
      /\ paging'.changed = {}
  BY <1>1 DEF NoPaging
<1>3. req.scan \in Scans /\ req.limit \in Int
  BY ListingAssumption DEF Requests
<1>4. /\ iter' \in IterType /\ iter'.count <= iter'.limit
      /\ iter'.open /\ iter'.end = "none" /\ iter'.lastKey = << >>
      /\ \A e \in iter'.ahead : /\ e.id \in Present /\ e.loc = at[e.id] /\ e.loc \in Locs
                                /\ ~fails /\ <<req.scan, c, e.loc>> \in Covered
      /\ ~fails => \A i \in Present : <<req.scan, c, at[i]>> \in Covered
                                        => [id |-> i, loc |-> at[i]] \in iter'.ahead
      /\ Snapshot'
  BY <1>1, <1>3, PageBegins DEF IInv
<1>5. Present' = Present
  BY <1>1 DEF Present
<1>6. TypeOK'
  <2>1. cursor' \in Cursors
    BY <1>1 DEF IInv, TypeOK, Cursors
  <2>2. paging' \in [active: BOOLEAN, req: Requests \cup {NoPaging.req}, own: BOOLEAN,
                     blind: BOOLEAN, visited: SUBSET Locs, steady: SUBSET Ids, changed: SUBSET Ids]
    BY <1>1 DEF NoPaging, Present
  <2> QED BY <1>1, <1>4, <2>1, <2>2 DEF IInv, TypeOK, IterType
<1>7. OnePlace'
  BY <1>1, <1>5 DEF IInv, OnePlace
<1>8. Turns'
  <2>1. fails => iter'.ahead = {}
    BY <1>4
  <2> QED BY <1>2, <1>4, <1>5, <2>1 DEF Turns
<1>9. Behind'
  BY <1>2, <1>4 DEF Behind
<1>10. Asked'
  <2>1. SUFFICES ASSUME c = << >>, NEW e \in iter'.ahead PROVE Finds(req.scan, e.loc)
    BY <1>2 DEF Asked
  <2> QED BY <1>3, <1>4, <2>1, CoveredFirst
<1>11. Awaited'
  <2>1. SUFFICES ASSUME c = << >>, ~fails, NEW i \in Present, Finds(req.scan, at[i])
                 PROVE  [id |-> i, loc |-> at[i]] \in iter'.ahead
    BY <1>1, <1>2, <1>4 DEF Awaited, Ahead
  <2>2. at[i] \in Locs
    BY PresentAt DEF IInv
  <2> QED BY <1>3, <1>4, <2>1, <2>2, CoveredFirst
<1>12. Current'
  BY <1>1, <1>4 DEF Current
<1> QED BY <1>4, <1>6, <1>7, <1>8, <1>9, <1>10, <1>11, <1>12 DEF IInv

LEMMA ContinueIInv ==
    ASSUME NamesFit, IInv, NEW fails \in BOOLEAN, Continue(fails)
    PROVE  IInv'
<1>1. /\ ~iter.open /\ paging.active /\ cursor # << >>
      /\ iter' = Listing(paging.req, cursor, fails) /\ at' = at /\ cursor' = cursor
      /\ paging' = [paging EXCEPT !.changed = {}, !.blind = fails]
  BY DEF Continue
<1>2. /\ paging'.active /\ paging'.req = paging.req /\ paging'.own = paging.own
      /\ paging'.blind = fails /\ paging'.visited = paging.visited
      /\ paging'.steady = paging.steady /\ paging'.changed = {}
  BY <1>1 DEF IInv, TypeOK
<1>3. paging.req \in Requests /\ paging.req.scan \in Scans /\ paging.req.limit \in Int
  BY <1>1, ListingAssumption DEF IInv, Turns, Requests
<1>4. /\ iter' \in IterType /\ iter'.count <= iter'.limit
      /\ iter'.open /\ iter'.end = "none" /\ iter'.lastKey = << >>
      /\ \A e \in iter'.ahead : /\ e.id \in Present /\ e.loc = at[e.id] /\ e.loc \in Locs
                                /\ ~fails /\ <<paging.req.scan, cursor, e.loc>> \in Covered
      /\ ~fails => \A i \in Present : <<paging.req.scan, cursor, at[i]>> \in Covered
                                        => [id |-> i, loc |-> at[i]] \in iter'.ahead
      /\ Snapshot'
  BY <1>1, <1>3, PageBegins DEF IInv
<1>5. Present' = Present
  BY <1>1 DEF Present
<1>6. PICK m \in paging.visited : /\ cursor = SecondaryKey[m]
                                  /\ \A k \in paging.visited \ {m} : <<k, m>> \in Precedes
  BY <1>1 DEF IInv, Behind, LastVisited
<1>7. m \in Locs /\ paging.visited \subseteq Locs
  BY DEF IInv, TypeOK
<1>8. TypeOK'
  <2>1. paging' \in [active: BOOLEAN, req: Requests \cup {NoPaging.req}, own: BOOLEAN,
                     blind: BOOLEAN, visited: SUBSET Locs, steady: SUBSET Ids, changed: SUBSET Ids]
    BY <1>1 DEF IInv, TypeOK
  <2> QED BY <1>1, <1>4, <2>1 DEF IInv, TypeOK, IterType
<1>9. OnePlace'
  BY <1>1, <1>5 DEF IInv, OnePlace
<1>10. Turns'
  <2>1. fails => iter'.ahead = {}
    BY <1>4
  <2>2. paging.steady \subseteq Present
    BY DEF IInv, Turns
  <2> QED BY <1>2, <1>3, <1>4, <1>5, <2>1, <2>2 DEF Turns
<1>11. Behind'
  <2>1. ASSUME NEW k \in paging.visited, NEW e \in iter'.ahead PROVE <<k, e.loc>> \in Precedes
    <3>1. <<m, e.loc>> \in Precedes
      BY <1>3, <1>4, <1>6, <1>7, CoveredNext
    <3>2. k = m \/ <<k, m>> \in Precedes
      BY <1>6
    <3> QED BY <1>4, <1>7, <3>1, <3>2, PlacesOrdered
  <2> QED BY <1>2, <1>4, <2>1 DEF Behind
<1>12. Asked'
  <2>1. SUFFICES ASSUME paging.own
                 PROVE  /\ \A l \in paging.visited : Finds(paging.req.scan, l)
                        /\ \A e \in iter'.ahead : Finds(paging.req.scan, e.loc)
    BY <1>2 DEF Asked
  <2>2. \A l \in paging.visited : Finds(paging.req.scan, l)
    BY <2>1 DEF IInv, Asked
  <2> QED BY <1>3, <1>4, <1>6, <1>7, <2>2, CoveredNext
<1>13. Awaited'
  <2>1. SUFFICES ASSUME paging.own, ~fails, NEW i \in paging.steady, Finds(paging.req.scan, at[i]),
                        at[i] \notin paging.visited
                 PROVE  [id |-> i, loc |-> at[i]] \in iter'.ahead
    BY <1>1, <1>2, <1>4 DEF Awaited, Ahead
  <2>2. i \in Present /\ at[i] \in Locs
    BY PresentAt DEF IInv, Turns
  <2>3. Ahead(i)
    BY <1>1, <2>1 DEF IInv, Awaited, Turns
  <2>4. <<m, at[i]>> \in Precedes
    BY <1>1, <1>6, <1>7, <2>3 DEF Ahead
  <2>5. Finds(paging.req.scan, m)
    BY <2>1 DEF IInv, Asked
  <2>6. <<paging.req.scan, cursor, at[i]>> \in Covered
    BY <1>3, <1>6, <1>7, <2>1, <2>2, <2>4, <2>5, CoveredNext
  <2> QED BY <1>4, <2>1, <2>2, <2>6
<1>14. Current'
  BY <1>1, <1>4 DEF Current
<1> QED BY <1>4, <1>8, <1>9, <1>10, <1>11, <1>12, <1>13, <1>14 DEF IInv

LEMMA NextItemIInv ==
    ASSUME NamesFit, IInv, NextItem
    PROVE  IInv'
<1> DEFINE e == Least(iter.ahead)
<1>1. /\ iter.open /\ iter.end = "none" /\ iter.count < iter.limit /\ iter.ahead # {}
      /\ iter' = [iter EXCEPT !.ahead = @ \ {e}, !.count = @ + 1, !.lastKey = SecondaryKey[e.loc]]
      /\ paging' = [paging EXCEPT !.visited = @ \cup {e.loc}]
      /\ at' = at /\ cursor' = cursor
  BY DEF NextItem
<1>2. /\ e \in iter.ahead
      /\ \A f \in iter.ahead \ {e} : <<e.loc, f.loc>> \in Precedes
  BY <1>1, LeastAhead DEF IInv
<1> HIDE DEF e
<1>3. e.loc \in Locs
  BY <1>2 DEF IInv, TypeOK
<1>4. /\ iter'.open /\ iter'.end = "none" /\ iter'.ahead = iter.ahead \ {e}
      /\ iter'.lastKey = SecondaryKey[e.loc]
      /\ paging'.visited = paging.visited \cup {e.loc}
      /\ paging'.active = paging.active /\ paging'.req = paging.req /\ paging'.own = paging.own
      /\ paging'.blind = paging.blind /\ paging'.steady = paging.steady
      /\ paging'.changed = paging.changed
  BY <1>1 DEF IInv, TypeOK
<1>5. Present' = Present
  BY <1>1 DEF Present
<1>6. TypeOK'
  <2>1. iter.count + 1 \in 0..MaxListLimit /\ iter.count + 1 <= iter.limit
    BY <1>1, ListingAssumption DEF IInv, TypeOK
  <2>2. SecondaryKey[e.loc] \in Cursors
    BY <1>3 DEF Cursors
  <2> QED BY <1>1, <1>3, <2>1, <2>2 DEF IInv, TypeOK
<1>7. OnePlace' /\ Current'
  BY <1>1, <1>4, <1>5 DEF IInv, OnePlace, Current
<1>8. Snapshot'
  BY <1>4 DEF IInv, Snapshot
<1>9. Turns'
  BY <1>1, <1>4, <1>5 DEF IInv, Turns
<1>10. Behind'
  <2>1. \A k \in paging'.visited, f \in iter'.ahead : <<k, f.loc>> \in Precedes
    BY <1>2, <1>4 DEF IInv, Behind
  <2>2. \A k \in paging.visited \ {e.loc} : <<k, e.loc>> \in Precedes
    BY <1>2 DEF IInv, Behind
  <2>3. LastVisited(iter.lastKey)'
    BY <1>4, <2>2 DEF LastVisited
  <2> QED BY <1>4, <2>1, <2>3 DEF Behind
<1>11. Asked'
  BY <1>2, <1>4 DEF IInv, Asked
<1>12. Awaited'
  <2>1. SUFFICES ASSUME paging.active, paging.own, ~paging.blind, NEW i \in paging.steady,
                        Finds(paging.req.scan, at[i]), at[i] \notin paging.visited, at[i] # e.loc
                 PROVE  [id |-> i, loc |-> at[i]] \in iter'.ahead
    BY <1>1, <1>4 DEF Awaited, Ahead
  <2>2. [id |-> i, loc |-> at[i]] \in iter.ahead
    BY <1>1, <2>1 DEF IInv, Awaited, Ahead
  <2>3. [id |-> i, loc |-> at[i]] # e
    BY <2>1
  <2> QED BY <1>4, <2>2, <2>3
<1> QED BY <1>6, <1>7, <1>8, <1>9, <1>10, <1>11, <1>12 DEF IInv

\* Next comes to the end of a page: only that is noted.
LEMMA EndIInv ==
    ASSUME IInv, iter.open, NEW v \in {"limit", "exhausted", "error"}, iter' = [iter EXCEPT !.end = v],
           v = "exhausted" => iter.ahead = {}, UNCHANGED <<at, cursor, paging>>
    PROVE  IInv'
<1>1. /\ iter'.open /\ iter'.end = v /\ iter'.ahead = iter.ahead /\ iter'.lastKey = iter.lastKey
  BY DEF IInv, TypeOK
<1>2. Present' = Present
  BY DEF Present
<1>3. TypeOK'
  BY DEF IInv, TypeOK
<1>4. OnePlace' /\ Current' /\ Snapshot' /\ Asked'
  BY <1>1, <1>2 DEF IInv, OnePlace, Current, Snapshot, Asked
<1>5. Turns'
  BY <1>1, <1>2 DEF IInv, Turns
<1>6. Behind'
  BY <1>1 DEF IInv, Behind, LastVisited
<1>7. Awaited'
  BY <1>1 DEF IInv, Awaited, Ahead
<1> QED BY <1>3, <1>4, <1>5, <1>6, <1>7 DEF IInv

LEMMA NextEndsIInv ==
    ASSUME IInv, NextFails \/ NextEnds
    PROVE  IInv'
<1>1. CASE NextFails
  BY <1>1, EndIInv DEF NextFails
<1>2. CASE NextEnds
  <2>1. CASE iter.count >= iter.limit
    BY <1>2, <2>1, EndIInv DEF NextEnds
  <2>2. CASE ~(iter.count >= iter.limit)
    BY <1>2, <2>2, EndIInv DEF NextEnds
  <2> QED BY <2>1, <2>2
<1> QED BY <1>1, <1>2

LEMMA CloseIInv ==
    ASSUME NamesFit, IInv, CloseIterator
    PROVE  IInv'
<1>1. /\ iter.open /\ iter' = Closed /\ cursor' = iter.lastKey /\ at' = at
      /\ paging' = IF iter.end = "exhausted" \/ iter.lastKey = << >> THEN NoPaging ELSE paging
  BY DEF CloseIterator
<1>2. ~iter'.open /\ iter'.ahead = {} /\ iter'.end = "none"
  BY <1>1 DEF Closed
<1>3. Present' = Present
  BY <1>1 DEF Present
<1>4. TypeOK'
  <2>1. Closed \in IterType /\ Closed.count <= Closed.limit
    BY ListingAssumption DEF Closed, IterType, Cursors
  <2>2. NoPaging \in [active: BOOLEAN, req: Requests \cup {NoPaging.req}, own: BOOLEAN,
                      blind: BOOLEAN, visited: SUBSET Locs, steady: SUBSET Ids, changed: SUBSET Ids]
    BY DEF NoPaging
  <2> QED BY <1>1, <2>1, <2>2 DEF IInv, TypeOK, IterType
<1>5. OnePlace' /\ Snapshot' /\ Current'
  BY <1>1, <1>2, <1>3 DEF IInv, OnePlace, Snapshot, Current
<1>6. CASE paging' = NoPaging
  <2>1. /\ ~paging'.active /\ ~paging'.blind /\ paging'.visited = {} /\ paging'.steady = {}
    BY <1>6 DEF NoPaging
  <2>2. Turns' /\ Behind' /\ Asked' /\ Awaited'
    BY <1>1, <1>2, <2>1 DEF Turns, Behind, Asked, Awaited
  <2> QED BY <1>4, <1>5, <2>2 DEF IInv
<1>7. CASE paging' = paging /\ iter.lastKey # << >>
  <2>1. PICK m \in paging.visited : /\ iter.lastKey = SecondaryKey[m]
                                    /\ \A k \in paging.visited \ {m} : <<k, m>> \in Precedes
    BY <1>1, <1>7 DEF IInv, Behind, LastVisited
  <2>2. m \in Locs
    BY <2>1 DEF IInv, TypeOK
  <2>3. Turns'
    BY <1>1, <1>2, <1>3, <1>7 DEF IInv, Turns
  <2>4. Behind'
    BY <1>1, <1>2, <1>7, <2>1 DEF Behind, LastVisited
  <2>5. Asked'
    BY <1>2, <1>7 DEF IInv, Asked
  <2>6. Awaited'
    <3>1. SUFFICES ASSUME paging.active, paging.own, ~paging.blind, NEW i \in paging.steady,
                          Finds(paging.req.scan, at[i]), at[i] \notin paging.visited,
                          NEW l \in Locs, iter.lastKey = SecondaryKey[l]
                   PROVE  <<l, at[i]>> \in Precedes
      BY <1>1, <1>2, <1>7 DEF Awaited, Ahead
    <3>2. [id |-> i, loc |-> at[i]] \in iter.ahead
      BY <1>1, <3>1 DEF IInv, Awaited, Ahead
    <3>3. l = m
      BY <2>1, <2>2, <3>1, PlaceOfKey
    <3> QED BY <2>1, <3>2, <3>3 DEF IInv, Behind
  <2> QED BY <1>4, <1>5, <2>3, <2>4, <2>5, <2>6 DEF IInv
<1> QED BY <1>1, <1>6, <1>7

LEMMA PlacedIInv ==
    ASSUME IInv, NEW i \in Ids, NEW l \in Locs \cup {Absent}, l # Absent => Free(l), Placed(i, l)
    PROVE  IInv'
<1>1. /\ at' = [at EXCEPT ![i] = l] /\ iter' = iter /\ cursor' = cursor
      /\ paging' = [paging EXCEPT !.steady = @ \ {i},
                                  !.changed = IF iter.open THEN @ \cup {i} ELSE @]
  BY DEF Placed
<1>2. /\ at' \in [Ids -> Locs \cup {Absent}] /\ at'[i] = l
      /\ \A j \in Ids \ {i} : at'[j] = at[j]
  BY <1>1 DEF IInv, TypeOK
<1>3. /\ paging'.steady = paging.steady \ {i}
      /\ paging'.changed = IF iter.open THEN paging.changed \cup {i} ELSE paging.changed
      /\ paging'.active = paging.active /\ paging'.req = paging.req /\ paging'.own = paging.own
      /\ paging'.blind = paging.blind /\ paging'.visited = paging.visited
  BY <1>1 DEF IInv, TypeOK
<1>4. \A j \in Ids \ {i} : j \in Present' <=> j \in Present
  BY <1>2 DEF Present
<1>5. TypeOK'
  BY <1>1, <1>2 DEF IInv, TypeOK
<1>6. OnePlace'
  <2>1. SUFFICES ASSUME NEW j \in Present', NEW k \in Present', at'[j] = at'[k] PROVE j = k
    BY DEF OnePlace
  <2>2. j \in Ids /\ k \in Ids /\ at'[j] # Absent /\ at'[k] # Absent
    BY DEF Present
  <2>3. CASE j # i /\ k # i
    BY <1>2, <1>4, <2>1, <2>2, <2>3 DEF IInv, OnePlace
  <2>4. ASSUME NEW n \in Present', n # i PROVE at'[n] # at'[i] \/ at'[i] = Absent
    BY <1>2, <1>4, <2>4 DEF Free, Present
  <2> QED BY <2>1, <2>2, <2>3, <2>4
<1>7. Snapshot' /\ Asked'
  BY <1>1, <1>3 DEF IInv, Snapshot, Asked
<1>8. Turns'
  BY <1>1, <1>3, <1>4 DEF IInv, Turns, Present
<1>9. Behind'
  BY <1>1, <1>3 DEF IInv, Behind, LastVisited
<1>10. \A j \in paging'.steady : j \in Ids \ {i} /\ at'[j] = at[j] /\ j \in paging.steady
  BY <1>2, <1>3 DEF IInv, TypeOK
<1>11. Awaited'
  BY <1>1, <1>3, <1>10 DEF IInv, Awaited, Ahead
<1>12. Current'
  <2>1. SUFFICES ASSUME NEW e \in iter.ahead PROVE at'[e.id] = e.loc \/ e.id \in paging'.changed
    BY <1>1 DEF Current
  <2>2. iter.open
    BY <2>1 DEF IInv, Turns, Closed
  <2>3. e.id \in Ids
    BY DEF IInv, TypeOK
  <2> QED BY <1>2, <1>3, <2>2, <2>3 DEF IInv, Current
<1> QED BY <1>5, <1>6, <1>7, <1>8, <1>9, <1>11, <1>12 DEF IInv

LEMMA NextIInv ==
    ASSUME NamesFit, IInv, [Next]_vars
    PROVE  IInv'
<1>1. ASSUME NEW req \in Requests, NEW c \in {<< >>, cursor}, NEW fails \in BOOLEAN,
             Begin(req, c, fails)
      PROVE  IInv'
  BY <1>1, BeginIInv
<1>2. ASSUME NEW fails \in BOOLEAN, Continue(fails) PROVE IInv'
  BY <1>2, ContinueIInv
<1>3. CASE NextItem
  BY <1>3, NextItemIInv
<1>4. CASE NextFails \/ NextEnds
  BY <1>4, NextEndsIInv
<1>5. CASE CloseIterator
  BY <1>5, CloseIInv
<1>6. ASSUME NEW i \in Ids, NEW l \in Locs, CommitCreate(i, l) \/ CommitMove(i, l)
      PROVE  IInv'
  BY <1>6, PlacedIInv DEF CommitCreate, CommitMove
<1>7. ASSUME NEW i \in Ids, CommitDelete(i) PROVE IInv'
  BY <1>7, PlacedIInv DEF CommitDelete
<1>8. CASE UNCHANGED vars
  <2>1. at' = at /\ iter' = iter /\ cursor' = cursor /\ paging' = paging
    BY <1>8 DEF vars
  <2>2. TypeOK' /\ OnePlace' /\ Snapshot' /\ Asked'
    BY <2>1 DEF IInv, TypeOK, OnePlace, Present, Snapshot, Asked
  <2>3. Turns' /\ Behind' /\ Awaited' /\ Current'
    BY <2>1 DEF IInv, Turns, Present, Behind, LastVisited, Awaited, Ahead, Current
  <2> QED BY <2>2, <2>3 DEF IInv
<1> QED BY <1>1, <1>2, <1>3, <1>4, <1>5, <1>6, <1>7, <1>8 DEF Next

LEMMA InitIInv ==
    ASSUME Init
    PROVE  IInv
<1>1. TypeOK
  BY ListingAssumption DEF Init, TypeOK, Closed, NoPaging, Cursors
<1>2. OnePlace /\ Snapshot /\ Turns
  BY DEF Init, OnePlace, Snapshot, Turns, Closed, NoPaging
<1>3. Behind /\ Asked /\ Awaited /\ Current
  BY DEF Init, Behind, Asked, Awaited, Current, Closed, NoPaging
<1> QED BY <1>1, <1>2, <1>3 DEF IInv

-----------------------------------------------------------------------------

\* The state of a listing is well-typed: a page never holds more than its
\* limit, and no limit is above MaxListLimit.
THEOREM TypeCorrect ==
    ASSUME NamesFit
    PROVE  Spec => []TypeOK
<1>1. Init => IInv
  BY InitIInv
<1>2. IInv /\ [Next]_vars => IInv'
  BY NextIInv
<1>3. IInv => TypeOK
  BY DEF IInv
<1> QED BY <1>1, <1>2, <1>3, PTL DEF Spec

\* Next (iterator.go) hands out keys in ascending order, over all pages of a
\* listing, whatever happens between and within them: no object comes twice
\* while it stays where it is.
THEOREM PagesAscend ==
    ASSUME NamesFit
    PROVE  Spec => KeysAscend
<1>1. Init => IInv
  BY InitIInv
<1>2. IInv /\ [Next]_vars => IInv'
  BY NextIInv
<1>3. IInv /\ NextItem => \A k \in paging.visited : <<k, Least(iter.ahead).loc>> \in Precedes
  <2>1. SUFFICES ASSUME IInv, NextItem, NEW k \in paging.visited
                 PROVE  <<k, Least(iter.ahead).loc>> \in Precedes
    OBVIOUS
  <2>2. Least(iter.ahead) \in iter.ahead
    BY <2>1, LeastAhead DEF IInv, NextItem
  <2> QED BY <2>1, <2>2 DEF IInv, Behind
<1> QED BY <1>1, <1>2, <1>3, PTL DEF Spec, KeysAscend

\* A listing that comes to its end without an error has visited every record
\* that stood still and that the request finds, on one page or another.
THEOREM NothingIsSkipped ==
    ASSUME NamesFit
    PROVE  Spec => []ListingComplete
<1>1. Init => IInv
  BY InitIInv
<1>2. IInv /\ [Next]_vars => IInv'
  BY NextIInv
<1>3. IInv => ListingComplete
  <2>1. SUFFICES ASSUME IInv, iter.end = "exhausted", paging.own, ~paging.blind,
                        NEW i \in paging.steady, Finds(paging.req.scan, at[i])
                 PROVE  at[i] \in paging.visited
    BY DEF ListingComplete
  <2>2. iter.open /\ paging.active /\ iter.ahead = {}
    BY <2>1 DEF IInv, Turns, Closed
  <2> QED BY <2>1, <2>2 DEF IInv, Awaited, Ahead
<1> QED BY <1>1, <1>2, <1>3, PTL DEF Spec

\* What an iterator has still to visit is what its request asks for, and the
\* record it will read for an entry is at the entry's place, or has changed
\* since List took its snapshot.
THEOREM ReadsAreExplained ==
    ASSUME NamesFit
    PROVE  Spec => []ReadsExplained
<1>1. Init => IInv
  BY InitIInv
<1>2. IInv /\ [Next]_vars => IInv'
  BY NextIInv
<1>3. IInv => ReadsExplained
  BY DEF IInv, Asked, Current, ReadsExplained
<1> QED BY <1>1, <1>2, <1>3, PTL DEF Spec

-----------------------------------------------------------------------------
(* Records as byte strings.  A recursive function is what its definition says *)
(* because an iteration of its step exists.                                  *)

\* A set of natural numbers that has 0, and n + 1 with every n, has them all.
LEMMA FromZero ==
    ASSUME NEW S, 0 \in S, \A n \in Nat : n \in S => n + 1 \in S
    PROVE  \A n \in Nat : n \in S
<1> DEFINE T == {n \in Nat : n \notin S}
<1>1. SUFFICES ASSUME T # {} PROVE FALSE
  OBVIOUS
<1>2. PICK n \in T : \A k \in T : n <= k
  <2>1. T \in SUBSET Nat
    OBVIOUS
  <2> HIDE DEF T
  <2> QED BY <1>1, <2>1, LeastNatural
<1>3. n \in Nat /\ n # 0 /\ n - 1 \in Nat
  BY <1>2
<1>4. n - 1 \in S
  <2>1. ~(n <= n - 1)
    BY <1>3
  <2> QED BY <1>2, <1>3, <2>1
<1>5. n - 1 + 1 = n
  BY <1>3
<1> QED BY <1>2, <1>3, <1>4, <1>5

\* A function defined at each number from its value at the one before exists.
Iterates(f, a, G) == f[0] = a /\ \A n \in Nat : f[n + 1] = G[<<n, f[n]>>]

\* Every step function G has an iteration of its own: what defines a recursive
\* function by the numbers below is satisfied.
LEMMA Recursion ==
    ASSUME NEW S, NEW a \in S, NEW G \in [Nat \X S -> S]
    PROVE  \E f \in [Nat -> S] : Iterates(f, a, G)
<1> DEFINE Start(k) == {g \in [0..k -> S] : g[0] = a /\ \A n \in 0..(k - 1) : g[n + 1] = G[<<n, g[n]>>]}
           T == {k \in Nat : Start(k) # {}}
           Same(k) == \A j \in Nat : k <= j => \A g \in Start(k), h \in Start(j) : g[k] = h[k]
           U == {k \in Nat : Same(k)}
<1>1. \A k \in Nat : k \in T
  <2>1. 0 \in T
    <3>1. [n \in 0..0 |-> a] \in Start(0)
      OBVIOUS
    <3> QED BY <3>1
  <2>2. ASSUME NEW k \in Nat, k \in T
        PROVE  k + 1 \in T
    <3>1. PICK g \in Start(k) : TRUE
      BY <2>2
    <3> DEFINE h == [n \in 0..(k + 1) |-> IF n = k + 1 THEN G[<<k, g[k]>>] ELSE g[n]]
    <3>2. g[k] \in S /\ G[<<k, g[k]>>] \in S
      BY <3>1
    <3>3. h \in [0..(k + 1) -> S] /\ h[0] = a
      BY <3>1, <3>2
    <3>4. ASSUME NEW n \in 0..(k + 1 - 1)
          PROVE  h[n + 1] = G[<<n, h[n]>>]
      <4>1. CASE n = k
        <5>1. h[k + 1] = G[<<k, g[k]>>] /\ h[k] = g[k]
          OBVIOUS
        <5> HIDE DEF h
        <5> QED BY <4>1, <5>1
      <4>2. CASE n # k
        <5>1. n \in 0..(k - 1) /\ n + 1 # k + 1 /\ n # k + 1 /\ n + 1 \in 0..(k + 1)
          BY <4>2
        <5> QED BY <3>1, <5>1
      <4> QED BY <4>1, <4>2
    <3> HIDE DEF h
    <3>5. h \in Start(k + 1)
      <4>1. \A n \in 0..(k + 1 - 1) : h[n + 1] = G[<<n, h[n]>>]
        BY <3>4
      <4>2. h \in [0..(k + 1) -> S]
        BY <3>3
      <4>3. h[0] = a
        BY <3>3
      <4>4. PICK m : m = k + 1
        OBVIOUS
      <4>5. h \in Start(m)
        BY <4>1, <4>2, <4>3, <4>4
      <4> QED BY <4>4, <4>5
    <3>6. k + 1 \in Nat
      OBVIOUS
    <3> HIDE DEF Start
    <3> QED BY <3>5, <3>6
  <2> HIDE DEF T
  <2> QED BY <2>1, <2>2, FromZero
<1>2. \A k \in Nat : k \in U
  <2>1. 0 \in U
    OBVIOUS
  <2>2. ASSUME NEW k \in Nat, k \in U
        PROVE  k + 1 \in U
    <3>1. SUFFICES ASSUME NEW j \in Nat, k + 1 <= j, NEW g \in Start(k + 1), NEW h \in Start(j)
                   PROVE  g[k + 1] = h[k + 1]
      OBVIOUS
    <3> DEFINE e == [n \in 0..k |-> g[n]]
    <3>2. e \in Start(k)
      OBVIOUS
    <3>3. k <= j /\ k <= k + 1 /\ k \in 0..(j - 1) /\ k \in 0..(k + 1 - 1)
      BY <3>1
    <3>4. e[k] = h[k] /\ e[k] = g[k]
      <4> HIDE DEF Start, e
      <4>1. e[k] = h[k]
        BY <2>2, <3>2, <3>3
      <4> QED BY <4>1 DEF e
    <3>5. g[k + 1] = G[<<k, g[k]>>] /\ h[k + 1] = G[<<k, h[k]>>]
      BY <3>3
    <3> QED BY <3>4, <3>5
  <2> HIDE DEF U
  <2> QED BY <2>1, <2>2, FromZero
<1>3. PICK s : s = [k \in Nat |-> CHOOSE g \in Start(k) : TRUE]
  OBVIOUS
<1>4. \A k \in Nat : s[k] \in Start(k)
  BY <1>1, <1>3
<1> DEFINE f == [k \in Nat |-> s[k][k]]
<1>5. f \in [Nat -> S] /\ f[0] = a
  BY <1>4
<1>6. ASSUME NEW n \in Nat
      PROVE  f[n + 1] = G[<<n, f[n]>>]
  <2>1. s[n] \in Start(n) /\ s[n + 1] \in Start(n + 1)
    BY <1>4
  <2>2. s[n][n] = s[n + 1][n]
    <3>1. n <= n + 1 /\ n + 1 \in Nat
      OBVIOUS
    <3> HIDE DEF Start
    <3> QED BY <1>2, <2>1, <3>1
  <2>3. s[n + 1][n + 1] = G[<<n, s[n + 1][n]>>]
    <3>1. n \in 0..(n + 1 - 1)
      OBVIOUS
    <3> QED BY <2>1, <3>1
  <2> QED BY <2>2, <2>3
<1>7. Iterates(f, a, G)
  BY <1>5, <1>6 DEF Iterates
<1> HIDE DEF f
<1> QED BY <1>5, <1>7

\* The kinds of fields.
Kinds == {"string16", "string32", "word", "byte", "count"}

\* Every field has one of the kinds, whose lengths are numbers.
LEMMA KindTypes ==
    /\ \A n \in Nat \ {0} : Kind(n) \in Kinds
    /\ \A kind \in Kinds : LengthBytes(kind) \in Nat /\ FixedBytes(kind) \in Nat
<1>1. ASSUME NEW n \in Nat \ {0} PROVE Kind(n) \in Kinds
  <2>1. CASE n \in 1..12
    BY <2>1 DEF Kind, Kinds, Header, HeaderFields
  <2>2. CASE n \notin 1..12
    <3>1. ~(n <= 12)
      BY <2>2
    <3> QED BY <3>1 DEF Kind, Kinds, HeaderFields
  <2> QED BY <2>1, <2>2
<1>2. \A kind \in Kinds : LengthBytes(kind) \in Nat /\ FixedBytes(kind) \in Nat
  BY DEF Kinds, LengthBytes, FixedBytes
<1> QED BY <1>1, <1>2

\* What a field of a kind can hold.
FieldFits(kind, f) ==
    /\ kind = "string16" => Len(f) < 65536
    /\ kind = "string32" => Len(f) < 4294967296
    /\ kind \notin {"string16", "string32"} => Len(f) = FixedBytes(kind)

\* A field is its length, if it has one, and its bytes.
LEMMA AppendedField ==
    ASSUME NEW kind \in Kinds, NEW f \in Bytes
    PROVE  /\ appendField(kind, f) \in Bytes
           /\ Len(appendField(kind, f)) = LengthBytes(kind) + Len(f)
           /\ \A i \in 1..Len(f) : appendField(kind, f)[LengthBytes(kind) + i] = f[i]
           /\ kind = "string16" => \A i \in 1..2 : appendField(kind, f)[i] = appendUint16(Len(f))[i]
           /\ kind = "string32" => \A i \in 1..4 : appendField(kind, f)[i] = appendUint32(Len(f))[i]
<1>0. Len(f) \in Nat
  BY ByteAt
<1>1. CASE kind = "string16"
  <2>1. LengthBytes(kind) = 2 /\ appendField(kind, f) = appendUint16(Len(f)) \o f
    BY <1>1 DEF LengthBytes, appendField, appendString16
  <2>2. appendUint16(Len(f)) \in Bytes /\ Len(appendUint16(Len(f))) = 2
    BY <1>0, Uint16Bytes
  <2>3. PICK g : g = appendUint16(Len(f))
    OBVIOUS
  <2>4. /\ g \o f \in Bytes /\ Len(g \o f) = Len(g) + Len(f)
        /\ \A i \in 1..Len(g) : (g \o f)[i] = g[i]
        /\ \A i \in 1..Len(f) : (g \o f)[Len(g) + i] = f[i]
    BY <2>2, <2>3, ConcatBytes
  <2>5. /\ appendField(kind, f) = g \o f /\ Len(g) = LengthBytes(kind)
    BY <2>1, <2>2, <2>3
  <2> QED BY <1>1, <2>1, <2>3, <2>4, <2>5
<1>2. CASE kind = "string32"
  <2>1. LengthBytes(kind) = 4 /\ appendField(kind, f) = appendUint32(Len(f)) \o f
    BY <1>2 DEF LengthBytes, appendField, appendString32
  <2>2. appendUint32(Len(f)) \in Bytes /\ Len(appendUint32(Len(f))) = 4
    BY <1>0, Uint32Bytes
  <2>3. PICK g : g = appendUint32(Len(f))
    OBVIOUS
  <2>4. /\ g \o f \in Bytes /\ Len(g \o f) = Len(g) + Len(f)
        /\ \A i \in 1..Len(g) : (g \o f)[i] = g[i]
        /\ \A i \in 1..Len(f) : (g \o f)[Len(g) + i] = f[i]
    BY <2>2, <2>3, ConcatBytes
  <2>5. /\ appendField(kind, f) = g \o f /\ Len(g) = LengthBytes(kind)
    BY <2>1, <2>2, <2>3
  <2> QED BY <1>2, <2>1, <2>3, <2>4, <2>5
<1>3. CASE kind \notin {"string16", "string32"}
  BY <1>0, <1>3 DEF LengthBytes, appendField
<1> QED BY <1>1, <1>2, <1>3

\* The buffer starts with the version byte; each field adds its own bytes.
LEMMA WrittenShape ==
    ASSUME NEW fields \in Seq(Bytes)
    PROVE  /\ Written(fields)[0] = <<currentSchemaVersion>>
           /\ \A n \in 0..Len(fields) : Written(fields)[n] \in Bytes
           /\ \A n \in 1..Len(fields) :
                 Written(fields)[n] = Written(fields)[n - 1] \o appendField(Kind(n), fields[n])
<1> DEFINE N == Len(fields)
           D == 0..N
           G == [p \in Nat \X Bytes |-> IF p[1] + 1 \in 1..N
                    THEN p[2] \o appendField(Kind(p[1] + 1), fields[p[1] + 1]) ELSE p[2]]
           Body(buf) == [n \in D |-> IF n = 0 THEN <<currentSchemaVersion>>
                                     ELSE buf[n - 1] \o appendField(Kind(n), fields[n])]
<1>0. N \in Nat /\ <<currentSchemaVersion>> \in Bytes
  BY DEF currentSchemaVersion, Bytes, Byte
<1>1. G \in [Nat \X Bytes -> Bytes]
  <2>1. ASSUME NEW n \in Nat, NEW b \in Bytes, n + 1 \in 1..N
        PROVE  b \o appendField(Kind(n + 1), fields[n + 1]) \in Bytes
    <3>1. Kind(n + 1) \in Kinds
      BY KindTypes
    <3>2. fields[n + 1] \in Bytes
      BY <2>1
    <3>3. appendField(Kind(n + 1), fields[n + 1]) \in Bytes
      BY <3>1, <3>2, AppendedField
    <3> QED BY <3>3, ConcatBytes
  <2> QED BY <2>1
<1>2. PICK f \in [Nat -> Bytes] : Iterates(f, <<currentSchemaVersion>>, G)
  <2> HIDE DEF G
  <2> QED BY <1>0, <1>1, Recursion
<1>3. \A n \in 1..N : f[n] = f[n - 1] \o appendField(Kind(n), fields[n])
  <2>1. SUFFICES ASSUME NEW n \in 1..N
                 PROVE  f[n] = f[n - 1] \o appendField(Kind(n), fields[n])
    OBVIOUS
  <2>2. PICK m \in Nat : m = n - 1 /\ m + 1 = n
    BY <1>0
  <2>3. f[m + 1] = G[<<m, f[m]>>] /\ f[m] \in Bytes /\ m + 1 \in 1..N
    BY <1>2, <2>2 DEF Iterates
  <2>4. f[m + 1] = f[m] \o appendField(Kind(m + 1), fields[m + 1])
    BY <2>3
  <2> HIDE DEF G
  <2> QED BY <2>2, <2>4
<1> DEFINE h == [n \in D |-> f[n]]
<1>4. h = Body(h)
  <2>1. \A n \in D : n # 0 => n - 1 \in D /\ n \in 1..N
    BY <1>0
  <2>2. \A n \in D : h[n] = IF n = 0 THEN <<currentSchemaVersion>>
                            ELSE h[n - 1] \o appendField(Kind(n), fields[n])
    BY <1>2, <1>3, <2>1 DEF Iterates
  <2> QED BY <2>2
<1>5. Written(fields) = CHOOSE buf : buf = Body(buf)
  BY DEF Written
<1> HIDE DEF h
<1>6. Written(fields) = Body(Written(fields))
  <2> HIDE DEF Body
  <2> QED BY <1>4, <1>5, Zenon
<1>7. PICK w : w = Written(fields)
  OBVIOUS
<1>8. w = Body(w)
  BY <1>6, <1>7
<1>9. \A n \in D : w[n] = IF n = 0 THEN <<currentSchemaVersion>>
                          ELSE w[n - 1] \o appendField(Kind(n), fields[n])
  BY <1>8
<1>10. 0 \in D /\ \A n \in 1..N : n \in D /\ n # 0
  BY <1>0
<1>12. \A n \in 1..N : w[n] = w[n - 1] \o appendField(Kind(n), fields[n])
  BY <1>9, <1>10
<1>11. \A n \in D : w[n] \in Bytes
  <2> DEFINE T == {n \in Nat : n \in D => w[n] \in Bytes}
  <2>1. 0 \in T
    BY <1>0, <1>9, <1>10
  <2>2. ASSUME NEW n \in Nat, n \in T
        PROVE  n + 1 \in T
    <3>1. SUFFICES ASSUME n + 1 \in D PROVE w[n + 1] \in Bytes
      OBVIOUS
    <3>2. PICK m : m = n + 1
      OBVIOUS
    <3>3. n \in D /\ m - 1 = n /\ m \in 1..N
      BY <1>0, <3>1, <3>2
    <3>4. w[m] = w[m - 1] \o appendField(Kind(m), fields[m])
      BY <1>12, <3>3
    <3>5. appendField(Kind(m), fields[m]) \in Bytes
      <4>1. Kind(m) \in Kinds /\ fields[m] \in Bytes
        BY <3>3, KindTypes
      <4> QED BY <4>1, AppendedField
    <3>6. w[m - 1] \in Bytes
      BY <2>2, <3>3
    <3>7. w[m] \in Bytes
      BY <3>4, <3>5, <3>6, ConcatBytes
    <3> QED BY <3>2, <3>7
  <2> HIDE DEF T
  <2>3. \A n \in Nat : n \in T
    BY <2>1, <2>2, FromZero
  <2> QED BY <2>3 DEF T
<1> QED BY <1>7, <1>9, <1>10, <1>11

\* A field ends somewhere, whatever bytes its length is read from.
LEMMA NextEndType ==
    ASSUME NEW data \in Bytes, NEW kind \in Kinds, NEW p \in Nat
    PROVE  NextEnd(data, kind, p) \in Nat
<1>0. Len(data) \in Nat
  BY ByteAt
<1>1. CASE p + LengthBytes(kind) > Len(data)
  BY <1>0, <1>1 DEF NextEnd
<1>2. CASE ~(p + LengthBytes(kind) > Len(data)) /\ kind = "string16"
  <2>1. LengthBytes(kind) = 2 /\ FieldSize(kind, data, p) = 2 + Uint16(data, p + 1)
    BY <1>2, Zenon DEF LengthBytes, FieldSize
  <2>2. p + 1 \in 1..Len(data) /\ p + 1 + 1 \in 1..Len(data)
    BY <1>0, <1>2, <2>1
  <2>3. data[p + 1] \in Nat /\ data[p + 1 + 1] \in Nat
    BY <2>2, ByteAt
  <2>4. Uint16(data, p + 1) \in Nat
    BY <2>3 DEF Uint16
  <2> QED BY <1>2, <2>1, <2>4 DEF NextEnd
<1>3. CASE ~(p + LengthBytes(kind) > Len(data)) /\ kind = "string32"
  <2>1. LengthBytes(kind) = 4 /\ FieldSize(kind, data, p) = 4 + Uint32(data, p + 1)
    BY <1>3, Zenon DEF LengthBytes, FieldSize
  <2>2. /\ p + 1 \in 1..Len(data) /\ p + 1 + 1 \in 1..Len(data)
        /\ p + 1 + 2 \in 1..Len(data) /\ p + 1 + 3 \in 1..Len(data)
    BY <1>0, <1>3, <2>1
  <2>3. /\ data[p + 1] \in Nat /\ data[p + 1 + 1] \in Nat
        /\ data[p + 1 + 2] \in Nat /\ data[p + 1 + 3] \in Nat
    BY <2>2, ByteAt
  <2>4. Uint32(data, p + 1) \in Nat
    BY <2>3, SMT DEF Uint32
  <2> QED BY <1>3, <2>1, <2>4 DEF NextEnd
<1>4. CASE ~(p + LengthBytes(kind) > Len(data)) /\ kind \notin {"string16", "string32"}
  BY <1>4, KindTypes DEF NextEnd, FieldSize
<1> QED BY <1>1, <1>2, <1>3, <1>4

\* Fields end one after another, each found from the end of the one before.
LEMMA EndsShape ==
    ASSUME NEW data \in Bytes
    PROVE  /\ Ends(data)[0] = 1
           /\ \A n \in Nat : Ends(data)[n] \in Nat
           /\ \A m \in Nat, n \in Nat : n = m + 1 =>
                 Ends(data)[n] = NextEnd(data, Kind(n), Ends(data)[m])
<1> DEFINE G == [p \in Nat \X Nat |-> NextEnd(data, Kind(p[1] + 1), p[2])]
           Step(pos) == [n \in Nat |-> IF n = 0 THEN 1 ELSE NextEnd(data, Kind(n), pos[n - 1])]
<1>1. G \in [Nat \X Nat -> Nat]
  <2>1. ASSUME NEW n \in Nat, NEW p \in Nat
        PROVE  NextEnd(data, Kind(n + 1), p) \in Nat
    <3>1. n + 1 \in Nat \ {0}
      OBVIOUS
    <3>2. Kind(n + 1) \in Kinds
      BY <3>1, KindTypes
    <3> QED BY <3>2, NextEndType
  <2> QED BY <2>1
<1>2. PICK f \in [Nat -> Nat] : Iterates(f, 1, G)
  <2>1. 1 \in Nat
    OBVIOUS
  <2> HIDE DEF G
  <2> QED BY <1>1, <2>1, Recursion
<1>3. ASSUME NEW n \in Nat, n # 0
      PROVE  f[n] = NextEnd(data, Kind(n), f[n - 1])
  <2>1. PICK m \in Nat : m = n - 1 /\ m + 1 = n
    BY <1>3
  <2>2. f[m + 1] = G[<<m, f[m]>>] /\ f[m] \in Nat
    BY <1>2, <2>1 DEF Iterates
  <2>3. f[m + 1] = NextEnd(data, Kind(m + 1), f[m])
    BY <2>2
  <2> HIDE DEF G
  <2> QED BY <2>1, <2>3
<1>5. f = Step(f)
  <2>1. f = [n \in Nat |-> f[n]] /\ f[0] = 1
    BY <1>2 DEF Iterates
  <2>2. \A n \in Nat : f[n] = IF n = 0 THEN 1 ELSE NextEnd(data, Kind(n), f[n - 1])
    BY <1>3, <2>1
  <2> QED BY <2>1, <2>2
<1>6. Ends(data) = CHOOSE pos : pos = Step(pos)
  BY DEF Ends
<1>7. PICK e : e = Ends(data)
  OBVIOUS
<1>8. e = Step(e)
  <2> HIDE DEF Step
  <2>1. Ends(data) = Step(Ends(data))
    BY <1>5, <1>6, Zenon
  <2> QED BY <1>7, <2>1
<1>9. e[0] = 1 /\ \A n \in Nat : n # 0 => e[n] = NextEnd(data, Kind(n), e[n - 1])
  BY <1>8
<1>10. ASSUME NEW m \in Nat, NEW n \in Nat, n = m + 1
       PROVE  e[n] = NextEnd(data, Kind(n), e[m])
  <2>1. n # 0 /\ n - 1 = m
    BY <1>10
  <2> QED BY <1>9, <2>1
<1>11. \A n \in Nat : e[n] \in Nat
  <2> DEFINE T == {n \in Nat : e[n] \in Nat}
  <2>1. 0 \in T
    BY <1>9
  <2>2. ASSUME NEW n \in Nat, n \in T
        PROVE  n + 1 \in T
    <3>1. PICK m \in Nat \ {0} : m = n + 1
      OBVIOUS
    <3>2. e[m] = NextEnd(data, Kind(m), e[n]) /\ Kind(m) \in Kinds
      BY <1>10, <3>1, KindTypes
    <3>3. e[m] \in Nat
      BY <2>2, <3>2, NextEndType
    <3> QED BY <3>1, <3>3
  <2> HIDE DEF T
  <2>3. \A n \in Nat : n \in T
    BY <2>1, <2>2, FromZero
  <2> QED BY <2>3 DEF T
<1> QED BY <1>7, <1>9, <1>10, <1>11

\* The part of a record that is written first is the beginning of it.
LEMMA WrittenFirst ==
    ASSUME NEW fields \in Seq(Bytes), NEW n \in 0..Len(fields), NEW m \in n..Len(fields)
    PROVE  StartsWith(Written(fields)[m], Written(fields)[n])
<1>0. Len(fields) \in Nat
  OBVIOUS
<1>1. PICK w : w = Written(fields)
  OBVIOUS
<1>2. \A k \in 0..Len(fields) : w[k] \in Bytes
  BY <1>1, WrittenShape
<1> DEFINE T == {k \in Nat : k \in n..Len(fields) => StartsWith(w[k], w[n])}
<1>3. w[n] \in Bytes /\ StartsWith(w[n], w[n])
  BY <1>2, ByteAt DEF StartsWith
<1>4. 0 \in T
  <2>1. 0 \in n..Len(fields) => n = 0
    BY <1>0
  <2> QED BY <1>3, <2>1
<1>5. ASSUME NEW k \in Nat, k \in T
      PROVE  k + 1 \in T
  <2>1. PICK j \in Nat : j = k + 1
    OBVIOUS
  <2>2. SUFFICES ASSUME j \in n..Len(fields), j # n PROVE StartsWith(w[j], w[n])
    BY <1>3, <2>1
  <2>3. k \in n..Len(fields) /\ j \in 1..Len(fields) /\ j - 1 = k /\ k \in 0..Len(fields) /\ j # 0
    BY <1>0, <2>1, <2>2
  <2>4. StartsWith(w[k], w[n])
    BY <1>5, <2>3
  <2>5. PICK x \in Bytes : w[j] = w[k] \o x
    <3>1. w[j] = w[k] \o appendField(Kind(j), fields[j])
      BY <1>1, <2>3, WrittenShape
    <3>2. appendField(Kind(j), fields[j]) \in Bytes
      <4>1. Kind(j) \in Kinds /\ fields[j] \in Bytes
        BY <2>3, KindTypes
      <4> QED BY <4>1, AppendedField
    <3> QED BY <3>1, <3>2
  <2>6. w[k] \in Bytes /\ w[n] \in Bytes
    BY <1>2, <2>3
  <2>7. Len(w[j]) = Len(w[k]) + Len(x) /\ \A i \in 1..Len(w[k]) : w[j][i] = w[k][i]
    BY <2>5, <2>6, ConcatBytes
  <2>8. Len(w[k]) \in Nat /\ Len(w[n]) \in Nat /\ Len(x) \in Nat
    BY <2>5, <2>6, ByteAt
  <2> QED BY <2>4, <2>7, <2>8 DEF StartsWith
<1> HIDE DEF T
<1>6. \A k \in Nat : k \in T
  BY <1>4, <1>5, FromZero
<1>7. m \in Nat /\ m \in T
  BY <1>0, <1>6
<1> QED BY <1>1, <1>7 DEF T

\* A field that fits ends where its length says.
LEMMA FieldEnds ==
    ASSUME NEW data \in Bytes, NEW kind \in Kinds, NEW f \in Bytes, FieldFits(kind, f), NEW p \in Nat,
           p + LengthBytes(kind) <= Len(data),
           \A i \in 1..LengthBytes(kind) : data[p + i] = appendField(kind, f)[i]
    PROVE  NextEnd(data, kind, p) = p + LengthBytes(kind) + Len(f)
<1>0. Len(data) \in Nat /\ Len(f) \in Nat /\ LengthBytes(kind) \in Nat
  BY ByteAt, KindTypes
<1>1. NextEnd(data, kind, p) = p + FieldSize(kind, data, p)
  BY <1>0 DEF NextEnd
<1>2. CASE kind = "string16"
  <2>1. LengthBytes(kind) = 2 /\ FieldSize(kind, data, p) = 2 + Uint16(data, p + 1)
    BY <1>2, Zenon DEF LengthBytes, FieldSize
  <2>2. PICK g : g = appendUint16(Len(f))
    OBVIOUS
  <2>3. data[p + 1] = g[1] /\ data[p + 2] = g[2]
    <3>1. \A i \in 1..2 : appendField(kind, f)[i] = g[i]
      BY <1>2, <2>2, AppendedField, Zenon
    <3>2. \A i \in 1..2 : data[p + i] = g[i]
      BY <2>1, <3>1
    <3> QED BY <3>2
  <2>4. 256 * g[1] + g[2] = Len(f)
    BY <1>0, <1>2, <2>2, Uint16Value DEF FieldFits
  <2>5. Uint16(data, p + 1) = Len(f)
    <3>1. p + 1 + 1 = p + 2
      OBVIOUS
    <3> QED BY <2>3, <2>4, <3>1 DEF Uint16
  <2> QED BY <1>0, <1>1, <2>1, <2>5
<1>3. CASE kind = "string32"
  <2>1. LengthBytes(kind) = 4 /\ FieldSize(kind, data, p) = 4 + Uint32(data, p + 1)
    BY <1>3, Zenon DEF LengthBytes, FieldSize
  <2>2. PICK g : g = appendUint32(Len(f))
    OBVIOUS
  <2>3. data[p + 1] = g[1] /\ data[p + 2] = g[2] /\ data[p + 3] = g[3] /\ data[p + 4] = g[4]
    <3>1. \A i \in 1..4 : appendField(kind, f)[i] = g[i]
      BY <1>3, <2>2, AppendedField, Zenon
    <3>2. \A i \in 1..4 : data[p + i] = g[i]
      BY <2>1, <3>1
    <3> QED BY <3>2
  <2>4. 16777216 * g[1] + 65536 * g[2] + 256 * g[3] + g[4] = Len(f)
    <3>1. Len(f) < 4294967296
      BY <1>3, SMT DEF FieldFits
    <3> QED BY <1>0, <2>2, <3>1, Uint32Value, SMT
  <2>5. Uint32(data, p + 1) = Len(f)
    <3>1. p + 1 + 1 = p + 2 /\ p + 1 + 2 = p + 3 /\ p + 1 + 3 = p + 4
      OBVIOUS
    <3> QED BY <2>3, <2>4, <3>1, SMT DEF Uint32
  <2> QED BY <1>0, <1>1, <2>1, <2>5
<1>4. CASE kind \notin {"string16", "string32"}
  <2>1. LengthBytes(kind) = 0 /\ FieldSize(kind, data, p) = FixedBytes(kind)
    BY <1>4, Zenon DEF LengthBytes, FieldSize
  <2>2. Len(f) = FixedBytes(kind)
    BY <1>4, SMT DEF FieldFits
  <2> QED BY <1>0, <1>1, <2>1, <2>2
<1> QED BY <1>2, <1>3, <1>4

\* Every field fits its kind.
AllFit(fields) == \A n \in 1..Len(fields) : FieldFits(Kind(n), fields[n])

\* The two agree as far as both go.
Agrees(data, w) == \A i \in 1..Len(w) : i <= Len(data) => data[i] = w[i]

\* Reading data that agrees with a record, as far as both go, meets the ends of
\* its fields, or the end of the data if that comes before.
LEMMA EndsMeet ==
    ASSUME NEW fields \in Seq(Bytes), AllFit(fields), NEW data \in Bytes,
           Agrees(data, Written(fields)[Len(fields)])
    PROVE  \A n \in 0..Len(fields) :
              /\ Len(Written(fields)[n]) <= Len(data) => Ends(data)[n] = Len(Written(fields)[n])
              /\ Len(Written(fields)[n]) > Len(data) => Ends(data)[n] > Len(data)
<1>0. Len(fields) \in Nat /\ Len(data) \in Nat
  BY ByteAt
<1>1. PICK w : w = Written(fields)
  OBVIOUS
<1>2. PICK e : e = Ends(data)
  OBVIOUS
<1>3. \A n \in 0..Len(fields) : w[n] \in Bytes /\ Len(w[n]) \in Nat
  BY <1>1, WrittenShape, ByteAt
<1>4. ASSUME NEW n \in 0..Len(fields), NEW i \in 1..Len(w[n]), i <= Len(data)
      PROVE  data[i] = w[n][i]
  <2>1. Len(fields) \in n..Len(fields)
    BY <1>0
  <2>2. StartsWith(w[Len(fields)], w[n])
    BY <1>1, <2>1, WrittenFirst
  <2>3. Len(w[Len(fields)]) \in Nat /\ Len(w[n]) \in Nat
    BY <1>0, <1>3
  <2> QED BY <1>1, <1>4, <2>2, <2>3 DEF StartsWith, Agrees
<1> DEFINE Meets(n) == /\ Len(w[n]) <= Len(data) => e[n] = Len(w[n])
                       /\ Len(w[n]) > Len(data) => e[n] > Len(data)
           T == {n \in Nat : n \in 0..Len(fields) => Meets(n)}
<1>5. 0 \in T
  <2>1. w[0] = <<currentSchemaVersion>> /\ Len(w[0]) = 1 /\ e[0] = 1
    BY <1>1, <1>2, WrittenShape, EndsShape
  <2> QED BY <1>0, <2>1
<1>6. ASSUME NEW m \in Nat, m \in T
      PROVE  m + 1 \in T
  <2>1. PICK n \in Nat \ {0} : n = m + 1
    OBVIOUS
  <2>2. SUFFICES ASSUME n \in 1..Len(fields) PROVE Meets(n)
    BY <2>1
  <2>3. m \in 0..Len(fields) /\ n - 1 = m /\ n \in 0..Len(fields)
    BY <1>0, <2>1, <2>2
  <2>4. Meets(m)
    BY <1>6, <2>3
  <2> HIDE DEF T
  <2>5. PICK kind \in Kinds : kind = Kind(n)
    BY KindTypes
  <2>6. PICK f \in Bytes : f = fields[n]
    BY <2>2
  <2>7. FieldFits(kind, f)
    BY <2>2, <2>5, <2>6 DEF AllFit
  <2>8. PICK x \in Bytes : x = appendField(kind, f)
    BY AppendedField
  <2>9. w[n] = w[m] \o x
    BY <1>1, <2>2, <2>3, <2>5, <2>6, <2>8, WrittenShape
  <2>10. /\ Len(w[n]) = Len(w[m]) + Len(x) /\ \A i \in 1..Len(x) : w[n][Len(w[m]) + i] = x[i]
    <3>1. PICK y \in Bytes : y = w[m]
      BY <1>3, <2>3
    <3>2. Len(y \o x) = Len(y) + Len(x) /\ \A i \in 1..Len(x) : (y \o x)[Len(y) + i] = x[i]
      BY ConcatBytes
    <3>3. w[n] = y \o x
      BY <2>9, <3>1
    <3> QED BY <3>1, <3>2, <3>3
  <2>11. Len(x) = LengthBytes(kind) + Len(f) /\ LengthBytes(kind) \in Nat /\ Len(f) \in Nat
         /\ Len(w[m]) \in Nat /\ Len(w[n]) \in Nat
    BY <1>3, <2>3, <2>8, AppendedField, KindTypes, ByteAt
  <2>12. e[n] = NextEnd(data, kind, e[m]) /\ e[m] \in Nat
    BY <1>2, <2>1, <2>5, EndsShape
  <2>13. CASE e[m] + LengthBytes(kind) > Len(data)
    <3>1. e[n] = Len(data) + 1
      BY <2>12, <2>13 DEF NextEnd
    <3>2. Len(w[n]) > Len(data)
      <4>1. CASE Len(w[m]) <= Len(data)
        <5>1. e[m] = Len(w[m])
          BY <2>4, <4>1
        <5> QED BY <1>0, <2>10, <2>11, <2>13, <5>1
      <4>2. CASE ~(Len(w[m]) <= Len(data))
        BY <1>0, <2>10, <2>11, <4>2
      <4> QED BY <4>1, <4>2
    <3> QED BY <1>0, <2>11, <3>1, <3>2
  <2>14. CASE ~(e[m] + LengthBytes(kind) > Len(data))
    <3>1. Len(w[m]) <= Len(data)
      BY <1>0, <2>4, <2>11, <2>12, <2>14
    <3>2. e[m] = Len(w[m])
      BY <2>4, <3>1
    <3>3. ASSUME NEW i \in 1..LengthBytes(kind)
          PROVE  data[e[m] + i] = appendField(kind, f)[i]
      <4>1. PICK j : j = Len(w[m]) + i
        OBVIOUS
      <4>2. i \in 1..Len(x) /\ j \in 1..Len(w[n]) /\ j <= Len(data)
        <5>1. i \in Nat /\ 1 <= i /\ i <= LengthBytes(kind)
          BY <2>11
        <5>2. i <= Len(x) /\ j <= Len(w[n]) /\ 1 <= j /\ j \in Nat
          BY <2>10, <2>11, <4>1, <5>1
        <5>3. j <= Len(data)
          BY <1>0, <2>11, <2>14, <3>2, <4>1, <5>1
        <5> QED BY <2>10, <2>11, <5>1, <5>2, <5>3
      <4>3. data[j] = w[n][j]
        BY <1>4, <2>3, <4>2
      <4>4. w[n][j] = x[i]
        BY <2>10, <4>1, <4>2
      <4> QED BY <2>8, <3>2, <4>1, <4>3, <4>4
    <3>4. e[m] + LengthBytes(kind) <= Len(data)
      BY <1>0, <2>11, <2>12, <2>14
    <3>5. NextEnd(data, kind, e[m]) = e[m] + LengthBytes(kind) + Len(f)
      BY <2>7, <2>12, <3>3, <3>4, FieldEnds
    <3>6. e[n] = Len(w[n])
      BY <2>10, <2>11, <2>12, <3>2, <3>5
    <3> QED BY <1>0, <2>11, <3>6
  <2> QED BY <2>13, <2>14
<1> HIDE DEF T
<1>7. \A n \in Nat : n \in T
  BY <1>5, <1>6, FromZero
<1>8. \A n \in 0..Len(fields) : Meets(n)
  BY <1>0, <1>7 DEF T
<1> QED BY <1>1, <1>2, <1>8

\* The strings of m fit their length fields.
StringsFit(m) ==
    /\ Len(m.ID) < 65536 /\ Len(m.Bucket) < 65536 /\ Len(m.Key) < 4294967296
    /\ Len(m.ContentType) < 65536 /\ Len(m.ETag) < 65536 /\ Len(m.Checksum) < 65536
    /\ \A k \in DOMAIN m.Metadata : Len(k) < 65536 /\ Len(m.Metadata[k]) < 4294967296

\* The custom metadata of a record is a function of byte strings.
LEMMA MetadataTypes ==
    ASSUME NEW m \in Records
    PROVE  /\ DOMAIN m.Metadata \subseteq Bytes
           /\ m.Metadata = [k \in DOMAIN m.Metadata |-> m.Metadata[k]]
           /\ \A k \in DOMAIN m.Metadata : m.Metadata[k] \in Bytes
<1>1. m.Metadata \in UNION {[K -> Bytes] : K \in SUBSET Bytes}
  BY DEF Records
<1>2. PICK K \in SUBSET Bytes : m.Metadata \in [K -> Bytes]
  BY <1>1
<1> QED BY <1>2

\* Which keys and values are fields.
LEMMA EntryFields ==
    ASSUME NEW l \in Nat, NEW n \in 13..(12 + 2 * l)
    PROVE  /\ n % 2 = 1 => \E i \in 1..l : n = 11 + 2 * i /\ (n - 12 + 1) \div 2 = i
           /\ n % 2 # 1 => \E i \in 1..l : n = 12 + 2 * i /\ (n - 12 + 1) \div 2 = i
<1>1. PICK i \in Int : i = (n - 12 + 1) \div 2
  OBVIOUS
<1>2. CASE n % 2 = 1
  <2>1. n = 11 + 2 * i /\ i \in 1..l
    BY <1>1, <1>2
  <2> QED BY <1>1, <1>2, <2>1
<1>3. CASE n % 2 # 1
  <2>1. n = 12 + 2 * i /\ i \in 1..l
    BY <1>1, <1>3
  <2> QED BY <1>1, <1>3, <2>1
<1> QED BY <1>2, <1>3

\* The i-th entry is the fields 11 + 2i and 12 + 2i.
LEMMA EntryPlaces ==
    ASSUME NEW i \in Nat \ {0}
    PROVE  /\ (11 + 2 * i) % 2 = 1 /\ (11 + 2 * i - 12 + 1) \div 2 = i
           /\ (12 + 2 * i) % 2 = 0 /\ (12 + 2 * i - 12 + 1) \div 2 = i
OBVIOUS

\* The fields of a record: its header, and then its entries.
LEMMA FieldsShape ==
    ASSUME NEW m \in Records, NEW keys, Ranged(m, keys)
    PROVE  /\ FieldsOf(m, keys) \in Seq(Bytes)
           /\ Len(FieldsOf(m, keys)) = 12 + 2 * Len(keys)
           /\ \A n \in 1..12 : FieldsOf(m, keys)[n] = HeaderOf(m, keys)[n]
           /\ \A i \in 1..Len(keys) : /\ FieldsOf(m, keys)[11 + 2 * i] = keys[i]
                                      /\ FieldsOf(m, keys)[12 + 2 * i] = m.Metadata[keys[i]]
<1> DEFINE head == HeaderOf(m, keys)
           entry(n) == keys[(n - 12 + 1) \div 2]
           field(n) == IF n <= 12 THEN head[n]
                       ELSE IF n % 2 = 1 THEN entry(n) ELSE m.Metadata[entry(n)]
           N == 12 + 2 * Len(keys)
<1>0. Len(keys) \in Nat /\ N \in Nat /\ \A i \in 1..Len(keys) : keys[i] \in DOMAIN m.Metadata
  BY DEF Ranged
<1>1. FieldsOf(m, keys) = [n \in 1..N |-> field(n)]
  BY DEF FieldsOf, HeaderFields
<1>2. \A n \in 1..12 : head[n] \in Bytes
  <2>1. appendUint16(Len(keys)) \in Bytes
    BY <1>0, Uint16Bytes
  <2>2. /\ m.ID \in Bytes /\ m.Bucket \in Bytes /\ m.Key \in Bytes /\ m.Size \in Bytes
        /\ m.ContentType \in Bytes /\ m.ETag \in Bytes /\ m.Checksum \in Bytes
        /\ m.Version \in Bytes /\ m.State \in Byte /\ m.CreatedAt \in Bytes /\ m.UpdatedAt \in Bytes
    BY DEF Records, Word
  <2>3. <<m.State>> \in Bytes
    BY <2>2 DEF Bytes
  <2> QED BY <2>1, <2>2, <2>3 DEF HeaderOf
<1>3. ASSUME NEW i \in 1..Len(keys)
      PROVE  /\ 11 + 2 * i \in 1..N /\ 12 + 2 * i \in 1..N
             /\ field(11 + 2 * i) = keys[i] /\ field(12 + 2 * i) = m.Metadata[keys[i]]
  <2>1. i \in Nat \ {0} /\ 11 + 2 * i \in 1..N /\ 12 + 2 * i \in 1..N
        /\ ~(11 + 2 * i <= 12) /\ ~(12 + 2 * i <= 12)
    BY <1>0
  <2>2. entry(11 + 2 * i) = keys[i] /\ entry(12 + 2 * i) = keys[i]
    BY <2>1, EntryPlaces
  <2>3. (11 + 2 * i) % 2 = 1 /\ (12 + 2 * i) % 2 # 1
    BY <2>1, EntryPlaces
  <2> HIDE DEF head, entry, N
  <2> QED BY <2>1, <2>2, <2>3
<1>4. ASSUME NEW n \in 1..N
      PROVE  field(n) \in Bytes
  <2>1. CASE n <= 12
    <3>1. n \in 1..12
      BY <1>0, <2>1
    <3> HIDE DEF head
    <3> QED BY <1>2, <2>1, <3>1
  <2>2. CASE ~(n <= 12)
    <3>1. n \in 13..(12 + 2 * Len(keys))
      BY <1>0, <2>2
    <3>2. PICK i \in 1..Len(keys) : (n - 12 + 1) \div 2 = i
      BY <1>0, <3>1, EntryFields
    <3>3. entry(n) = keys[i] /\ keys[i] \in Bytes /\ m.Metadata[keys[i]] \in Bytes
      BY <1>0, <3>2, MetadataTypes
    <3> HIDE DEF entry, head
    <3> QED BY <2>2, <3>3
  <2> QED BY <2>1, <2>2
<1>5. PICK f : f = FieldsOf(m, keys)
  OBVIOUS
<1> HIDE DEF field
<1>6. f \in Seq(Bytes) /\ Len(f) = N /\ \A n \in 1..N : f[n] = field(n)
  BY <1>0, <1>1, <1>4, <1>5
<1>7. \A n \in 1..12 : f[n] = head[n]
  <2>1. \A n \in 1..12 : n \in 1..N /\ n <= 12
    BY <1>0
  <2> HIDE DEF head, N
  <2> QED BY <1>6, <2>1 DEF field
<1>8. \A i \in 1..Len(keys) : f[11 + 2 * i] = keys[i] /\ f[12 + 2 * i] = m.Metadata[keys[i]]
  BY <1>3, <1>6
<1> QED BY <1>5, <1>6, <1>7, <1>8

\* The header field by field.
LEMMA HeaderFieldsOf ==
    ASSUME NEW m \in Records, NEW keys, Ranged(m, keys), NEW f, f = FieldsOf(m, keys)
    PROVE  /\ f[1] = m.ID /\ f[2] = m.Bucket /\ f[3] = m.Key /\ f[4] = m.Size
           /\ f[5] = m.ContentType /\ f[6] = m.ETag /\ f[7] = m.Checksum /\ f[8] = m.Version
           /\ f[9] = <<m.State>> /\ f[10] = m.CreatedAt /\ f[11] = m.UpdatedAt
           /\ f[12] = appendUint16(Len(keys))
<1>1. \A n \in 1..12 : f[n] = HeaderOf(m, keys)[n]
  BY FieldsShape
<1> QED BY <1>1 DEF HeaderOf

\* The kinds of an entry.
LEMMA EntryKinds ==
    ASSUME NEW i \in Nat \ {0}
    PROVE  Kind(11 + 2 * i) = "string16" /\ Kind(12 + 2 * i) = "string32"
<1>1. ~(11 + 2 * i <= 12) /\ ~(12 + 2 * i <= 12)
  OBVIOUS
<1>2. (11 + 2 * i) % 2 = 1 /\ (12 + 2 * i) % 2 # 1
  BY EntryPlaces
<1> QED BY <1>1, <1>2 DEF Kind, HeaderFields

\* The kinds of the header field by field.
LEMMA HeaderKinds ==
    /\ Kind(1) = "string16" /\ Kind(2) = "string16" /\ Kind(3) = "string32" /\ Kind(4) = "word"
    /\ Kind(5) = "string16" /\ Kind(6) = "string16" /\ Kind(7) = "string16" /\ Kind(8) = "word"
    /\ Kind(9) = "byte" /\ Kind(10) = "word" /\ Kind(11) = "word" /\ Kind(12) = "count"
BY DEF Kind, Header, HeaderFields

\* What fits a field of each kind.
LEMMA KindFits ==
    ASSUME NEW f \in Bytes
    PROVE  /\ Len(f) < 65536 => FieldFits("string16", f)
           /\ Len(f) < 4294967296 => FieldFits("string32", f)
           /\ Len(f) = 8 => FieldFits("word", f)
           /\ Len(f) = 1 => FieldFits("byte", f)
           /\ Len(f) = 2 => FieldFits("count", f)
<1>1. FixedBytes("word") = 8 /\ FixedBytes("byte") = 1 /\ FixedBytes("count") = 2
  BY DEF FixedBytes
<1>2. ASSUME Len(f) < 65536 PROVE FieldFits("string16", f)
  BY <1>2, SMT DEF FieldFits
<1>3. ASSUME Len(f) < 4294967296 PROVE FieldFits("string32", f)
  BY <1>3, SMT DEF FieldFits
<1>4. ASSUME Len(f) = 8 PROVE FieldFits("word", f)
  BY <1>1, <1>4, SMT DEF FieldFits
<1>5. ASSUME Len(f) = 1 PROVE FieldFits("byte", f)
  BY <1>1, <1>5, SMT DEF FieldFits
<1>6. ASSUME Len(f) = 2 PROVE FieldFits("count", f)
  BY <1>1, <1>6, SMT DEF FieldFits
<1> QED BY <1>2, <1>3, <1>4, <1>5, <1>6

\* The fields of a record whose strings fit do fit.
LEMMA FieldsFit ==
    ASSUME NEW m \in Records, NEW keys, Ranged(m, keys), StringsFit(m)
    PROVE  AllFit(FieldsOf(m, keys))
<1>0. Len(keys) \in Nat /\ \A i \in 1..Len(keys) : keys[i] \in DOMAIN m.Metadata
  BY DEF Ranged
<1>1. PICK f \in Seq(Bytes) : f = FieldsOf(m, keys)
  BY FieldsShape
<1>2. Len(f) = 12 + 2 * Len(keys)
  BY <1>1, FieldsShape
<1>3. /\ f[1] = m.ID /\ f[2] = m.Bucket /\ f[3] = m.Key /\ f[4] = m.Size /\ f[5] = m.ContentType
      /\ f[6] = m.ETag /\ f[7] = m.Checksum /\ f[8] = m.Version /\ f[9] = <<m.State>>
      /\ f[10] = m.CreatedAt /\ f[11] = m.UpdatedAt /\ f[12] = appendUint16(Len(keys))
  BY <1>1, HeaderFieldsOf
<1>4. \A i \in 1..Len(keys) : f[11 + 2 * i] = keys[i] /\ f[12 + 2 * i] = m.Metadata[keys[i]]
  BY <1>1, FieldsShape
<1>5. ASSUME NEW n \in 1..12
      PROVE  FieldFits(Kind(n), f[n])
  <2>1. /\ m.ID \in Bytes /\ m.Bucket \in Bytes /\ m.Key \in Bytes /\ m.Size \in Bytes
        /\ m.ContentType \in Bytes /\ m.ETag \in Bytes /\ m.Checksum \in Bytes
        /\ m.Version \in Bytes /\ m.State \in Byte /\ m.CreatedAt \in Bytes /\ m.UpdatedAt \in Bytes
        /\ Len(m.Size) = 8 /\ Len(m.Version) = 8 /\ Len(m.CreatedAt) = 8 /\ Len(m.UpdatedAt) = 8
    BY DEF Records, Word
  <2>2. <<m.State>> \in Bytes /\ Len(<<m.State>>) = 1
    BY <2>1 DEF Bytes
  <2>3. appendUint16(Len(keys)) \in Bytes /\ Len(appendUint16(Len(keys))) = 2
    BY <1>0, Uint16Bytes
  <2>4. /\ FieldFits("string16", m.ID) /\ FieldFits("string16", m.Bucket)
        /\ FieldFits("string32", m.Key) /\ FieldFits("word", m.Size)
        /\ FieldFits("string16", m.ContentType) /\ FieldFits("string16", m.ETag)
        /\ FieldFits("string16", m.Checksum) /\ FieldFits("word", m.Version)
        /\ FieldFits("byte", <<m.State>>) /\ FieldFits("word", m.CreatedAt)
        /\ FieldFits("word", m.UpdatedAt) /\ FieldFits("count", appendUint16(Len(keys)))
    BY <2>1, <2>2, <2>3, KindFits DEF StringsFit
  <2>5. /\ FieldFits(Kind(1), f[1]) /\ FieldFits(Kind(2), f[2]) /\ FieldFits(Kind(3), f[3])
        /\ FieldFits(Kind(4), f[4]) /\ FieldFits(Kind(5), f[5]) /\ FieldFits(Kind(6), f[6])
        /\ FieldFits(Kind(7), f[7]) /\ FieldFits(Kind(8), f[8]) /\ FieldFits(Kind(9), f[9])
        /\ FieldFits(Kind(10), f[10]) /\ FieldFits(Kind(11), f[11]) /\ FieldFits(Kind(12), f[12])
    BY <1>3, <2>4, HeaderKinds, Zenon
  <2>6. n = 1 \/ n = 2 \/ n = 3 \/ n = 4 \/ n = 5 \/ n = 6 \/ n = 7 \/ n = 8 \/ n = 9 \/ n = 10
        \/ n = 11 \/ n = 12
    OBVIOUS
  <2> QED BY <2>5, <2>6, Zenon
<1>6. ASSUME NEW i \in 1..Len(keys)
      PROVE  /\ FieldFits(Kind(11 + 2 * i), f[11 + 2 * i])
             /\ FieldFits(Kind(12 + 2 * i), f[12 + 2 * i])
  <2>1. i \in Nat \ {0} /\ keys[i] \in DOMAIN m.Metadata
    BY <1>0
  <2>2. keys[i] \in Bytes /\ m.Metadata[keys[i]] \in Bytes
    BY <2>1, MetadataTypes
  <2>3. FieldFits("string16", keys[i]) /\ FieldFits("string32", m.Metadata[keys[i]])
    BY <2>1, <2>2, KindFits DEF StringsFit
  <2>4. Kind(11 + 2 * i) = "string16" /\ Kind(12 + 2 * i) = "string32"
    BY <2>1, EntryKinds
  <2>5. f[11 + 2 * i] = keys[i] /\ f[12 + 2 * i] = m.Metadata[keys[i]]
    BY <1>4
  <2> QED BY <2>3, <2>4, <2>5, Zenon
<1>7. ASSUME NEW n \in 1..Len(f)
      PROVE  FieldFits(Kind(n), f[n])
  <2>1. CASE n \in 1..12
    BY <1>5, <2>1
  <2>2. CASE n \notin 1..12
    <3>1. n \in 13..(12 + 2 * Len(keys))
      BY <1>0, <1>2, <2>2
    <3>2. PICK i \in 1..Len(keys) : n = 11 + 2 * i \/ n = 12 + 2 * i
      BY <1>0, <3>1, EntryFields
    <3> QED BY <1>6, <3>2, Zenon
  <2> QED BY <2>1, <2>2
<1> QED BY <1>1, <1>7 DEF AllFit

\* Data that starts with a written record holds its fields.
LEMMA FieldsRead ==
    ASSUME NEW fields \in Seq(Bytes), AllFit(fields), NEW data \in Bytes,
           StartsWith(data, Written(fields)[Len(fields)])
    PROVE  /\ \A n \in 0..Len(fields) : Ends(data)[n] = Len(Written(fields)[n])
                                        /\ Ends(data)[n] <= Len(data)
           /\ \A n \in 1..Len(fields) : FieldAt(data, n) = fields[n]
<1>0. Len(fields) \in Nat /\ Len(data) \in Nat
  BY ByteAt
<1>1. PICK w : w = Written(fields)
  OBVIOUS
<1>2. PICK e : e = Ends(data)
  OBVIOUS
<1>3. \A n \in 0..Len(fields) : w[n] \in Bytes /\ Len(w[n]) \in Nat
  BY <1>1, WrittenShape, ByteAt
<1>4. ASSUME NEW n \in 0..Len(fields)
      PROVE  Len(w[n]) <= Len(data) /\ \A i \in 1..Len(w[n]) : data[i] = w[n][i]
  <2>1. Len(fields) \in n..Len(fields)
    BY <1>0
  <2>2. StartsWith(w[Len(fields)], w[n])
    BY <1>1, <2>1, WrittenFirst
  <2>3. Len(w[Len(fields)]) \in Nat /\ Len(w[n]) \in Nat
    BY <1>0, <1>3
  <2> QED BY <1>0, <1>1, <2>2, <2>3 DEF StartsWith
<1>5. \A n \in 0..Len(fields) : e[n] = Len(w[n]) /\ e[n] <= Len(data)
  <2>1. Agrees(data, w[Len(fields)])
    <3>1. Len(fields) \in 0..Len(fields)
      BY <1>0
    <3> QED BY <1>4, <3>1 DEF Agrees
  <2>2. \A n \in 0..Len(fields) : Len(w[n]) <= Len(data) => e[n] = Len(w[n])
    BY <1>1, <1>2, <2>1, EndsMeet
  <2> QED BY <1>4, <2>2
<1>6. ASSUME NEW n \in 1..Len(fields)
      PROVE  FieldAt(data, n) = fields[n]
  <2>1. PICK k \in 0..Len(fields) : k = n - 1
    BY <1>0
  <2>2. n \in 0..Len(fields) /\ n \in Nat \ {0}
    BY <1>0
  <2>3. PICK kind \in Kinds : kind = Kind(n)
    BY <2>2, KindTypes
  <2>4. PICK f \in Bytes : f = fields[n]
    OBVIOUS
  <2>5. PICK x \in Bytes : x = appendField(kind, f)
    BY AppendedField
  <2>6. w[n] = w[k] \o x
    BY <1>1, <2>1, <2>3, <2>4, <2>5, WrittenShape
  <2>7. /\ Len(w[n]) = Len(w[k]) + Len(x) /\ \A i \in 1..Len(x) : w[n][Len(w[k]) + i] = x[i]
    <3>1. PICK y \in Bytes : y = w[k]
      BY <1>3
    <3>2. Len(y \o x) = Len(y) + Len(x) /\ \A i \in 1..Len(x) : (y \o x)[Len(y) + i] = x[i]
      BY ConcatBytes
    <3>3. w[n] = y \o x
      BY <2>6, <3>1
    <3> QED BY <3>1, <3>2, <3>3
  <2>8. PICK b \in Nat : b = LengthBytes(kind)
    BY KindTypes
  <2>9. /\ Len(x) = b + Len(f) /\ \A i \in 1..Len(f) : x[b + i] = f[i]
        /\ Len(f) \in Nat /\ Len(w[k]) \in Nat /\ Len(w[n]) \in Nat
    BY <1>3, <2>2, <2>5, <2>8, AppendedField, ByteAt
  <2>10. PICK p \in Nat : p = Len(w[k]) + b
    BY <2>9
  <2>11. p + Len(f) = Len(w[n]) /\ p + Len(f) <= Len(data)
    <3>1. Len(w[n]) = Len(w[k]) + Len(x) /\ Len(w[n]) <= Len(data)
      BY <1>4, <2>2, <2>7
    <3>2. Len(x) = b + Len(f) /\ Len(f) \in Nat /\ Len(w[k]) \in Nat
      BY <2>9
    <3>3. PICK lw \in Nat : lw = Len(w[k])
      BY <3>2
    <3>4. PICK lf \in Nat : lf = Len(f)
      BY <3>2
    <3>5. Len(w[n]) = lw + (b + lf) /\ p = lw + b
      BY <2>10, <3>1, <3>2, <3>3, <3>4
    <3>6. p + lf = Len(w[n])
      BY <3>5
    <3> QED BY <3>1, <3>4, <3>6
  <2>12. ASSUME NEW i \in 1..Len(f)
         PROVE  data[p + i] = f[i]
    <3>1. PICK j \in 1..Len(x) : j = b + i
      BY <2>9
    <3>2. PICK h : h = Len(w[k]) + j
      OBVIOUS
    <3>3. h \in 1..Len(w[n]) /\ h = p + i
      <4>1. Len(w[k]) \in Nat /\ Len(x) \in Nat /\ Len(w[n]) = Len(w[k]) + Len(x)
        BY <2>7, <2>9
      <4>2. PICK lw \in Nat : lw = Len(w[k])
        BY <4>1
      <4>3. h = lw + j /\ p = lw + b /\ j = b + i /\ j \in 1..Len(x) /\ i \in Int
        BY <2>9, <2>10, <3>1, <3>2, <4>2
      <4>4. h = p + i /\ h \in 1..(lw + Len(x))
        BY <4>1, <4>3
      <4> QED BY <4>1, <4>2, <4>4
    <3>4. data[h] = w[n][h] /\ w[n][h] = x[j]
      BY <1>4, <2>2, <2>7, <3>2, <3>3
    <3> QED BY <2>9, <3>1, <3>3, <3>4
  <2>13. SubSeq(data, p + 1, p + Len(f)) = f
    BY <2>11, <2>12, Slice
  <2>14. e[k] = Len(w[k]) /\ e[n] = Len(w[n])
    BY <1>5, <2>2
  <2>15. FieldAt(data, n) = SubSeq(data, e[k] + b + 1, e[n])
    BY <1>2, <2>1, <2>3, <2>8 DEF FieldAt
  <2> QED BY <2>4, <2>10, <2>11, <2>13, <2>14, <2>15
<1> QED BY <1>1, <1>2, <1>5, <1>6

\* The fields of a record give the record back.
LEMMA RecordRebuilt ==
    ASSUME NEW m \in Records, NEW keys, Ranged(m, keys)
    PROVE  RecordOf(FieldsOf(m, keys)) = m
<1>0. /\ Len(keys) \in Nat /\ \A i \in 1..Len(keys) : keys[i] \in DOMAIN m.Metadata
      /\ \A k \in DOMAIN m.Metadata : \E i \in 1..Len(keys) : keys[i] = k
      /\ \A i, j \in 1..Len(keys) : keys[i] = keys[j] => i = j
  BY DEF Ranged
<1>1. PICK f \in Seq(Bytes) : f = FieldsOf(m, keys)
  BY FieldsShape
<1>2. Len(f) = 12 + 2 * Len(keys)
  BY <1>1, FieldsShape
<1>3. /\ f[1] = m.ID /\ f[2] = m.Bucket /\ f[3] = m.Key /\ f[4] = m.Size /\ f[5] = m.ContentType
      /\ f[6] = m.ETag /\ f[7] = m.Checksum /\ f[8] = m.Version /\ f[9] = <<m.State>>
      /\ f[10] = m.CreatedAt /\ f[11] = m.UpdatedAt
  BY <1>1, HeaderFieldsOf
<1>4. \A i \in 1..Len(keys) : f[11 + 2 * i] = keys[i] /\ f[12 + 2 * i] = m.Metadata[keys[i]]
  BY <1>1, FieldsShape
<1> DEFINE keyFields == {n \in (HeaderFields + 1)..Len(f) : n % 2 = 1}
           last(k) == CHOOSE n \in keyFields : f[n] = k /\ \A j \in keyFields : f[j] = k => j <= n
<1>5. \A i \in 1..Len(keys) : 11 + 2 * i \in keyFields
  <2>1. ASSUME NEW i \in 1..Len(keys) PROVE 11 + 2 * i \in keyFields
    <3>1. i \in Nat \ {0} /\ 11 + 2 * i \in (HeaderFields + 1)..Len(f)
      BY <1>0, <1>2 DEF HeaderFields
    <3>2. (11 + 2 * i) % 2 = 1
      BY <3>1, EntryPlaces
    <3> QED BY <3>1, <3>2
  <2> QED BY <2>1
<1>6. \A n \in keyFields : \E i \in 1..Len(keys) : n = 11 + 2 * i
  <2>1. ASSUME NEW n \in keyFields PROVE \E i \in 1..Len(keys) : n = 11 + 2 * i
    <3>1. n \in 13..(12 + 2 * Len(keys)) /\ n % 2 = 1
      BY <1>2 DEF HeaderFields
    <3> QED BY <1>0, <3>1, EntryFields
  <2> QED BY <2>1
<1> HIDE DEF keyFields
<1>7. {f[n] : n \in keyFields} = DOMAIN m.Metadata
  <2>1. ASSUME NEW n \in keyFields PROVE f[n] \in DOMAIN m.Metadata
    <3>1. PICK i \in 1..Len(keys) : n = 11 + 2 * i
      BY <1>6
    <3> QED BY <1>0, <1>4, <3>1
  <2>2. ASSUME NEW k \in DOMAIN m.Metadata PROVE \E n \in keyFields : f[n] = k
    <3>1. PICK i \in 1..Len(keys) : keys[i] = k
      BY <1>0
    <3>2. PICK n \in keyFields : n = 11 + 2 * i
      BY <1>5
    <3> QED BY <1>4, <3>1, <3>2
  <2> QED BY <2>1, <2>2
<1>8. ASSUME NEW k \in DOMAIN m.Metadata
      PROVE  f[last(k) + 1] = m.Metadata[k]
  <2>1. PICK i \in 1..Len(keys) : keys[i] = k
    BY <1>0
  <2>2. PICK n \in keyFields : n = 11 + 2 * i
    BY <1>5
  <2>3. \A j \in keyFields : f[j] = k => j = n
    <3>1. ASSUME NEW j \in keyFields, f[j] = k PROVE j = n
      <4>1. PICK h \in 1..Len(keys) : j = 11 + 2 * h
        BY <1>6
      <4>2. keys[h] = k
        BY <1>4, <3>1, <4>1
      <4>3. h = i
        BY <1>0, <2>1, <4>2
      <4> QED BY <2>2, <4>1, <4>3
    <3> QED BY <3>1
  <2>4. f[n] = k /\ n <= n
    BY <1>4, <2>1, <2>2
  <2>5. \A j \in keyFields : f[j] = k => j <= n
    BY <2>3, <2>4
  <2>6. last(k) = n
    <3>1. \E x \in keyFields : f[x] = k /\ \A j \in keyFields : f[j] = k => j <= x
      BY <2>4, <2>5
    <3>2. last(k) \in keyFields /\ f[last(k)] = k
      BY <3>1, Zenon
    <3> HIDE DEF last
    <3> QED BY <2>3, <3>2
  <2> HIDE DEF last
  <2>7. last(k) + 1 = 12 + 2 * i
    BY <2>2, <2>6
  <2> QED BY <1>4, <2>1, <2>7
<1> HIDE DEF last
<1>9. [k \in {f[n] : n \in keyFields} |-> f[last(k) + 1]] = m.Metadata
  <2>1. [k \in DOMAIN m.Metadata |-> f[last(k) + 1]] = [k \in DOMAIN m.Metadata |-> m.Metadata[k]]
    BY <1>8
  <2>2. m.Metadata = [k \in DOMAIN m.Metadata |-> m.Metadata[k]]
    BY MetadataTypes
  <2> QED BY <1>7, <2>1, <2>2, Zenon
<1>10. f[9][1] = m.State
  BY <1>3
<1>11. RecordOf(f) =
       [ID |-> m.ID, Bucket |-> m.Bucket, Key |-> m.Key, Size |-> m.Size,
        ContentType |-> m.ContentType, ETag |-> m.ETag, Checksum |-> m.Checksum,
        Version |-> m.Version, State |-> m.State, CreatedAt |-> m.CreatedAt,
        UpdatedAt |-> m.UpdatedAt, Metadata |-> m.Metadata]
  <2> DEFINE rebuilt == [k \in {f[n] : n \in keyFields} |-> f[last(k) + 1]]
  <2>1. RecordOf(f) =
         [ID |-> f[1], Bucket |-> f[2], Key |-> f[3], Size |-> f[4], ContentType |-> f[5],
          ETag |-> f[6], Checksum |-> f[7], Version |-> f[8], State |-> f[9][1],
          CreatedAt |-> f[10], UpdatedAt |-> f[11], Metadata |-> rebuilt]
    BY Zenon DEF RecordOf, keyFields, last
  <2>2. rebuilt = m.Metadata
    BY <1>9
  <2> HIDE DEF rebuilt
  <2> QED BY <1>3, <1>10, <2>1, <2>2, Zenon
<1>12. m = [ID |-> m.ID, Bucket |-> m.Bucket, Key |-> m.Key, Size |-> m.Size,
            ContentType |-> m.ContentType, ETag |-> m.ETag, Checksum |-> m.Checksum,
            Version |-> m.Version, State |-> m.State, CreatedAt |-> m.CreatedAt,
            UpdatedAt |-> m.UpdatedAt, Metadata |-> m.Metadata]
  BY DEF Records
<1> QED BY <1>1, <1>11, <1>12

\* The bytes x are written behind w[k].
WrittenBehind(w, k, n, x) ==
    /\ w[k] \in Bytes /\ w[n] \in Bytes /\ x \in Bytes
    /\ Len(w[k]) \in Nat /\ Len(w[n]) \in Nat /\ Len(x) \in Nat
    /\ Len(w[n]) = Len(w[k]) + Len(x)
    /\ \A i \in 1..Len(x) : w[n][Len(w[k]) + i] = x[i]

\* What the buffer holds is a byte string.
LEMMA WrittenType ==
    ASSUME NEW fields \in Seq(Bytes), NEW n \in 0..Len(fields)
    PROVE  Written(fields)[n] \in Bytes /\ Len(Written(fields)[n]) \in Nat
BY WrittenShape, ByteAt

\* A field is written behind the fields before it.
LEMMA WrittenField ==
    ASSUME NEW fields \in Seq(Bytes), NEW n \in 1..Len(fields), NEW k \in Nat, n = k + 1
    PROVE  WrittenBehind(Written(fields), k, n, appendField(Kind(n), fields[n]))
<1>0. PICK x : x = appendField(Kind(n), fields[n])
  OBVIOUS
<1>1. Len(fields) \in Nat /\ k \in 0..Len(fields) /\ k = n - 1 /\ n \in 0..Len(fields)
      /\ n \in Nat \ {0}
  OBVIOUS
<1>2. PICK v : v = Written(fields)
  OBVIOUS
<1>3. v[k] \in Bytes /\ v[n] \in Bytes
  BY <1>1, <1>2, WrittenShape
<1>4. v[n] = v[k] \o x
  BY <1>0, <1>1, <1>2, WrittenShape
<1>5. x \in Bytes
  BY <1>0, <1>1, KindTypes, AppendedField
<1>6. PICK y \in Bytes : y = v[k]
  BY <1>3
<1>7. Len(y \o x) = Len(y) + Len(x) /\ \A i \in 1..Len(x) : (y \o x)[Len(y) + i] = x[i]
  BY <1>5, ConcatBytes
<1>8. Len(v[n]) = Len(v[k]) + Len(x) /\ \A i \in 1..Len(x) : v[n][Len(v[k]) + i] = x[i]
  BY <1>4, <1>6, <1>7
<1>9. Len(v[k]) \in Nat /\ Len(v[n]) \in Nat /\ Len(x) \in Nat
  BY <1>3, <1>5, ByteAt
<1>10. WrittenBehind(v, k, n, x)
  BY <1>3, <1>5, <1>8, <1>9 DEF WrittenBehind
<1> QED BY <1>0, <1>2, <1>10

\* The number of entries is read where it was written.
LEMMA CountRead ==
    ASSUME NEW fields \in Seq(Bytes), AllFit(fields), 12 <= Len(fields), NEW data \in Bytes,
           NEW count, fields[12] = count, Len(count) = 2,
           Agrees(data, Written(fields)[Len(fields)]),
           Len(Written(fields)[12]) <= Len(data)
    PROVE  Uint16(data, Ends(data)[11] + 1) = 256 * count[1] + count[2]
<1>0. Len(fields) \in Nat /\ Len(data) \in Nat
  BY ByteAt
<1>1. PICK w : w = Written(fields)
  OBVIOUS
<1>2. PICK n \in 1..Len(fields), k \in 0..Len(fields) : n = 12 /\ k = 11 /\ k = n - 1
  <2>1. 12 \in 1..Len(fields) /\ 11 \in 0..Len(fields) /\ 11 = 12 - 1
    BY <1>0
  <2> QED BY <2>1
<1>3. n \in 0..Len(fields) /\ Len(fields) \in n..Len(fields) /\ k \in Nat /\ n = k + 1
  BY <1>0, <1>2
<1>4. PICK a : a = appendField(Kind(n), fields[n])
  OBVIOUS
<1>5. a = count /\ Len(a) = 2
  <2>1. PICK kind : kind = "count"
    OBVIOUS
  <2>2. kind \notin {"string16", "string32"}
    BY <2>1
  <2>3. appendField(kind, fields[n]) = fields[n]
    BY <2>2 DEF appendField
  <2>4. Kind(n) = kind
    <3>1. Kind(12) = "count"
      BY HeaderKinds, Zenon
    <3>2. n = 12
      BY <1>2
    <3> QED BY <2>1, <3>1, <3>2, Zenon
  <2>5. fields[n] = count
    BY <1>2
  <2> QED BY <1>4, <2>3, <2>4, <2>5
<1>6. /\ w[k] \in Bytes /\ Len(w[k]) \in Nat /\ Len(w[n]) \in Nat
      /\ Len(w[n]) = Len(w[k]) + 2 /\ \A i \in 1..2 : w[n][Len(w[k]) + i] = a[i]
  <2>1. /\ w[k] \in Bytes /\ Len(w[k]) \in Nat /\ Len(w[n]) \in Nat
        /\ Len(w[n]) = Len(w[k]) + Len(a) /\ \A i \in 1..Len(a) : w[n][Len(w[k]) + i] = a[i]
    <3>1. WrittenBehind(w, k, n, a)
      BY <1>1, <1>3, <1>4, WrittenField
    <3> QED BY <3>1 DEF WrittenBehind
  <2> QED BY <1>5, <2>1
<1>7. PICK y \in Bytes : y = w[k]
  BY <1>6
<1>8. Len(w[n]) = Len(y) + 2 /\ \A i \in 1..2 : w[n][Len(y) + i] = a[i]
  BY <1>6, <1>7
<1>9. Len(y) \in Nat /\ Len(w[n]) \in Nat /\ Len(w[n]) <= Len(data)
  BY <1>1, <1>2, <1>6, <1>7
<1>10. Ends(data)[k] = Len(y)
  <2>1. Len(w[k]) <= Len(data)
    BY <1>0, <1>7, <1>8, <1>9
  <2>2. \A h \in 0..Len(fields) : Len(w[h]) <= Len(data) => Ends(data)[h] = Len(w[h])
    BY <1>1, EndsMeet
  <2> QED BY <1>2, <1>7, <2>1, <2>2
<1>11. ASSUME NEW i \in 1..2
       PROVE  data[Len(y) + i] = a[i]
  <2>1. StartsWith(w[Len(fields)], w[n])
    BY <1>1, <1>3, WrittenFirst
  <2>2. PICK j \in Nat : j = Len(y) + i
    BY <1>9
  <2>3. j \in 1..Len(w[n]) /\ j \in 1..Len(w[Len(fields)]) /\ j <= Len(data)
    <3>1. Len(w[Len(fields)]) \in Nat
      BY <1>0, <1>1, WrittenType
    <3>2. Len(w[n]) <= Len(w[Len(fields)])
      BY <2>1 DEF StartsWith
    <3>3. j \in 1..Len(w[n])
      <4>1. Len(w[n]) = Len(y) + 2 /\ Len(y) \in Nat /\ i \in 1..2
        BY <1>8, <1>9
      <4> QED BY <2>2, <4>1
    <3>4. j <= Len(w[n]) /\ 1 <= j
      BY <1>9, <3>3
    <3> QED BY <1>0, <1>9, <3>1, <3>2, <3>3, <3>4
  <2>4. data[j] = w[Len(fields)][j]
    BY <1>1, <2>3 DEF Agrees
  <2>5. w[Len(fields)][j] = w[n][j]
    BY <2>1, <2>3 DEF StartsWith
  <2> QED BY <1>8, <2>2, <2>4, <2>5
<1>12. data[Len(y) + 1] = a[1] /\ data[Len(y) + 1 + 1] = a[2]
  <2>1. Len(y) + 1 + 1 = Len(y) + 2
    BY <1>9
  <2> QED BY <1>11, <2>1
<1>13. Ends(data)[11] = Len(y)
  BY <1>2, <1>10
<1> QED BY <1>5, <1>12, <1>13 DEF Uint16

\* The number of entries and of fields that decodeMetadata finds in data.
Count(data) == Uint16(data, Ends(data)[HeaderFields - 1] + 1)
FieldCount(data) == HeaderFields + 2 * Count(data)
FieldsIn(data) == [n \in 1..FieldCount(data) |-> FieldAt(data, n)]
IsWhole(data) == Ends(data)[HeaderFields] <= Len(data) /\ Ends(data)[FieldCount(data)] <= Len(data)
IsVersioned(data) == data[1] \in minSupportedVersion..maxSupportedVersion

\* The outcomes of decodeMetadata.
LEMMA Decoded ==
    ASSUME NEW data
    PROVE  /\ data = << >> => decodeMetadata(data) = Failure("corrupted")
           /\ data # << >> /\ ~IsVersioned(data) => decodeMetadata(data) = Failure("unsupported")
           /\ data # << >> /\ IsVersioned(data) /\ ~IsWhole(data) =>
                 decodeMetadata(data) = Failure("corrupted")
           /\ data # << >> /\ IsVersioned(data) /\ IsWhole(data) =>
                 decodeMetadata(data) = [err |-> "none", record |-> RecordOf(FieldsIn(data))]
<1>1. decodeMetadata(data) =
        CASE data = << >> -> Failure("corrupted")
          [] data # << >> /\ ~IsVersioned(data) -> Failure("unsupported")
          [] OTHER -> IF IsWhole(data)
                      THEN [err |-> "none", record |-> RecordOf(FieldsIn(data))]
                      ELSE Failure("corrupted")
  BY Zenon DEF decodeMetadata, IsVersioned, IsWhole, FieldsIn, FieldCount, Count
<1> QED BY <1>1, Zenon

\* A record that is encoded at all is its fields, all written.
LEMMA Encoded ==
    ASSUME NEW m \in Records, NEW keys, Ranged(m, keys), encodeMetadata(m, keys).err = "none"
    PROVE  /\ Len(keys) <= MaxMetadataEntries
           /\ encodeMetadata(m, keys).data = Written(FieldsOf(m, keys))[Len(FieldsOf(m, keys))]
<1> DEFINE large == \/ Len(keys) > MaxMetadataEntries
                    \/ \E k \in DOMAIN m.Metadata : Len(m.Metadata[k]) > MaxMetadataValueSize
           out == [err |-> "none", data |-> Written(FieldsOf(m, keys))[HeaderFields + 2 * Len(keys)]]
<1>1. encodeMetadata(m, keys) = IF large THEN [err |-> "tooLarge", data |-> << >>] ELSE out
  BY Zenon DEF encodeMetadata
<1>2. ~large
  <2>1. "tooLarge" # "none"
    OBVIOUS
  <2>2. [err |-> "tooLarge", data |-> << >>].err = "tooLarge"
    OBVIOUS
  <2> HIDE DEF large
  <2> QED BY <1>1, <2>1, <2>2, Zenon
<1>3. encodeMetadata(m, keys) = out
  <2> HIDE DEF large, out
  <2> QED BY <1>1, <1>2, Zenon
<1>4. Len(keys) <= MaxMetadataEntries
  <2>1. Len(keys) \in Nat
    BY DEF Ranged
  <2> QED BY <1>2, <2>1 DEF MaxMetadataEntries
<1>5. out.data = Written(FieldsOf(m, keys))[HeaderFields + 2 * Len(keys)]
  BY Zenon
<1>6. HeaderFields + 2 * Len(keys) = Len(FieldsOf(m, keys))
  BY FieldsShape DEF HeaderFields
<1> HIDE DEF large, out
<1> QED BY <1>3, <1>4, <1>5, <1>6, Zenon

\* What is read of data that agrees with an encoded record.
LEMMA EncodedRead ==
    ASSUME NEW m \in Records, NEW keys, Ranged(m, keys), StringsFit(m),
           Len(keys) <= MaxMetadataEntries, NEW data \in Bytes, data # << >>,
           NEW fields, fields = FieldsOf(m, keys),
           Agrees(data, Written(fields)[Len(fields)])
    PROVE  /\ IsVersioned(data)
           /\ Len(Written(fields)[12]) <= Len(data) => FieldCount(data) = Len(fields)
<1>1. PICK f \in Seq(Bytes) : f = fields
  BY FieldsShape
<1>2. /\ AllFit(f) /\ Len(f) = 12 + 2 * Len(keys) /\ Len(keys) \in Nat /\ Len(data) \in Nat
      /\ f[12] = appendUint16(Len(keys))
  <2>1. AllFit(f)
    BY <1>1, FieldsFit
  <2>2. Len(f) = 12 + 2 * Len(keys)
    BY <1>1, FieldsShape
  <2>3. Len(keys) \in Nat
    BY DEF Ranged
  <2>4. f[12] = appendUint16(Len(keys))
    BY <1>1, HeaderFieldsOf
  <2>5. Len(data) \in Nat
    BY ByteAt
  <2> QED BY <2>1, <2>2, <2>3, <2>4, <2>5
<1>3. Agrees(data, Written(f)[Len(f)])
  BY <1>1
<1>4. IsVersioned(data)
  <2>1. Len(data) # 0
    BY <1>2 DEF Bytes
  <2>2. 0 \in 0..Len(f) /\ Len(f) \in 0..Len(f)
    BY <1>2
  <2>3. StartsWith(Written(f)[Len(f)], Written(f)[0])
    BY <2>2, WrittenFirst
  <2>4. PICK w : w = Written(f)[Len(f)] /\ Len(w) \in Nat
    BY <2>2, WrittenType
  <2>5. Written(f)[0] = <<1>>
    BY WrittenShape DEF currentSchemaVersion
  <2>6. Len(w) >= 1 /\ w[1] = 1
    BY <2>3, <2>4, <2>5 DEF StartsWith
  <2>7. data[1] = w[1]
    BY <1>2, <1>3, <2>1, <2>4, <2>6 DEF Agrees
  <2> QED BY <2>6, <2>7 DEF IsVersioned, minSupportedVersion, maxSupportedVersion
<1>5. ASSUME Len(Written(f)[12]) <= Len(data)
      PROVE  FieldCount(data) = Len(f)
  <2>1. PICK count : count = f[12]
    OBVIOUS
  <2>2. Len(count) = 2
    BY <1>2, <2>1, Uint16Bytes
  <2>3. Uint16(data, Ends(data)[11] + 1) = 256 * count[1] + count[2]
    <3>1. 12 <= Len(f)
      BY <1>2
    <3>2. AllFit(f)
      BY <1>2
    <3> QED BY <1>3, <1>5, <2>1, <2>2, <3>1, <3>2, CountRead
  <2>4. 256 * count[1] + count[2] = Len(keys)
    <3>1. Len(keys) < 65536
      BY <1>2 DEF MaxMetadataEntries
    <3> QED BY <1>2, <2>1, <3>1, Uint16Value
  <2>5. Count(data) = Len(keys)
    <3>1. HeaderFields - 1 = 11
      BY DEF HeaderFields
    <3> QED BY <2>3, <2>4, <3>1 DEF Count
  <2> QED BY <1>2, <2>5 DEF FieldCount, HeaderFields
<1> QED BY <1>1, <1>4, <1>5

-----------------------------------------------------------------------------
(* What the layout gives. *)

\* decodeMetadata of what encodeMetadata wrote is the record it wrote, in
\* whatever order the range over its metadata went, for every record whose
\* strings fit their length fields; bytes behind the record change nothing.
THEOREM RecordRoundTrip ==
    ASSUME NEW m \in Records, NEW keys, Ranged(m, keys), StringsFit(m),
           encodeMetadata(m, keys).err = "none", NEW rest \in Bytes
    PROVE  decodeMetadata(encodeMetadata(m, keys).data \o rest) = [err |-> "none", record |-> m]
<1>1. PICK fields \in Seq(Bytes) : fields = FieldsOf(m, keys)
  BY FieldsShape
<1>2. Len(fields) = 12 + 2 * Len(keys) /\ Len(keys) \in Nat /\ Len(keys) <= MaxMetadataEntries
      /\ AllFit(fields)
  <2>1. AllFit(fields)
    BY <1>1, FieldsFit
  <2>2. Len(fields) = 12 + 2 * Len(keys)
    BY <1>1, FieldsShape
  <2>3. Len(keys) \in Nat
    BY DEF Ranged
  <2>4. Len(keys) <= MaxMetadataEntries
    BY Encoded
  <2> QED BY <2>1, <2>2, <2>3, <2>4
<1>3. PICK w \in Bytes : w = Written(fields)[Len(fields)]
  <2>1. Len(fields) \in 0..Len(fields)
    BY <1>2
  <2> QED BY <2>1, WrittenType
<1>4. PICK data \in Bytes : data = w \o rest
  BY ConcatBytes
<1>5. encodeMetadata(m, keys).data \o rest = data
  BY <1>1, <1>3, <1>4, Encoded
<1>6. StartsWith(data, w) /\ Agrees(data, w)
  <2>1. Len(w \o rest) = Len(w) + Len(rest) /\ \A i \in 1..Len(w) : (w \o rest)[i] = w[i]
    BY ConcatBytes
  <2>2. Len(w) \in Nat /\ Len(rest) \in Nat
    BY ByteAt
  <2> QED BY <1>4, <2>1, <2>2 DEF StartsWith, Agrees
<1>7. /\ \A n \in 0..Len(fields) : Ends(data)[n] = Len(Written(fields)[n])
                                   /\ Ends(data)[n] <= Len(data)
      /\ \A n \in 1..Len(fields) : FieldAt(data, n) = fields[n]
  BY <1>2, <1>3, <1>6, FieldsRead
<1>8. 0 \in 0..Len(fields) /\ 12 \in 0..Len(fields) /\ Len(fields) \in 0..Len(fields)
  BY <1>2
<1>9. data # << >>
  <2>1. Ends(data)[0] <= Len(data) /\ Ends(data)[0] = 1 /\ Len(<< >>) = 0
    BY <1>7, <1>8, EndsShape
  <2> QED BY <2>1
<1>10. IsVersioned(data) /\ FieldCount(data) = Len(fields)
  <2>1. Len(Written(fields)[12]) <= Len(data)
    BY <1>7, <1>8
  <2>2. Agrees(data, Written(fields)[Len(fields)])
    BY <1>3, <1>6
  <2> QED BY <1>1, <1>2, <1>9, <2>1, <2>2, EncodedRead
<1>11. IsWhole(data)
  BY <1>7, <1>8, <1>10 DEF IsWhole, HeaderFields
<1>12. FieldsIn(data) = fields
  <2>1. FieldsIn(data) = [n \in 1..Len(fields) |-> fields[n]]
    BY <1>7, <1>10 DEF FieldsIn
  <2> QED BY <2>1
<1>13. RecordOf(FieldsIn(data)) = m
  BY <1>1, <1>12, RecordRebuilt
<1>14. decodeMetadata(data) = [err |-> "none", record |-> m]
  <2>1. decodeMetadata(data) = [err |-> "none", record |-> RecordOf(FieldsIn(data))]
    BY <1>9, <1>10, <1>11, Decoded
  <2> QED BY <1>13, <2>1
<1> QED BY <1>5, <1>14

\* decodeMetadata of an encoded record that was cut off anywhere fails with
\* ErrMetadataCorrupted: no cut makes it another record or an unknown version.
THEOREM TruncationIsSeen ==
    ASSUME NEW m \in Records, NEW keys, Ranged(m, keys), StringsFit(m),
           encodeMetadata(m, keys).err = "none", NEW data \in Bytes,
           Len(data) < Len(encodeMetadata(m, keys).data),
           StartsWith(encodeMetadata(m, keys).data, data)
    PROVE  decodeMetadata(data) = Failure("corrupted")
<1>1. PICK fields \in Seq(Bytes) : fields = FieldsOf(m, keys)
  BY FieldsShape
<1>2. Len(fields) = 12 + 2 * Len(keys) /\ Len(keys) \in Nat /\ Len(keys) <= MaxMetadataEntries
      /\ AllFit(fields) /\ Len(data) \in Nat
  <2>1. AllFit(fields)
    BY <1>1, FieldsFit
  <2>2. Len(fields) = 12 + 2 * Len(keys)
    BY <1>1, FieldsShape
  <2>3. Len(keys) \in Nat
    BY DEF Ranged
  <2>4. Len(keys) <= MaxMetadataEntries
    BY Encoded
  <2>5. Len(data) \in Nat
    BY ByteAt
  <2> QED BY <2>1, <2>2, <2>3, <2>4, <2>5
<1>3. PICK w \in Bytes : w = Written(fields)[Len(fields)] /\ Len(w) \in Nat
  <2>1. Len(fields) \in 0..Len(fields)
    BY <1>2
  <2> QED BY <2>1, WrittenType
<1>4. encodeMetadata(m, keys).data = w
  BY <1>1, <1>3, Encoded
<1>5. Agrees(data, Written(fields)[Len(fields)])
  <2>1. \A i \in 1..Len(data) : w[i] = data[i]
    BY <1>4 DEF StartsWith
  <2>2. Agrees(data, w)
    BY <1>2, <1>3, <2>1 DEF Agrees
  <2> QED BY <1>3, <2>2
<1>6. /\ \A n \in 0..Len(fields) : Len(Written(fields)[n]) > Len(data) => Ends(data)[n] > Len(data)
      /\ Ends(data)[12] \in Nat /\ Ends(data)[Len(fields)] \in Nat
  <2>1. AllFit(fields)
    BY <1>2
  <2>2. \A n \in 0..Len(fields) : Len(Written(fields)[n]) > Len(data) => Ends(data)[n] > Len(data)
    BY <1>5, <2>1, EndsMeet
  <2>3. \A n \in Nat : Ends(data)[n] \in Nat
    BY EndsShape
  <2>4. 12 \in Nat /\ Len(fields) \in Nat
    OBVIOUS
  <2> QED BY <2>2, <2>3, <2>4
<1>7. CASE data = << >>
  BY <1>7, Decoded
<1>8. CASE data # << >> /\ Len(Written(fields)[12]) > Len(data)
  <2>1. 12 \in 0..Len(fields)
    BY <1>2
  <2>2. ~(Ends(data)[12] <= Len(data))
    BY <1>2, <1>6, <1>8, <2>1
  <2>3. ~IsWhole(data)
    BY <2>2 DEF IsWhole, HeaderFields
  <2>4. IsVersioned(data)
    BY <1>1, <1>2, <1>5, <1>8, EncodedRead
  <2> QED BY <1>8, <2>3, <2>4, Decoded
<1>9. CASE data # << >> /\ ~(Len(Written(fields)[12]) > Len(data))
  <2>1. Len(Written(fields)[12]) <= Len(data)
    <3>1. 12 \in 0..Len(fields)
      BY <1>2
    <3>2. Len(Written(fields)[12]) \in Nat
      BY <3>1, WrittenType
    <3> QED BY <1>2, <1>9, <3>2
  <2>2. IsVersioned(data) /\ FieldCount(data) = Len(fields)
    <3>1. data # << >> /\ Len(keys) <= MaxMetadataEntries
      BY <1>2, <1>9
    <3> QED BY <1>1, <1>5, <2>1, <3>1, EncodedRead
  <2>3. ~(Ends(data)[Len(fields)] <= Len(data))
    <3>1. Len(fields) \in 0..Len(fields)
      BY <1>2
    <3>2. Len(Written(fields)[Len(fields)]) > Len(data)
      BY <1>2, <1>3, <1>4
    <3> QED BY <1>2, <1>6, <3>1, <3>2
  <2>4. ~IsWhole(data)
    BY <2>2, <2>3 DEF IsWhole
  <2> QED BY <1>9, <2>2, <2>4, Decoded
<1> QED BY <1>7, <1>8, <1>9

\* The lengths that are read fit the fields they are read from.
LEMMA LengthRead ==
    ASSUME NEW data \in Bytes, NEW p \in Nat
    PROVE  /\ p + 2 <= Len(data) => Uint16(data, p + 1) \in Nat /\ Uint16(data, p + 1) < 65536
           /\ p + 4 <= Len(data) => Uint32(data, p + 1) \in Nat /\ Uint32(data, p + 1) < 4294967296
<1>1. ASSUME p + 2 <= Len(data)
      PROVE  Uint16(data, p + 1) \in Nat /\ Uint16(data, p + 1) < 65536
  <2>1. p + 1 \in 1..Len(data) /\ p + 1 + 1 \in 1..Len(data)
    BY <1>1, ByteAt
  <2>2. PICK a \in 0..255, b \in 0..255 : a = data[p + 1] /\ b = data[p + 1 + 1]
    BY <2>1, ByteAt DEF Byte
  <2>3. Uint16(data, p + 1) = 256 * a + b
    BY <2>2 DEF Uint16
  <2>4. 256 * a + b \in Nat /\ 256 * a + b < 65536
    BY SMT
  <2> QED BY <2>3, <2>4
<1>2. ASSUME p + 4 <= Len(data)
      PROVE  Uint32(data, p + 1) \in Nat /\ Uint32(data, p + 1) < 4294967296
  <2>1. /\ p + 1 \in 1..Len(data) /\ p + 1 + 1 \in 1..Len(data)
        /\ p + 1 + 2 \in 1..Len(data) /\ p + 1 + 3 \in 1..Len(data)
    BY <1>2, ByteAt
  <2>2. PICK a \in 0..255, b \in 0..255, c \in 0..255, d \in 0..255 :
           a = data[p + 1] /\ b = data[p + 1 + 1] /\ c = data[p + 1 + 2] /\ d = data[p + 1 + 3]
    BY <2>1, ByteAt DEF Byte
  <2>3. Uint32(data, p + 1) = 16777216 * a + 65536 * b + 256 * c + d
    BY <2>2, SMT DEF Uint32
  <2>4. /\ 16777216 * a + 65536 * b + 256 * c + d \in Nat
        /\ 16777216 * a + 65536 * b + 256 * c + d < 4294967296
    BY SMT
  <2> QED BY <2>3, <2>4, SMT
<1> QED BY <1>1, <1>2, SMT

\* A field that ends inside the data holds what its kind can hold.
LEMMA FieldInside ==
    ASSUME NEW data \in Bytes, NEW k \in Nat, NEW n \in Nat \ {0}, n = k + 1,
           Ends(data)[n] <= Len(data)
    PROVE  /\ Ends(data)[k] <= Len(data)
           /\ FieldAt(data, n) \in Bytes
           /\ FieldFits(Kind(n), FieldAt(data, n))
<1>1. PICK kind \in Kinds : kind = Kind(n)
  BY KindTypes
<1>2. PICK p \in Nat : p = Ends(data)[k]
  BY EndsShape
<1>3. PICK q \in Nat : q = Ends(data)[n]
  BY EndsShape
<1>4. PICK b \in Nat : b = LengthBytes(kind)
  BY KindTypes
<1>5. Len(data) \in Nat /\ q <= Len(data)
  BY <1>3, ByteAt
<1>6. q = NextEnd(data, kind, p)
  BY <1>1, <1>2, <1>3, EndsShape
<1>7. p + b <= Len(data)
  BY <1>4, <1>5, <1>6 DEF NextEnd
<1>8. q = p + FieldSize(kind, data, p)
  BY <1>4, <1>5, <1>6, <1>7 DEF NextEnd
<1>9. PICK l \in Nat : /\ q = p + b + l
                       /\ kind = "string16" => l < 65536
                       /\ kind = "string32" => l < 4294967296
                       /\ kind \notin {"string16", "string32"} => l = FixedBytes(kind)
  <2>1. CASE kind = "string16"
    <3>1. LengthBytes(kind) = 2 /\ FieldSize(kind, data, p) = 2 + Uint16(data, p + 1)
      BY <2>1, Zenon DEF LengthBytes, FieldSize
    <3>2. Uint16(data, p + 1) \in Nat /\ Uint16(data, p + 1) < 65536
      BY <1>4, <1>7, <3>1, LengthRead
    <3>3. kind # "string32"
      BY <2>1
    <3> QED BY <1>4, <1>8, <2>1, <3>1, <3>2, <3>3
  <2>2. CASE kind = "string32"
    <3>1. LengthBytes(kind) = 4 /\ FieldSize(kind, data, p) = 4 + Uint32(data, p + 1)
      BY <2>2, Zenon DEF LengthBytes, FieldSize
    <3>2. Uint32(data, p + 1) \in Nat /\ Uint32(data, p + 1) < 4294967296
      BY <1>4, <1>7, <3>1, LengthRead
    <3>3. kind # "string16"
      BY <2>2
    <3> QED BY <1>4, <1>8, <2>2, <3>1, <3>2, <3>3
  <2>3. CASE kind \notin {"string16", "string32"}
    <3>1. LengthBytes(kind) = 0 /\ FieldSize(kind, data, p) = FixedBytes(kind)
      BY <2>3, Zenon DEF LengthBytes, FieldSize
    <3>2. FixedBytes(kind) \in Nat
      BY KindTypes
    <3> QED BY <1>4, <1>8, <2>3, <3>1, <3>2
  <2> QED BY <2>1, <2>2, <2>3
<1>10. PICK f : f = SubSeq(data, p + b + 1, q)
  OBVIOUS
<1>11. f \in Bytes /\ Len(f) = l
  <2>1. \A i \in (p + b + 1)..q : data[i] \in Byte
    <3>1. ASSUME NEW i \in (p + b + 1)..q PROVE data[i] \in Byte
      <4>1. i \in 1..Len(data)
        BY <1>5
      <4> QED BY <4>1, ByteAt
    <3> QED BY <3>1
  <2>2. /\ f \in Seq(Byte)
        /\ Len(f) = IF p + b + 1 <= q THEN q - (p + b + 1) + 1 ELSE 0
    <3>1. p + b + 1 \in Int /\ q \in Int
      OBVIOUS
    <3> QED BY <1>10, <2>1, <3>1, SubSeqProperties
  <2> QED BY <1>9, <2>2 DEF Bytes
<1>12. f = FieldAt(data, n)
  <2>1. n - 1 = k
    OBVIOUS
  <2> QED BY <1>1, <1>2, <1>3, <1>4, <1>10, <2>1 DEF FieldAt
<1>13. FieldFits(kind, f)
  BY <1>9, <1>11, SMT DEF FieldFits
<1>14. p <= Len(data)
  BY <1>5, <1>7
<1> QED BY <1>1, <1>2, <1>11, <1>12, <1>13, <1>14, Zenon

\* If the last field ends inside the data, all do.
LEMMA AllInside ==
    ASSUME NEW data \in Bytes, NEW N \in Nat, Ends(data)[N] <= Len(data), NEW n \in 0..N
    PROVE  Ends(data)[n] <= Len(data)
<1> DEFINE T == {i \in Nat : i <= N => Ends(data)[N - i] <= Len(data)}
<1>1. 0 \in T
  <2>1. N - 0 = N
    OBVIOUS
  <2> QED BY <2>1
<1>2. ASSUME NEW i \in Nat, i \in T
      PROVE  i + 1 \in T
  <2>1. SUFFICES ASSUME i + 1 <= N PROVE Ends(data)[N - (i + 1)] <= Len(data)
    OBVIOUS
  <2>2. PICK k \in Nat : k = N - (i + 1)
    BY <2>1
  <2>3. PICK h \in Nat \ {0} : h = N - i /\ h = k + 1
    BY <2>1, <2>2
  <2>4. Ends(data)[h] <= Len(data)
    BY <1>2, <2>1, <2>3
  <2> HIDE DEF T
  <2>5. Ends(data)[k] <= Len(data)
    BY <2>3, <2>4, FieldInside
  <2> QED BY <2>2, <2>5
<1> HIDE DEF T
<1>3. \A i \in Nat : i \in T
  BY <1>1, <1>2, FromZero
<1>4. PICK i \in Nat : i = N - n /\ i <= N /\ N - i = n
  OBVIOUS
<1> QED BY <1>3, <1>4 DEF T

\* The fields of whole data.
LEMMA WholeFields ==
    ASSUME NEW data \in Bytes, IsWhole(data)
    PROVE  /\ Count(data) \in Nat
           /\ FieldsIn(data) \in Seq(Bytes) /\ Len(FieldsIn(data)) = 12 + 2 * Count(data)
           /\ AllFit(FieldsIn(data))
<1>1. PICK e : e = Ends(data) /\ \A n \in Nat : e[n] \in Nat
  BY EndsShape
<1>2. Ends(data)[12] <= Len(data) /\ Ends(data)[FieldCount(data)] <= Len(data) /\ Len(data) \in Nat
  BY ByteAt DEF IsWhole, HeaderFields
<1>3. Ends(data)[11] \in Nat /\ Ends(data)[11] + 2 <= Len(data)
  <2>1. PICK p \in Nat : p = Ends(data)[11]
    BY EndsShape
  <2>2. Ends(data)[12] = NextEnd(data, Kind(12), p)
    <3>1. 11 \in Nat /\ 12 \in Nat /\ 12 = 11 + 1
      OBVIOUS
    <3> QED BY <2>1, <3>1, EndsShape
  <2>3. Kind(12) = "count"
    BY HeaderKinds
  <2>4. LengthBytes("count") = 0 /\ FieldSize("count", data, p) = 2
    <3>1. PICK kind : kind = "count"
      OBVIOUS
    <3>2. kind \notin {"string16", "string32", "word", "byte"}
      BY <3>1
    <3>3. LengthBytes(kind) = 0 /\ FieldSize(kind, data, p) = FixedBytes(kind) /\ FixedBytes(kind) = 2
      BY <3>2, Zenon DEF LengthBytes, FieldSize, FixedBytes
    <3> QED BY <3>1, <3>3
  <2>5. NextEnd(data, "count", p) <= Len(data) => p + 2 <= Len(data)
    BY <1>2, <2>4 DEF NextEnd
  <2> QED BY <1>2, <2>1, <2>2, <2>3, <2>5
<1>4. Count(data) \in Nat
  <2>1. HeaderFields - 1 = 11
    BY DEF HeaderFields
  <2>2. Uint16(data, Ends(data)[11] + 1) \in Nat
    BY <1>3, LengthRead
  <2> QED BY <2>1, <2>2 DEF Count
<1>5. PICK N \in Nat : N = FieldCount(data) /\ N = 12 + 2 * Count(data)
  BY <1>4 DEF FieldCount, HeaderFields
<1>6. ASSUME NEW n \in 1..N
      PROVE  FieldAt(data, n) \in Bytes /\ FieldFits(Kind(n), FieldAt(data, n))
  <2>1. PICK k \in Nat : n = k + 1
    <3>1. n - 1 \in Nat /\ n = n - 1 + 1
      OBVIOUS
    <3> QED BY <3>1
  <2>2. n \in 0..N /\ n \in Nat \ {0}
    OBVIOUS
  <2>3. Ends(data)[n] <= Len(data)
    BY <1>2, <1>5, <2>2, AllInside
  <2> QED BY <2>1, <2>2, <2>3, FieldInside
<1>7. FieldsIn(data) = [n \in 1..N |-> FieldAt(data, n)]
  BY <1>5 DEF FieldsIn
<1>8. PICK f : f = FieldsIn(data)
  OBVIOUS
<1>9. f \in Seq(Bytes) /\ Len(f) = N /\ \A n \in 1..N : f[n] = FieldAt(data, n)
  BY <1>6, <1>7, <1>8
<1>10. AllFit(f)
  BY <1>6, <1>9 DEF AllFit
<1> QED BY <1>4, <1>5, <1>8, <1>9, <1>10

\* What a field of a kind that fits is.
LEMMA FitKinds ==
    ASSUME NEW f \in Bytes
    PROVE  /\ FieldFits("string16", f) => Len(f) < 65536
           /\ FieldFits("string32", f) => Len(f) < 4294967296
           /\ FieldFits("word", f) => f \in Word
           /\ FieldFits("byte", f) => f[1] \in Byte
<1>1. ASSUME FieldFits("string16", f) PROVE Len(f) < 65536
  BY <1>1, SMT DEF FieldFits
<1>2. ASSUME FieldFits("string32", f) PROVE Len(f) < 4294967296
  BY <1>2, SMT DEF FieldFits
<1>3. FixedBytes("word") = 8 /\ FixedBytes("byte") = 1
  BY DEF FixedBytes
<1>4. ASSUME FieldFits("word", f) PROVE f \in Word
  BY <1>3, <1>4, SMT DEF FieldFits, Word
<1>5. ASSUME FieldFits("byte", f) PROVE f[1] \in Byte
  <2>1. Len(f) = 1
    BY <1>3, <1>5, SMT DEF FieldFits
  <2> QED BY <2>1, ByteAt
<1> QED BY <1>1, <1>2, <1>4, <1>5, SMT

\* Whatever bytes decodeMetadata accepts, what it returns is a record all of
\* whose strings fit their length fields.
THEOREM DecodedFits ==
    ASSUME NEW data \in Bytes, decodeMetadata(data).err = "none"
    PROVE  decodeMetadata(data).record \in Records /\ StringsFit(decodeMetadata(data).record)
<1>1. IsWhole(data) /\ decodeMetadata(data).record = RecordOf(FieldsIn(data))
  <2>1. Failure("corrupted").err # "none" /\ Failure("unsupported").err # "none"
    BY DEF Failure
  <2>2. data # << >> /\ IsVersioned(data) /\ IsWhole(data)
    BY <2>1, Decoded
  <2>3. decodeMetadata(data) = [err |-> "none", record |-> RecordOf(FieldsIn(data))]
    BY <2>2, Decoded
  <2> QED BY <2>2, <2>3
<1>2. PICK f \in Seq(Bytes), c \in Nat : f = FieldsIn(data) /\ Len(f) = 12 + 2 * c /\ AllFit(f)
  BY <1>1, WholeFields
<1>3. \A n \in 1..Len(f) : f[n] \in Bytes /\ FieldFits(Kind(n), f[n])
  BY <1>2 DEF AllFit
<1> DEFINE keyFields == {n \in (HeaderFields + 1)..Len(f) : n % 2 = 1}
           last(k) == CHOOSE n \in keyFields : f[n] = k /\ \A j \in keyFields : f[j] = k => j <= n
           rebuilt == [k \in {f[n] : n \in keyFields} |-> f[last(k) + 1]]
<1>4. \A n \in keyFields : /\ n \in 1..Len(f) /\ n + 1 \in 1..Len(f)
                           /\ Kind(n) = "string16" /\ Kind(n + 1) = "string32"
  <2>1. ASSUME NEW n \in keyFields
        PROVE  /\ n \in 1..Len(f) /\ n + 1 \in 1..Len(f)
               /\ Kind(n) = "string16" /\ Kind(n + 1) = "string32"
    <3>1. n \in 13..(12 + 2 * c) /\ n % 2 = 1
      BY <1>2 DEF HeaderFields
    <3>2. PICK i \in 1..c : n = 11 + 2 * i
      BY <3>1, EntryFields
    <3>3. PICK h \in Nat : h = 12 + 2 * i
      OBVIOUS
    <3>4. n + 1 = h /\ n \in 1..Len(f) /\ h \in 1..Len(f) /\ i \in Nat \ {0}
      BY <1>2, <3>2, <3>3
    <3>5. Kind(n) = "string16" /\ Kind(h) = "string32"
      BY <3>2, <3>3, <3>4, EntryKinds
    <3> QED BY <3>4, <3>5
  <2> QED BY <2>1
<1>5. keyFields \in SUBSET (1..Len(f)) /\ Len(f) \in Nat
  BY <1>2, <1>4
<1> HIDE DEF keyFields
<1>6. ASSUME NEW k \in {f[n] : n \in keyFields}
      PROVE  last(k) \in keyFields
  <2> DEFINE S == {n \in keyFields : f[n] = k}
  <2>1. S \in SUBSET (1..Len(f)) /\ S # {}
    BY <1>5, <1>6
  <2>2. PICK n \in S : \A j \in S : j <= n
    <3> HIDE DEF S
    <3> QED BY <1>5, <2>1, GreatestBelow
  <2>3. \E x \in keyFields : f[x] = k /\ \A j \in keyFields : f[j] = k => j <= x
    BY <2>2
  <2> QED BY <2>3, Zenon
<1> HIDE DEF last
<1>7. \A k \in {f[n] : n \in keyFields} :
         /\ k \in Bytes /\ FieldFits("string16", k)
         /\ rebuilt[k] \in Bytes /\ FieldFits("string32", rebuilt[k])
  <2>1. ASSUME NEW k \in {f[n] : n \in keyFields}
        PROVE  /\ k \in Bytes /\ FieldFits("string16", k)
               /\ rebuilt[k] \in Bytes /\ FieldFits("string32", rebuilt[k])
    <3>1. PICK n \in keyFields : f[n] = k
      OBVIOUS
    <3>2. k \in Bytes /\ FieldFits("string16", k)
      BY <1>3, <1>4, <3>1
    <3>3. PICK h \in keyFields : h = last(k)
      BY <1>6
    <3>4. f[h + 1] \in Bytes /\ FieldFits("string32", f[h + 1])
      BY <1>3, <1>4
    <3>5. rebuilt[k] = f[h + 1]
      BY <3>3
    <3> HIDE DEF rebuilt
    <3> QED BY <3>2, <3>4, <3>5
  <2> HIDE DEF rebuilt
  <2> QED BY <2>1
<1>8. DOMAIN rebuilt = {f[n] : n \in keyFields} /\ rebuilt = [k \in DOMAIN rebuilt |-> rebuilt[k]]
  OBVIOUS
<1> HIDE DEF rebuilt
<1>9. rebuilt \in UNION {[K -> Bytes] : K \in SUBSET Bytes}
  <2>1. DOMAIN rebuilt \in SUBSET Bytes
    BY <1>7, <1>8
  <2>2. rebuilt \in [DOMAIN rebuilt -> Bytes]
    BY <1>7, <1>8
  <2> QED BY <2>1, <2>2
<1>10. RecordOf(f) =
         [ID |-> f[1], Bucket |-> f[2], Key |-> f[3], Size |-> f[4], ContentType |-> f[5],
          ETag |-> f[6], Checksum |-> f[7], Version |-> f[8], State |-> f[9][1],
          CreatedAt |-> f[10], UpdatedAt |-> f[11], Metadata |-> rebuilt]
  BY Zenon DEF RecordOf, rebuilt, last, keyFields
<1>11. \A n \in 1..12 : n \in 1..Len(f)
  BY <1>2
<1>12. /\ f[1] \in Bytes /\ Len(f[1]) < 65536 /\ f[2] \in Bytes /\ Len(f[2]) < 65536
       /\ f[3] \in Bytes /\ Len(f[3]) < 4294967296 /\ f[4] \in Word
       /\ f[5] \in Bytes /\ Len(f[5]) < 65536 /\ f[6] \in Bytes /\ Len(f[6]) < 65536
       /\ f[7] \in Bytes /\ Len(f[7]) < 65536 /\ f[8] \in Word /\ f[9][1] \in Byte
       /\ f[10] \in Word /\ f[11] \in Word
  <2>1. \A n \in 1..12 : f[n] \in Bytes /\ FieldFits(Kind(n), f[n])
    BY <1>3, <1>11
  <2>2. /\ FieldFits("string16", f[1]) /\ FieldFits("string16", f[2]) /\ FieldFits("string32", f[3])
        /\ FieldFits("word", f[4]) /\ FieldFits("string16", f[5]) /\ FieldFits("string16", f[6])
        /\ FieldFits("string16", f[7]) /\ FieldFits("word", f[8]) /\ FieldFits("byte", f[9])
        /\ FieldFits("word", f[10]) /\ FieldFits("word", f[11])
    <3>1. /\ FieldFits(Kind(1), f[1]) /\ FieldFits(Kind(2), f[2]) /\ FieldFits(Kind(3), f[3])
          /\ FieldFits(Kind(4), f[4]) /\ FieldFits(Kind(5), f[5]) /\ FieldFits(Kind(6), f[6])
          /\ FieldFits(Kind(7), f[7]) /\ FieldFits(Kind(8), f[8]) /\ FieldFits(Kind(9), f[9])
          /\ FieldFits(Kind(10), f[10]) /\ FieldFits(Kind(11), f[11])
      BY <2>1
    <3> QED BY <3>1, HeaderKinds, Zenon
  <2>3. /\ f[1] \in Bytes /\ f[2] \in Bytes /\ f[3] \in Bytes /\ f[4] \in Bytes /\ f[5] \in Bytes
        /\ f[6] \in Bytes /\ f[7] \in Bytes /\ f[8] \in Bytes /\ f[9] \in Bytes /\ f[10] \in Bytes
        /\ f[11] \in Bytes
    BY <2>1
  <2>4. /\ Len(f[1]) < 65536 /\ Len(f[2]) < 65536 /\ Len(f[5]) < 65536
        /\ Len(f[6]) < 65536 /\ Len(f[7]) < 65536
    <3>1. Len(f[1]) < 65536
      BY <2>2, <2>3, FitKinds, SMT
    <3>2. Len(f[2]) < 65536
      BY <2>2, <2>3, FitKinds, SMT
    <3>3. Len(f[5]) < 65536
      BY <2>2, <2>3, FitKinds, SMT
    <3>4. Len(f[6]) < 65536
      BY <2>2, <2>3, FitKinds, SMT
    <3>5. Len(f[7]) < 65536
      BY <2>2, <2>3, FitKinds, SMT
    <3> QED BY <3>1, <3>2, <3>3, <3>4, <3>5
  <2>5. Len(f[3]) < 4294967296
    BY <2>2, <2>3, FitKinds, SMT
  <2>6. f[4] \in Word /\ f[8] \in Word /\ f[10] \in Word /\ f[11] \in Word
    <3>1. \A x \in Bytes : FieldFits("word", x) => x \in Word
      BY FitKinds, SMT
    <3> QED BY <2>2, <2>3, <3>1, SMT
  <2>7. f[9][1] \in Byte
    BY <2>2, <2>3, FitKinds, SMT
  <2> QED BY <2>3, <2>4, <2>5, <2>6, <2>7, SMT
<1>13. PICK r : r = RecordOf(f)
  OBVIOUS
<1>14. r \in Records
  <2>1. PICK M : M = UNION {[K -> Bytes] : K \in SUBSET Bytes}
    OBVIOUS
  <2>2. Records =
          [ID: Bytes, Bucket: Bytes, Key: Bytes, Size: Word, ContentType: Bytes, ETag: Bytes,
           Checksum: Bytes, Version: Word, State: Byte, CreatedAt: Word, UpdatedAt: Word,
           Metadata: M]
    BY <2>1, Zenon DEF Records
  <2>3. rebuilt \in M
    BY <1>9, <2>1
  <2> QED BY <1>10, <1>12, <1>13, <2>2, <2>3, SMT
<1>15. StringsFit(r)
  <2>1. /\ r.ID = f[1] /\ r.Bucket = f[2] /\ r.Key = f[3] /\ r.ContentType = f[5]
        /\ r.ETag = f[6] /\ r.Checksum = f[7] /\ r.Metadata = rebuilt
    BY <1>10, <1>13
  <2>2. \A k \in DOMAIN rebuilt : Len(k) < 65536 /\ Len(rebuilt[k]) < 4294967296
    BY <1>7, <1>8, FitKinds, SMT
  <2> QED BY <1>12, <2>1, <2>2, SMT DEF StringsFit
<1> QED BY <1>1, <1>2, <1>13, <1>14, <1>15

\* A record with a string that is too long for its length field, which
\* encodeMetadata truncates, is read back from no bytes at all.
THEOREM LongStringsAreLost ==
    ASSUME NEW m \in Records, ~StringsFit(m), NEW data \in Bytes
    PROVE  decodeMetadata(data) # [err |-> "none", record |-> m]
<1>1. SUFFICES ASSUME decodeMetadata(data) = [err |-> "none", record |-> m] PROVE FALSE
  OBVIOUS
<1>2. decodeMetadata(data).err = "none" /\ decodeMetadata(data).record = m
  BY <1>1
<1>3. StringsFit(decodeMetadata(data).record)
  BY <1>2, DecodedFits
<1> QED BY <1>2, <1>3
=============================================================================
