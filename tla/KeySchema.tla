------------------------------ MODULE KeySchema ------------------------------
(***************************************************************************)
(* The keys of the secondary index, byte by byte, and the bounds of the    *)
(* scans over them (internal/metadata/pebble/keys.go and List).  Pebble    *)
(* orders keys as byte strings; what a scan finds is decided by where the  *)
(* length fields stand in a key.                                           *)
(***************************************************************************)
EXTENDS Naturals, Sequences

Byte == 0..255
Bytes == Seq(Byte)

-----------------------------------------------------------------------------
(* The order of keys. *)

\* a is before b: at the first position where they differ, a has the smaller
\* byte or has ended.
Before(a, b) ==
    \E n \in 1..Len(b) :
        /\ \A i \in 1..(n - 1) : i <= Len(a) /\ a[i] = b[i]
        /\ n <= Len(a) => a[n] < b[n]

StartsWith(s, p) == Len(p) <= Len(s) /\ \A i \in 1..Len(p) : s[i] = p[i]

\* Mutant: the last byte is incremented whatever it is, and wraps.
incrementBytesWrapping(b) == [b EXCEPT ![Len(b)] = (@ + 1) % 256]

\* The next byte string after every one that starts with b: the last byte
\* below 0xFF is incremented and what follows it is cut off.
incrementBytes(b) ==
    LET below == {i \in 1..Len(b) : b[i] < 255}
        last  == CHOOSE i \in below : \A j \in below : j <= i
    IN  IF below = {} THEN Append(b, 0)
        ELSE [i \in 1..last |-> IF i = last THEN b[i] + 1 ELSE b[i]]

-----------------------------------------------------------------------------
(* Fields of a key or a record. *)

\* Big-endian; a length that does not fit is truncated by the conversion.
appendUint16(n) == <<(n \div 256) % 256, n % 256>>
appendUint32(n) == <<(n \div 16777216) % 256, (n \div 65536) % 256,
                     (n \div 256) % 256, n % 256>>

Uint16(data, pos) == 256 * data[pos] + data[pos + 1]
Uint32(data, pos) == 16777216 * data[pos] + 65536 * data[pos + 1]
                     + 256 * data[pos + 2] + data[pos + 3]

appendString16(s) == appendUint16(Len(s)) \o s
appendString32(s) == appendUint32(Len(s)) \o s

-----------------------------------------------------------------------------
(* The secondary key of (bucket, key), and back. *)

keyPrefixSecondary == 2
keyPrefixMax == 255

encodeSecondaryKey(bucket, key) ==
    <<keyPrefixSecondary>> \o appendString16(bucket) \o appendString32(key)

BucketStart(bucket) == <<keyPrefixSecondary>> \o appendString16(bucket)

encodeBucketPrefix(bucket) == BucketStart(bucket) \o <<keyPrefixMax>>

encodeBucketKeyPrefix(bucket, prefix) ==
    <<keyPrefixSecondary>> \o appendString16(bucket) \o appendString32(prefix)

Malformed == [ok |-> FALSE, bucket |-> << >>, key |-> << >>]

\* The parts of a key by its length fields; a key that is too short for them
\* is malformed, bytes behind them are not looked at.
decodeSecondaryKey(data) ==
    LET bucketLen == Uint16(data, 2)
        keyPos    == 4 + bucketLen
        keyLen    == Uint32(data, keyPos)
    IN  IF \/ Len(data) < 3
           \/ data[1] # keyPrefixSecondary
           \/ Len(data) < keyPos + 3
           \/ Len(data) < keyPos + 3 + keyLen
        THEN Malformed
        ELSE [ok |-> TRUE, bucket |-> SubSeq(data, 4, keyPos - 1),
              key |-> SubSeq(data, keyPos + 4, keyPos + 3 + keyLen)]

-----------------------------------------------------------------------------
(* The scans of List: every key from lower on and before upper. *)

InScan(k, lower, upper) == ~Before(k, lower) /\ Before(k, upper)

LowerBound(bucket, prefix) ==
    CASE bucket = << >>                    -> <<keyPrefixSecondary>>
      [] bucket # << >> /\ prefix = << >>  -> BucketStart(bucket)
      [] OTHER                             -> encodeBucketKeyPrefix(bucket, prefix)

\* Mutant: the scan of a bucket runs on to the end of the index.
UpperBoundOfIndex(bucket, prefix) == <<keyPrefixSecondary + 1>>

UpperBound(bucket, prefix) ==
    CASE bucket = << >>                    -> <<keyPrefixSecondary + 1>>
      [] bucket # << >> /\ prefix = << >>  -> encodeBucketPrefix(bucket)
      [] OTHER                             -> incrementBytes(encodeBucketKeyPrefix(bucket, prefix))
=============================================================================
