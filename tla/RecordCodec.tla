---------------------------- MODULE RecordCodec ----------------------------
(***************************************************************************)
(* The records of the Pebble-backed repository as byte strings (codec.go): *)
(* a version byte, and then fields one after another, whose places only    *)
(* the length fields before them tell.  encodeMetadata takes the custom    *)
(* metadata in the order in which the range over the map comes to them.    *)
(*                                                                         *)
(* Strings are byte strings.  Size, Version and the UnixNano of the two    *)
(* times are the eight bytes of their 64-bit words.                        *)
(***************************************************************************)
EXTENDS KeySchema

currentSchemaVersion == 1
minSupportedVersion  == 1
maxSupportedVersion  == 1
MaxMetadataEntries   == 256
MaxMetadataValueSize == 65536

Word == {b \in Bytes : Len(b) = 8}

\* ObjectMetadata.  Its custom metadata is a map of strings.
Records ==
    [ID: Bytes, Bucket: Bytes, Key: Bytes, Size: Word, ContentType: Bytes, ETag: Bytes,
     Checksum: Bytes, Version: Word, State: Byte, CreatedAt: Word, UpdatedAt: Word,
     Metadata: UNION {[K -> Bytes] : K \in SUBSET Bytes}]

\* keys is an order in which the custom metadata of m may be ranged over.
Ranged(m, keys) ==
    /\ keys \in Seq(DOMAIN m.Metadata)
    /\ \A k \in DOMAIN m.Metadata : \E i \in 1..Len(keys) : keys[i] = k
    /\ \A i, j \in 1..Len(keys) : keys[i] = keys[j] => i = j

-----------------------------------------------------------------------------
(* The layout. *)

HeaderFields == 12

Header == <<"string16", "string16", "string32", "word", "string16", "string16", "string16",
            "word", "byte", "word", "word", "count">>

\* The kind of the n-th field: behind the header keys and values take turns.
Kind(n) == IF n <= HeaderFields THEN Header[n]
           ELSE IF n % 2 = 1 THEN "string16" ELSE "string32"

\* The bytes of the length before a string, and of the fields without one.
LengthBytes(kind) == CASE kind = "string16" -> 2 [] kind = "string32" -> 4 [] OTHER -> 0
FixedBytes(kind)  == CASE kind = "word" -> 8 [] kind = "byte" -> 1 [] OTHER -> 2

-----------------------------------------------------------------------------
(* Encoding. *)

\* The fields of the record m, its metadata in the order keys.
HeaderOf(m, keys) ==
    <<m.ID, m.Bucket, m.Key, m.Size, m.ContentType, m.ETag, m.Checksum,
      m.Version, <<m.State>>, m.CreatedAt, m.UpdatedAt, appendUint16(Len(keys))>>

FieldsOf(m, keys) ==
    [n \in 1..(HeaderFields + 2 * Len(keys)) |->
        IF n <= HeaderFields THEN HeaderOf(m, keys)[n]
        ELSE LET k == keys[(n - HeaderFields + 1) \div 2]
             IN  IF n % 2 = 1 THEN k ELSE m.Metadata[k]]

appendField(kind, f) ==
    CASE kind = "string16" -> appendString16(f)
      [] kind = "string32" -> appendString32(f)
      [] OTHER             -> f

\* What the buffer holds after each field.
Written(fields) ==
    LET buf[n \in 0..Len(fields)] ==
            IF n = 0 THEN <<currentSchemaVersion>>
            ELSE buf[n - 1] \o appendField(Kind(n), fields[n])
    IN  buf

encodeMetadata(m, keys) ==
    IF \/ Len(keys) > MaxMetadataEntries
       \/ \E k \in DOMAIN m.Metadata : Len(m.Metadata[k]) > MaxMetadataValueSize
    THEN [err |-> "tooLarge", data |-> << >>]
    ELSE [err |-> "none",
          data |-> Written(FieldsOf(m, keys))[HeaderFields + 2 * Len(keys)]]

-----------------------------------------------------------------------------
(* Decoding. *)

\* The bytes of a field, with its length, that begins after the first pos bytes.
FieldSize(kind, data, pos) ==
    CASE kind = "string16" -> 2 + Uint16(data, pos + 1)
      [] kind = "string32" -> 4 + Uint32(data, pos + 1)
      [] OTHER             -> FixedBytes(kind)

\* The end of a field that begins after the first p bytes: behind the data if
\* its length or its bytes do not fit.
NextEnd(data, kind, p) ==
    IF p + LengthBytes(kind) > Len(data) THEN Len(data) + 1
    ELSE p + FieldSize(kind, data, p)

\* Where each field ends.
Ends(data) ==
    LET pos[n \in Nat] == IF n = 0 THEN 1 ELSE NextEnd(data, Kind(n), pos[n - 1])
    IN  pos

\* The n-th field without its length.
FieldAt(data, n) ==
    SubSeq(data, Ends(data)[n - 1] + LengthBytes(Kind(n)) + 1, Ends(data)[n])

\* The record of the fields f; of two equal keys the later one counts.
RecordOf(f) ==
    LET keyFields == {n \in (HeaderFields + 1)..Len(f) : n % 2 = 1}
        last(k)   == CHOOSE n \in keyFields : /\ f[n] = k
                                              /\ \A j \in keyFields : f[j] = k => j <= n
    IN  [ID |-> f[1], Bucket |-> f[2], Key |-> f[3], Size |-> f[4], ContentType |-> f[5],
         ETag |-> f[6], Checksum |-> f[7], Version |-> f[8], State |-> f[9][1],
         CreatedAt |-> f[10], UpdatedAt |-> f[11],
         Metadata |-> [k \in {f[n] : n \in keyFields} |-> f[last(k) + 1]]]

Failure(err) == [err |-> err, record |-> << >>]

\* Bytes behind the last field are not looked at.
decodeMetadata(data) ==
    LET metaCount == Uint16(data, Ends(data)[HeaderFields - 1] + 1)
        fields    == HeaderFields + 2 * metaCount
    IN  CASE data = << >> -> Failure("corrupted")
          [] data # << >> /\ data[1] \notin minSupportedVersion..maxSupportedVersion ->
                Failure("unsupported")
          [] OTHER ->
                IF Ends(data)[HeaderFields] <= Len(data) /\ Ends(data)[fields] <= Len(data)
                THEN [err |-> "none",
                      record |-> RecordOf([n \in 1..fields |-> FieldAt(data, n)])]
                ELSE Failure("corrupted")
=============================================================================
