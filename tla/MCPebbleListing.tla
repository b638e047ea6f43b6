--------------------------- MODULE MCPebbleListing ---------------------------
(* Small instances of the listing: two buckets, and two keys of which one    *)
(* begins with the other.  And a few records, on which TLC evaluates what    *)
(* RecordRoundTrip and TruncationIsSeen say of all.                          *)
EXTENDS PebbleListing, RecordCodec

\* "a" and "b"
MCBuckets == {<<97>>, <<98>>}

\* Keys of bytes that an increment has to carry over.
MCKeys == {<<255>>, <<255, 97>>}
MCPrefixes == {<< >>, <<255>>}

\* "a" and "ab", and the prefix "a"
PlainKeys == {<<97>>, <<97, 98>>}
PlainPrefixes == {<< >>, <<97>>}

-----------------------------------------------------------------------------
\* Records with each number of entries up to three, in an order of their keys.
SampleWord == <<0, 0, 0, 0, 0, 0, 1, 255>>
SampleKeys == {<< >>, << <<1>> >>, << <<0, 0>>, <<1>> >>, << <<2, 2>>, << >>, <<1>> >>}
SampleRecord(id, keys) ==
    [ID |-> id, Bucket |-> <<97, 98>>, Key |-> <<255>>, Size |-> SampleWord,
     ContentType |-> << >>, ETag |-> <<2, 0>>, Checksum |-> <<0>>, Version |-> SampleWord,
     State |-> 3, CreatedAt |-> SampleWord, UpdatedAt |-> SampleWord,
     Metadata |-> [k \in {keys[i] : i \in 1..Len(keys)} |-> k \o <<9>>]]

ASSUME SamplesReadBack ==
    \A id \in {<<1>>, <<0, 2, 1>>}, keys \in SampleKeys, rest \in {<< >>, <<1, 2>>} :
        LET m == SampleRecord(id, keys)
            e == encodeMetadata(m, keys)
        IN  /\ e.err = "none"
            /\ decodeMetadata(e.data \o rest) = [err |-> "none", record |-> m]

ASSUME SampleCutsAreSeen ==
    \A id \in {<<1>>, <<0, 2, 1>>}, keys \in SampleKeys :
        LET data == encodeMetadata(SampleRecord(id, keys), keys).data
        IN  \A n \in 0..(Len(data) - 1) :
                decodeMetadata(SubSeq(data, 1, n)) = Failure("corrupted")
=============================================================================
