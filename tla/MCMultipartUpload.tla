-------------------------- MODULE MCMultipartUpload --------------------------
(* Small instances of the multipart upload for TLC: parts of 7 to 9 bytes, *)
(* at most 7 of them, and integers up to 80.                                *)
EXTENDS MultipartUpload

MCConfig(p, c, m) == [partSize |-> p, concurrency |-> c, maxMemory |-> m]
MCDefault == MCConfig(7, 2, 14)

\* All defaults; three workers; and one beyond its budget, which Validate
\* refuses.
MCConfigs == {MCConfig(0, 0, 0), MCConfig(7, 3, 23), MCConfig(9, 3, 16)}

MCUpload(s, p, c, n) == [size |-> s, partSize |-> p, concurrency |-> c, length |-> n]

\* Streams of unknown and of known length, at the edges of one part and of
\* seven; longer and shorter than declared; sizes that need larger parts, more
\* than seven of the largest, and that overflow; three workers; an invalid one.
MCUploads ==
    {MCUpload(-1, 0, 0, n) : n \in {0, 7, 43, 50}}
    \cup {MCUpload(n, 0, 0, n) : n \in {13, 42, 50, 64}}
    \cup {MCUpload(-1, 9, 3, 24), MCUpload(12, 8, 3, 18), MCUpload(78, 0, 1, 9), MCUpload(0, 0, 0, 3),
          MCUpload(-2, 0, 0, 3)}
=============================================================================
