------------------------- MODULE MCPebbleRepository -------------------------
(* Small instances of the Pebble-backed repository for TLC. *)
EXTENDS PebbleImplements, TLC

\* Clients, IDs and locations are interchangeable: no definition tells one of
\* them from another.
Interchangeable == Permutations(Clients) \cup Permutations(Ids) \cup Permutations(Locs)
=============================================================================
