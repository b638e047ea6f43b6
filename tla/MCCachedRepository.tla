------------------------- MODULE MCCachedRepository -------------------------
(* Small instances of the cached repository for TLC. *)
EXTENDS CachedRepository, TLC

\* Clients, IDs and locations are interchangeable.
Interchangeable == Permutations(Clients) \cup Permutations(Ids) \cup Permutations(Locs)
=============================================================================
