------------------------- MODULE MCStorageLifecycle -------------------------
(* Small instances of the storage lifecycle for TLC. *)
EXTENDS StorageLifecycle, TLC

\* Goroutines are interchangeable; used only where no liveness is checked.
Interchangeable == Permutations(Procs) \cup Permutations(Stoppers)
=============================================================================
