------------------------ MODULE MCRetriedOperations ------------------------
(* Small instances of the retried operations for TLC. *)
EXTENDS RetriedOperations
=============================================================================
