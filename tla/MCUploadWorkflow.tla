-------------------------- MODULE MCUploadWorkflow --------------------------
(* Instances of the workflow: runs are alike but for their order. *)
EXTENDS UploadWorkflow, TLC
RunSymmetry == Permutations(Ids)
=============================================================================
