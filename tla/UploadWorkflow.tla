--------------------------- MODULE UploadWorkflow ---------------------------
(***************************************************************************)
(* The program cmd/cache: it uploads an object, records its metadata,      *)
(* reads both back, and deletes both, always under the same bucket and     *)
(* key.  The program is run again and again; a run may fail or be killed   *)
(* between any two steps, and the next one meets what it left.  Pebble     *)
(* locks its directory, so runs do not overlap, but a request to the       *)
(* object store may outlive the run that made it.                          *)
(*                                                                         *)
(* A step is one call of the store or the repository, with what their own  *)
(* models show of it: it takes effect at once or not at all; a call that   *)
(* fails may have taken effect (RetriedOperations), and an unacknowledged  *)
(* write to the repository may not survive (PebbleRepository).  One caller *)
(* reads what it wrote through the cache (CachedRepository).               *)
(***************************************************************************)
EXTENDS Naturals, Sequences, FiniteSets

CONSTANTS
    Ids,      \* object IDs, one for each run: uuid.New()
    None,     \* no ID
    MaxLate   \* bound on the requests that outlive their runs

ASSUME WorkflowAssumption == None \notin Ids /\ MaxLate \in Nat

VARIABLES
    bucket,   \* does the bucket exist
    object,   \* the run that stored the object under the key, or None
    record,   \* the IDs with a metadata record
    index,    \* the ID that the index has for the bucket and key, or None
    late,     \* requests on their way to the store after their calls returned
    run,      \* the run in progress
    past      \* history: what happened to each run's object and record

vars == <<bucket, object, record, index, late, run, past>>

-----------------------------------------------------------------------------
(* The steps of a run. *)

Steps == <<"createBucket", "upload", "persist", "get", "getAgain", "getByKey", "download",
           "update", "getUpdated", "exists", "getUnknown", "deleteObject", "deleteRecord",
           "existsAfter", "health", "deleteBucket", "done">>

Follower(step) == Steps[1 + CHOOSE n \in DOMAIN Steps : Steps[n] = step]

\* Mutant: the record is written before the object.
NextStepRecordFirst(step) ==
    CASE step = "createBucket" -> "persist"
      [] step = "persist"      -> "upload"
      [] step = "upload"       -> "get"
      [] OTHER                 -> Follower(step)

\* Mutant: the record is deleted before the object.
NextStepDeleteRecordFirst(step) ==
    CASE step = "getUnknown"   -> "deleteRecord"
      [] step = "deleteRecord" -> "deleteObject"
      [] step = "deleteObject" -> "existsAfter"
      [] OTHER                 -> Follower(step)

NextStep(step) == Follower(step)

\* A run ends at its first error, unless it ignores the errors of the step.
\* That of Create is answered with the deletion of the object.
AfterFailure(step, ignored) ==
    CASE step = "persist"   -> "compensate"
      [] step \in ignored   -> NextStep(step)
      [] OTHER              -> "failed"

\* Mutants: the error of the upload, of the deletion is logged and ignored.
OnFailureOfUploadIgnored(step) == AfterFailure(step, {"upload", "deleteBucket"})
OnFailureOfDeletionIgnored(step) == AfterFailure(step, {"deleteObject", "deleteBucket"})

\* The error of DeleteBucket is only logged.
OnFailure(step) == AfterFailure(step, {"deleteBucket"})

StoreWrites == {"createBucket", "upload", "compensate", "deleteObject", "deleteBucket"}
RepositoryWrites == {"persist", "update", "deleteRecord"}

NotRunning == [pc |-> "idle", id |-> None, err |-> "none", disturbed |-> FALSE,
               undo |-> [record |-> {}, index |-> None], undoable |-> FALSE]

\* What a step of run i finds wrong, in the answers it gets.
Verdict(step, i) ==
    CASE step = "upload"      -> IF bucket THEN "ok" ELSE "notFound"
      [] step = "persist"     -> IF i \in record THEN "exists" ELSE "ok"
      [] step \in {"get", "getAgain", "update", "getUpdated"} -> IF i \in record THEN "ok" ELSE "notFound"
      [] step = "getByKey"    -> IF index # None THEN "ok" ELSE "notFound"
      [] step = "download"    -> IF object = i THEN "ok"
                                 ELSE IF object = None THEN "notFound" ELSE "mismatch"
      [] step = "existsAfter" -> IF i \in record THEN "exists" ELSE "ok"
      [] step = "deleteBucket" -> IF object # None THEN "refused" ELSE "ok"
      [] OTHER                -> "ok"

\* What becomes of the run whose object a request replaces or deletes.
Fate(step) ==
    CASE step = "upload" -> "replaced" [] step = "compensate" -> "compensated" [] OTHER -> "deleted"

\* A request of run i has its effect on the object store.
StoreEffect(step, i) ==
    /\ bucket' = CASE step = "createBucket" -> TRUE
                   [] step = "deleteBucket" -> FALSE
                   [] OTHER -> bucket
    /\ object' = CASE step = "upload" -> i
                   [] step \in {"compensate", "deleteObject"} -> None
                   [] OTHER -> object
    /\ UNCHANGED <<record, index>>

\* Mutant: Delete removes the record and leaves the index entry.
RepositoryEffectNoIndex(step, i) ==
    /\ record' = IF step = "persist" THEN record \cup {i}
                 ELSE IF step = "deleteRecord" THEN record \ {i} ELSE record
    /\ index' = IF step = "persist" THEN i ELSE index
    /\ UNCHANGED <<bucket, object>>

\* Create sets the index entry of the location, whoever had it; Delete removes
\* it; an Update at the same place leaves it.
RepositoryEffect(step, i) ==
    /\ record' = IF step = "persist" THEN record \cup {i}
                 ELSE IF step = "deleteRecord" THEN record \ {i} ELSE record
    /\ index' = IF step = "persist" THEN i
                ELSE IF step = "deleteRecord" /\ i \in record THEN None ELSE index
    /\ UNCHANGED <<bucket, object>>

Effect(step, i) ==
    IF step \in StoreWrites THEN StoreEffect(step, i) ELSE RepositoryEffect(step, i)

\* History: something happens to run i, and to the run whose object is gone.
Remember(i, what, fate) ==
    past' = [j \in Ids |-> past[j] \cup (IF j = i THEN what ELSE {})
                                   \cup (IF j = object /\ object' # j THEN {fate} ELSE {})]

-----------------------------------------------------------------------------

\* The steps between which the object has no record yet.
Unrecorded == {"persist", "compensate"}

Running == run.pc \notin {"idle", "failed", "done"}

Start(i) ==
    /\ run.pc = "idle"
    /\ past[i] = {}
    /\ run' = [NotRunning EXCEPT !.pc = Steps[1], !.id = i]
    /\ past' = [past EXCEPT ![i] = {"started"}]
    /\ UNCHANGED <<bucket, object, record, index, late>>

\* The call of the step takes effect, and its answer is what the step expects.
StepDone ==
    /\ Running
    /\ Verdict(run.pc, run.id) = "ok"
    /\ Effect(run.pc, run.id)
    /\ run' = [run EXCEPT !.pc = IF @ = "compensate" THEN "failed" ELSE NextStep(@),
                          !.undoable = @ /\ run.pc \notin RepositoryWrites]
    /\ Remember(run.id, {}, Fate(run.pc))
    /\ UNCHANGED late

\* The answer is another one.
StepRefused ==
    /\ Running
    /\ Verdict(run.pc, run.id) # "ok"
    /\ run' = [run EXCEPT !.pc = OnFailure(@), !.err = Verdict(run.pc, run.id)]
    /\ UNCHANGED <<bucket, object, record, index, late, past>>

\* The call returns an error and has had no effect: the signal handler ended
\* the context, or the store or the disk failed.
StepFails ==
    /\ Running
    /\ run' = [run EXCEPT !.pc = OnFailure(@), !.err = "error"]
    /\ past' = [past EXCEPT ![run.id] = @ \cup {run.pc}]
    /\ UNCHANGED <<bucket, object, record, index, late>>

\* The call returns an error and has taken effect: the answer of the store was
\* lost, or the batch is visible and its fsync failed.
StepUnanswered ==
    /\ Running /\ run.pc \in StoreWrites \cup RepositoryWrites
    /\ Verdict(run.pc, run.id) = "ok"
    /\ Effect(run.pc, run.id)
    /\ run' = [run EXCEPT !.pc = OnFailure(@), !.err = "error",
                          !.undo = [record |-> record, index |-> index],
                          !.undoable = run.pc \in RepositoryWrites]
    /\ Remember(run.id, {run.pc}, Fate(run.pc))
    /\ UNCHANGED late

\* The call returns an error, and its request is still on the way.
StepDelayed ==
    /\ Running /\ run.pc \in StoreWrites
    /\ Cardinality(late) < MaxLate
    /\ late' = late \cup {[step |-> run.pc, id |-> run.id]}
    /\ run' = [run EXCEPT !.pc = OnFailure(@), !.err = "error"]
    /\ past' = [past EXCEPT ![run.id] = @ \cup {run.pc}]
    /\ UNCHANGED <<bucket, object, record, index>>

\* A late request reaches the store, and is served if it can be.
Arrive(r) ==
    /\ r \in late
    /\ late' = late \ {r}
    /\ IF Verdict(r.step, r.id) = "ok" THEN StoreEffect(r.step, r.id)
                                       ELSE UNCHANGED <<bucket, object, record, index>>
    /\ Remember(r.id, {}, "late")
    /\ run' = [run EXCEPT !.disturbed = run.pc # "idle"]

\* The process ends: it returned, or it was killed at any point.  A write to
\* the repository that was not acknowledged may be lost with it.
Stop ==
    /\ run.pc # "idle"
    /\ run' = NotRunning
    /\ \/ UNCHANGED <<record, index>>
       \/ /\ run.undoable
          /\ record' = run.undo.record /\ index' = run.undo.index
    /\ past' = [past EXCEPT ![run.id] = @ \cup IF run.pc \in Unrecorded THEN {"killed"} ELSE {}]
    /\ UNCHANGED <<bucket, object, late>>

-----------------------------------------------------------------------------

Init ==
    /\ bucket = FALSE
    /\ object = None
    /\ record = {}
    /\ index = None
    /\ late = {}
    /\ run = NotRunning
    /\ past = [i \in Ids |-> {}]

Next ==
    \/ \E i \in Ids : Start(i)
    \/ StepDone \/ StepRefused \/ StepFails \/ StepUnanswered \/ StepDelayed
    \/ \E r \in late : Arrive(r)
    \/ Stop

Spec == Init /\ [][Next]_vars

-----------------------------------------------------------------------------
(* Properties. *)

\* Type correctness; the index names a record that is there.
TypeOK ==
    /\ bucket \in BOOLEAN
    /\ object \in Ids \cup {None}
    /\ record \subseteq Ids
    /\ index \in record \cup {None}
    /\ late \subseteq [step: StoreWrites, id: Ids]
    /\ run.pc \in {Steps[n] : n \in DOMAIN Steps} \cup {"idle", "compensate", "failed"}
    /\ run.id \in Ids \cup {None} /\ (run.id = None <=> run.pc = "idle")

\* A record without its object (the error a reader cannot recover from) has
\* one of four causes: its run was deleting both; a later run stored its object
\* under the same key; a request that outlived its run deleted it; or Create
\* reported an error for a record that it had stored, and the compensation
\* deleted the object.  Creating a record never makes one, nor does a crash.
RecordsBacked ==
    \A i \in record :
        \/ object = i
        \/ "replaced" \in past[i]
        \/ "deleted" \in past[i]
        \/ "late" \in past[i]
        \/ "compensated" \in past[i] /\ "persist" \in past[i]

\* An object without its record is either the one a run is about to record or
\* to take back, or was left by an upload that was reported as failed, by a
\* compensation that failed, or by a run that was killed before its record was
\* stored.  Deleting both never leaves one, wherever it stops.
OrphansExplained ==
    object # None /\ object \notin record =>
        \/ run.id = object /\ run.pc \in Unrecorded
        \/ past[object] \cap {"upload", "compensate", "killed"} # {}

\* A run that comes to its end has left neither object nor record nor index
\* entry, also when earlier runs had left some: only a request that an earlier
\* run gave up can have brought an object back.
DoneIsClean ==
    run.pc = "done" =>
        /\ run.id \notin record /\ index = None
        /\ object # None => run.disturbed /\ "upload" \in past[object]

\* A run that was not disturbed by a late request never reads another object
\* than it stored, nor misses its object or its record, whatever the runs
\* before it left.
ReadsOwnObject ==
    run.err \in {"mismatch", "notFound", "exists"} => run.disturbed
=============================================================================
