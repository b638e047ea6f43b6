--------------------------- MODULE WorkflowProofs ---------------------------
(***************************************************************************)
(* What runs of cmd/cache leave behind, for any number of runs, one after  *)
(* the other, and of requests that outlive them.                           *)
(***************************************************************************)
EXTENDS UploadWorkflow, TLAPS

\* Where a run is: before its record is created; while its object should be
\* there; while its record should be; after it deleted the object; after it
\* deleted the record.
Before == {"createBucket", "upload", "persist"}
Stored == {"persist", "get", "getAgain", "getByKey", "download", "update", "getUpdated",
           "exists", "getUnknown", "deleteObject"}
Recorded == (Stored \ {"persist"}) \cup {"deleteRecord"}
Cleared == {"existsAfter", "health", "deleteBucket", "done"}
Deleted == {"deleteRecord"} \cup Cleared

PCs == {"idle", "compensate", "failed", "createBucket", "upload"} \cup Stored \cup Deleted

Fates == {"replaced", "compensated", "deleted", "late"}
Marks == Fates \cup PCs \cup {"started", "killed"}
LeavesObject == {"upload", "compensate", "killed"}
LosesObject == {"deleted", "late"}

Types ==
    /\ bucket \in BOOLEAN /\ object \in Ids \cup {None}
    /\ record \subseteq Ids /\ index \in record \cup {None}
    /\ late \subseteq [step: StoreWrites, id: Ids]
    /\ run \in [pc: PCs, id: Ids \cup {None}, disturbed: BOOLEAN, undoable: BOOLEAN,
                err: {"none", "error", "notFound", "exists", "mismatch", "refused"},
                undo: [record: SUBSET Ids, index: Ids \cup {None}]]
    /\ run.id = None <=> run.pc = "idle"
    /\ past \in [Ids -> SUBSET Marks]

\* A run that has not started has left nothing.
Fresh ==
    /\ run.id # None => past[run.id] # {}
    /\ \A j \in Ids : past[j] = {} =>
         j \notin record /\ object # j /\ (\A r \in late : r.id # j)

\* An upload that is late is that of a run that failed and has no record.
LateUploads ==
    \A r \in late : r.step = "upload" =>
        /\ "upload" \in past[r.id] /\ r.id \notin record
        /\ r.id = run.id => run.pc = "failed"
        /\ run.undoable => r.id \notin run.undo.record

\* What the end of the process may undo.
Undoable ==
    run.undoable =>
        /\ run.pc \in {"compensate", "failed"}
        /\ run.undo.index \in run.undo.record \cup {None}
        /\ record \ run.undo.record \subseteq {run.id}
        /\ \A j \in run.undo.record : j \in record \/ past[j] \cap LosesObject # {}
        /\ \A j \in run.undo.record : past[j] # {}
        /\ run.pc = "failed" /\ object \in record \ run.undo.record =>
             past[object] \cap LeavesObject # {}

\* What a run may rely on, by its place.
Place ==
    /\ run.pc = "idle" => run.err = "none"
    /\ run.pc = "upload" => bucket \/ run.disturbed
    /\ run.pc \in Before => run.id \notin record
    /\ run.pc \in Stored => object = run.id \/ (run.disturbed /\ "late" \in past[run.id])
    /\ run.pc \in Unrecorded /\ object \notin {None, run.id} => object \notin record
    /\ run.pc = "compensate" /\ run.id \in record => "persist" \in past[run.id]
    /\ run.pc \in Recorded => run.id \in record /\ index = run.id
    /\ run.pc \in Deleted =>
         /\ past[run.id] \cap LosesObject # {}
         /\ object # run.id
         /\ object # None => run.disturbed /\ "upload" \in past[object]
    /\ run.pc \in Cleared => run.id \notin record /\ index = None

IInv ==
    /\ Types /\ Fresh /\ LateUploads /\ Undoable /\ Place
    /\ RecordsBacked /\ OrphansExplained /\ ReadsOwnObject

-----------------------------------------------------------------------------
(* The steps of a run, in order. *)

LEMMA StepsAre ==
  ASSUME NEW n \in 1..16
  PROVE  Follower(Steps[n]) = Steps[n + 1]
  <1>1. DOMAIN Steps = 1..17
    BY DEF Steps
  <1>2. \A m \in DOMAIN Steps : Steps[m] = Steps[n] => m = n
    BY <1>1 DEF Steps
  <1>3. (CHOOSE m \in DOMAIN Steps : Steps[m] = Steps[n]) = n
    BY <1>1, <1>2
  <1>4. 1 + n = n + 1
    OBVIOUS
  <1> QED BY <1>3, <1>4 DEF Follower

LEMMA FollowersAre ==
    /\ NextStep("createBucket") = "upload"
    /\ NextStep("upload") = "persist"
    /\ NextStep("persist") = "get"
    /\ \A p \in Stored \ {"deleteObject"} : NextStep(p) \in Stored
    /\ \A p \in Stored \ {"persist", "deleteObject"} : NextStep(p) \in Stored \ {"persist"}
    /\ NextStep("deleteObject") = "deleteRecord"
    /\ NextStep("deleteRecord") = "existsAfter"
    /\ NextStep("existsAfter") = "health"
    /\ NextStep("health") = "deleteBucket"
    /\ NextStep("deleteBucket") = "done"
  <1>1. /\ Steps[1] = "createBucket" /\ Steps[2] = "upload" /\ Steps[3] = "persist"
        /\ Steps[4] = "get" /\ Steps[5] = "getAgain" /\ Steps[6] = "getByKey"
        /\ Steps[7] = "download" /\ Steps[8] = "update" /\ Steps[9] = "getUpdated"
        /\ Steps[10] = "exists" /\ Steps[11] = "getUnknown" /\ Steps[12] = "deleteObject"
        /\ Steps[13] = "deleteRecord" /\ Steps[14] = "existsAfter" /\ Steps[15] = "health"
        /\ Steps[16] = "deleteBucket" /\ Steps[17] = "done"
    BY DEF Steps
  <1>2. /\ Follower(Steps[1]) = Steps[2] /\ Follower(Steps[2]) = Steps[3]
        /\ Follower(Steps[3]) = Steps[4] /\ Follower(Steps[4]) = Steps[5]
        /\ Follower(Steps[5]) = Steps[6] /\ Follower(Steps[6]) = Steps[7]
        /\ Follower(Steps[7]) = Steps[8] /\ Follower(Steps[8]) = Steps[9]
        /\ Follower(Steps[9]) = Steps[10] /\ Follower(Steps[10]) = Steps[11]
        /\ Follower(Steps[11]) = Steps[12] /\ Follower(Steps[12]) = Steps[13]
        /\ Follower(Steps[13]) = Steps[14] /\ Follower(Steps[14]) = Steps[15]
        /\ Follower(Steps[15]) = Steps[16] /\ Follower(Steps[16]) = Steps[17]
    BY StepsAre
  <1> QED BY <1>1, <1>2 DEF NextStep, Stored

LEMMA FailuresAre ==
    /\ OnFailure("persist") = "compensate"
    /\ OnFailure("deleteBucket") = "done"
    /\ \A p \in PCs \ {"persist", "deleteBucket"} : OnFailure(p) = "failed"
  BY FollowersAre DEF OnFailure, AfterFailure

\* What a step changes in the store and in the repository.
LEMMA EffectIs ==
  ASSUME NEW p \in PCs, NEW i, Effect(p, i)
  PROVE  /\ bucket' = IF p = "createBucket" THEN TRUE
                       ELSE IF p = "deleteBucket" THEN FALSE ELSE bucket
         /\ object' = IF p = "upload" THEN i
                       ELSE IF p \in {"compensate", "deleteObject"} THEN None ELSE object
         /\ record' = IF p = "persist" THEN record \cup {i}
                       ELSE IF p = "deleteRecord" THEN record \ {i} ELSE record
         /\ index' = IF p = "persist" THEN i
                      ELSE IF p = "deleteRecord" /\ i \in record THEN None ELSE index
  <1>1. CASE p \in StoreWrites
    <2>1. StoreEffect(p, i) /\ p \notin {"persist", "deleteRecord"}
      BY <1>1 DEF Effect, StoreWrites
    <2>2. UNCHANGED <<record, index>>
      BY <2>1 DEF StoreEffect
    <2>3. bucket' = CASE p = "createBucket" -> TRUE [] p = "deleteBucket" -> FALSE [] OTHER -> bucket
      BY <2>1 DEF StoreEffect
    <2>4. object' = CASE p = "upload" -> i [] p \in {"compensate", "deleteObject"} -> None
                      [] OTHER -> object
      BY <2>1 DEF StoreEffect
    <2> QED BY <2>1, <2>2, <2>3, <2>4
  <1>2. CASE p \notin StoreWrites
    BY <1>2 DEF Effect, StoreWrites, RepositoryEffect
  <1> QED BY <1>1, <1>2

\* What a step adds to the history: something of its own run, and the fate of
\* the run whose object is gone.
LEMMA PastIs ==
  ASSUME Types, NEW i, NEW what \in SUBSET Marks, NEW fate \in Fates, Remember(i, what, fate)
  PROVE  /\ past' \in [Ids -> SUBSET Marks]
         /\ \A j \in Ids : past[j] \subseteq past'[j]
         /\ i \in Ids => what \subseteq past'[i]
         /\ object # None /\ object' # object => fate \in past'[object]
  <1>1. past' = [j \in Ids |-> past[j] \cup (IF j = i THEN what ELSE {})
                                 \cup (IF j = object /\ object' # j THEN {fate} ELSE {})]
    BY DEF Remember
  <1>2. fate \in Marks /\ (object = None \/ object \in Ids)
    BY DEF Marks, Types
  <1>3. \A j \in Ids : past[j] \subseteq Marks
    BY DEF Types
  <1> HIDE DEF Remember, Marks, Fates
  <1>4. past' \in [Ids -> SUBSET Marks]
    BY <1>1, <1>2, <1>3
  <1>5. \A j \in Ids : past'[j] = past[j] \cup (IF j = i THEN what ELSE {})
                                 \cup (IF j = object /\ object' # j THEN {fate} ELSE {})
    BY <1>1
  <1> QED BY <1>2, <1>4, <1>5

LEMMA FateIs == \A p \in PCs : Fate(p) \in Fates
    /\ (p = "upload" => Fate(p) = "replaced") /\ (p = "compensate" => Fate(p) = "compensated")
    /\ (p = "deleteObject" => Fate(p) = "deleted")
  BY DEF Fate, Fates

-----------------------------------------------------------------------------
(* The steps of a run keep the invariant. *)

\* Where a running run goes.
LEMMA NextIs ==
  ASSUME NEW p \in PCs \ {"idle", "failed", "done", "compensate"}
  PROVE  NextStep(p) \in PCs \ {"idle", "failed", "compensate", "createBucket"}
  BY FollowersAre DEF PCs, Stored, Deleted, Cleared

LEMMA RunIs ==
  ASSUME Types, Fresh, Running
  PROVE  /\ run.id \in Ids /\ run.id # None /\ past[run.id] # {}
         /\ run.pc \in PCs \ {"idle", "failed", "done"}
  BY WorkflowAssumption DEF Types, Fresh, Running

\* What every step that takes effect does: a record loses its object only to a
\* step that says so, and a run to its own compensation only after its Create.
LEMMA EffectSound ==
  ASSUME IInv, Running, Effect(run.pc, run.id), NEW what \in SUBSET Marks,
         Remember(run.id, what, Fate(run.pc))
  PROVE  /\ bucket' \in BOOLEAN /\ object' \in Ids \cup {None} /\ record' \subseteq Ids
         /\ index' \in record' \cup {None}
         /\ past' \in [Ids -> SUBSET Marks]
         /\ \A j \in Ids : past[j] \subseteq past'[j]
         /\ what \subseteq past'[run.id]
         /\ object # None /\ object' # object => Fate(run.pc) \in past'[object]
         /\ RecordsBacked'
  <1> DEFINE p == run.pc
             i == run.id
  <1>1. Types /\ Fresh /\ Place /\ RecordsBacked
    BY DEF IInv
  <1>2. i \in Ids /\ p \in PCs \ {"idle", "failed", "done"}
    BY <1>1, RunIs
  <1>5. /\ bucket' = IF p = "createBucket" THEN TRUE
                      ELSE IF p = "deleteBucket" THEN FALSE ELSE bucket
        /\ object' = IF p = "upload" THEN i
                      ELSE IF p \in {"compensate", "deleteObject"} THEN None ELSE object
        /\ record' = IF p = "persist" THEN record \cup {i}
                      ELSE IF p = "deleteRecord" THEN record \ {i} ELSE record
        /\ index' = IF p = "persist" THEN i
                     ELSE IF p = "deleteRecord" /\ i \in record THEN None ELSE index
    BY <1>2, EffectIs
  <1>6. /\ past' \in [Ids -> SUBSET Marks]
        /\ \A j \in Ids : past[j] \subseteq past'[j]
        /\ what \subseteq past'[i]
        /\ object # None /\ object' # object => Fate(p) \in past'[object]
    <2>1. Fate(p) \in Fates
      BY <1>2, FateIs
    <2> QED BY <1>1, <1>2, <2>1, PastIs
  <1>8. object \in Ids \cup {None} /\ record \subseteq Ids /\ None \notin Ids
    BY <1>1, WorkflowAssumption DEF Types
  <1> HIDE DEF p, i
  <1>9. bucket' \in BOOLEAN /\ object' \in Ids \cup {None} /\ record' \subseteq Ids
    BY <1>1, <1>2, <1>5, <1>8 DEF Types
  <1>10. index' \in record' \cup {None}
    BY <1>1, <1>5 DEF Types
  <1>16. RecordsBacked'
    <2> SUFFICES ASSUME NEW j \in record'
                 PROVE  \/ object' = j \/ "replaced" \in past'[j] \/ "deleted" \in past'[j]
                        \/ "late" \in past'[j]
                        \/ "compensated" \in past'[j] /\ "persist" \in past'[j]
      BY DEF RecordsBacked
    <2>1. CASE j \notin record
      <3>1. p = "persist" /\ j = i
        BY <1>5, <2>1
      <3>2. object = i \/ "late" \in past[i]
        BY <1>1, <3>1 DEF Place, Stored, p, i
      <3> QED BY <1>2, <1>5, <1>6, <3>1, <3>2
    <2>2. CASE j \in record /\ (object # j \/ object' = object)
      BY <1>1, <1>6, <1>8, <2>2 DEF RecordsBacked
    <2>3. CASE j \in record /\ object = j /\ object' # object
      <3>1. Fate(p) \in past'[j] /\ p \in {"upload", "compensate", "deleteObject"}
        BY <1>5, <1>6, <1>8, <2>3
      <3>2. CASE p = "compensate"
        <4>1. j = i /\ "persist" \in past[i]
          BY <1>1, <1>8, <2>3, <3>2 DEF Place, Unrecorded, p, i
        <4> QED BY <1>2, <1>6, <3>1, <3>2, <4>1, FateIs
      <3> QED BY <1>2, <3>1, <3>2, FateIs
    <2> QED BY <2>1, <2>2, <2>3
  <1> QED BY <1>6, <1>9, <1>10, <1>16 DEF p, i

LEMMA StepDoneKeeps ==
  ASSUME IInv, StepDone
  PROVE  IInv'
  <1> DEFINE p == run.pc
             i == run.id
             q == IF p = "compensate" THEN "failed" ELSE NextStep(p)
  <1>1. /\ Types /\ Fresh /\ LateUploads /\ Undoable /\ Place
        /\ RecordsBacked /\ OrphansExplained /\ ReadsOwnObject
    BY DEF IInv
  <1>2. /\ i \in Ids /\ i # None /\ past[i] # {}
        /\ p \in PCs \ {"idle", "failed", "done"}
    BY <1>1, RunIs DEF StepDone
  <1>3. /\ run'.pc = q /\ run'.id = i /\ run'.disturbed = run.disturbed
        /\ run'.err = run.err /\ run'.undo = run.undo
        /\ run'.undoable = (run.undoable /\ p \notin RepositoryWrites)
        /\ late' = late
    BY <1>1 DEF StepDone, Types
  <1>4. /\ Effect(p, i) /\ Remember(i, {}, Fate(p)) /\ Verdict(p, i) = "ok"
    BY DEF StepDone
  <1>5. /\ bucket' = IF p = "createBucket" THEN TRUE
                      ELSE IF p = "deleteBucket" THEN FALSE ELSE bucket
        /\ object' = IF p = "upload" THEN i
                      ELSE IF p \in {"compensate", "deleteObject"} THEN None ELSE object
        /\ record' = IF p = "persist" THEN record \cup {i}
                      ELSE IF p = "deleteRecord" THEN record \ {i} ELSE record
        /\ index' = IF p = "persist" THEN i
                     ELSE IF p = "deleteRecord" /\ i \in record THEN None ELSE index
    BY <1>2, <1>4, EffectIs
  <1>6. /\ past' \in [Ids -> SUBSET Marks]
        /\ \A j \in Ids : past[j] \subseteq past'[j]
        /\ object # None /\ object' # object => Fate(p) \in past'[object]
        /\ bucket' \in BOOLEAN /\ object' \in Ids \cup {None} /\ record' \subseteq Ids
        /\ index' \in record' \cup {None} /\ RecordsBacked'
    <2>1. {} \in SUBSET Marks
      OBVIOUS
    <2> QED BY <1>4, <2>1, EffectSound DEF StepDone
  <1>7. q \in PCs \ {"idle", "compensate", "createBucket"}
    BY <1>2, NextIs DEF PCs
  <1>8. object \in Ids \cup {None} /\ record \subseteq Ids /\ None \notin Ids
    BY <1>1, WorkflowAssumption DEF Types
  <1> HIDE DEF p, i, q
  <1>10. Types'
    <2>1. run' \in [pc: PCs, id: Ids \cup {None}, disturbed: BOOLEAN, undoable: BOOLEAN,
                err: {"none", "error", "notFound", "exists", "mismatch", "refused"},
                undo: [record: SUBSET Ids, index: Ids \cup {None}]]
      <3>1. run' = [run EXCEPT !.pc = q, !.undoable = (run.undoable /\ p \notin RepositoryWrites)]
        BY <1>1 DEF StepDone, Types, p, q
      <3> QED BY <1>1, <1>7, <3>1 DEF Types
    <2>2. run'.id = None <=> run'.pc = "idle"
      BY <1>2, <1>3, <1>7
    <2> QED BY <1>1, <1>3, <1>6, <2>1, <2>2 DEF Types
  <1>11. Fresh'
    <2>1. run'.id # None => past'[run'.id] # {}
      BY <1>2, <1>3, <1>6
    <2>2. ASSUME NEW j \in Ids, past'[j] = {}
          PROVE  j \notin record' /\ object' # j /\ (\A r \in late' : r.id # j)
      <3>1. past[j] = {} /\ j # i
        BY <1>2, <1>6, <2>2
      <3> QED BY <1>1, <1>3, <1>5, <1>8, <3>1 DEF Fresh
    <2> QED BY <2>1, <2>2 DEF Fresh
  <1>12. LateUploads'
    <2> SUFFICES ASSUME NEW r \in late, r.step = "upload"
                 PROVE  /\ "upload" \in past'[r.id] /\ r.id \notin record'
                        /\ r.id = i => q = "failed"
                        /\ run'.undoable => r.id \notin run.undo.record
      BY <1>3 DEF LateUploads
    <2>1. /\ "upload" \in past[r.id] /\ r.id \notin record /\ r.id # i /\ r.id \in Ids
          /\ run.undoable => r.id \notin run.undo.record
      BY <1>1, <1>2 DEF LateUploads, Types, i, p
    <2> QED BY <1>3, <1>5, <1>6, <2>1
  <1>13. Undoable'
    <2> SUFFICES ASSUME run'.undoable PROVE Undoable'
      BY DEF Undoable
    <2>1. run.undoable /\ p = "compensate" /\ q = "failed"
      BY <1>1, <1>2, <1>3 DEF Undoable, p, q
    <2>2. record' = record /\ object' = None
      BY <1>5, <2>1
    <2>3. /\ run'.pc \in {"compensate", "failed"}
          /\ run'.undo.index \in run'.undo.record \cup {None}
          /\ record' \ run'.undo.record \subseteq {run'.id}
          /\ object' \notin record'
      BY <1>1, <1>3, <1>8, <2>1, <2>2 DEF Undoable, i
    <2>4. run.undo.record \subseteq Ids
      BY <1>1 DEF Types
    <2>5. ASSUME NEW j \in run.undo.record
          PROVE  past'[j] # {} /\ (j \in record \/ past'[j] \cap LosesObject # {})
      BY <1>1, <1>6, <2>1, <2>4 DEF Undoable
    <2> QED BY <1>3, <2>2, <2>3, <2>5 DEF Undoable
  <1>14. ReadsOwnObject'
    BY <1>1, <1>3 DEF ReadsOwnObject
  <1>15. Place'
    <2>1. CASE p = "createBucket"
      <3>1. q = "upload" /\ i \notin record
        BY <1>1, <2>1, FollowersAre DEF q, p, i, Place, Before
      <3> QED BY <1>3, <1>5, <2>1, <3>1 DEF Place, Before, Stored, Unrecorded, Recorded, Deleted, Cleared
    <2>2. CASE p = "upload"
      <3>1. q = "persist" /\ i \notin record
        BY <1>1, <2>2, FollowersAre DEF q, p, i, Place, Before
      <3> QED BY <1>3, <1>5, <2>2, <3>1 DEF Place, Before, Stored, Unrecorded, Recorded, Deleted, Cleared
    <2>3. CASE p = "persist"
      <3>1. q = "get" /\ (object = i \/ (run.disturbed /\ "late" \in past[i]))
        BY <1>1, <2>3, FollowersAre DEF q, p, i, Place, Stored
      <3> QED BY <1>2, <1>3, <1>5, <1>6, <2>3, <3>1
              DEF Place, Before, Stored, Unrecorded, Recorded, Deleted, Cleared
    <2>4. CASE p \in Stored \ {"persist", "deleteObject"}
      <3>1. q \in Stored \ {"persist"}
        BY <2>4, FollowersAre DEF q, Stored
      <3>2. /\ object = i \/ (run.disturbed /\ "late" \in past[i])
            /\ i \in record /\ index = i
        BY <1>1, <2>4 DEF p, i, Place, Recorded
      <3>3. object' = object /\ record' = record /\ index' = index
        BY <1>5, <2>4 DEF Stored
      <3> QED BY <1>2, <1>3, <1>6, <3>1, <3>2, <3>3
              DEF Place, Before, Stored, Unrecorded, Recorded, Deleted, Cleared
    <2>5. CASE p = "deleteObject"
      <3>1. /\ q = "deleteRecord" /\ (object = i \/ "late" \in past[i])
            /\ i \in record /\ index = i
        BY <1>1, <2>5, FollowersAre DEF q, p, i, Place, Stored, Recorded
      <3>2. object' = None /\ record' = record /\ index' = index
        BY <1>5, <2>5
      <3>3. Fate(p) = "deleted"
        BY <1>2, <2>5, FateIs
      <3>4. "deleted" \in past'[i] \/ "late" \in past'[i]
        BY <1>2, <1>6, <3>1, <3>2, <3>3
      <3> QED BY <1>2, <1>3, <3>1, <3>2, <3>4
              DEF Place, Before, Stored, Unrecorded, Recorded, Deleted, Cleared, LosesObject
    <2>6. CASE p \in Deleted
      <3>1. q \in Cleared
        BY <1>2, <2>6, FollowersAre DEF q, Deleted, Cleared
      <3>2. /\ past[i] \cap LosesObject # {} /\ object # i
            /\ object # None => run.disturbed /\ "upload" \in past[object]
        BY <1>1, <2>6 DEF Place, p, i
      <3>3. object' = object
        BY <1>5, <2>6 DEF Deleted, Cleared
      <3>4. i \notin record' /\ index' = None
        <4>1. CASE p = "deleteRecord"
          BY <1>1, <1>5, <4>1 DEF Place, Recorded, p, i
        <4>2. CASE p \in Cleared
          BY <1>1, <1>5, <4>2 DEF Place, Cleared, p, i
        <4> QED BY <2>6, <4>1, <4>2 DEF Deleted
      <3>5. /\ past'[i] \cap LosesObject # {}
            /\ object' # None => run.disturbed /\ "upload" \in past'[object']
        BY <1>2, <1>6, <1>8, <3>2, <3>3
      <3> QED BY <1>3, <3>1, <3>2, <3>3, <3>4, <3>5
              DEF Place, Before, Stored, Unrecorded, Recorded, Deleted, Cleared
    <2>7. CASE p = "compensate"
      <3>1. q = "failed"
        BY <2>7 DEF q
      <3> QED BY <1>3, <3>1 DEF Place, Before, Stored, Unrecorded, Recorded, Deleted, Cleared
    <2> QED BY <1>2, <2>1, <2>2, <2>3, <2>4, <2>5, <2>6, <2>7 DEF PCs
  <1>17. OrphansExplained'
    <2> SUFFICES ASSUME object' # None, object' \notin record'
                 PROVE  \/ i = object' /\ q \in Unrecorded
                        \/ past'[object'] \cap LeavesObject # {}
      BY <1>3 DEF OrphansExplained, LeavesObject
    <2>1. CASE p = "upload"
      <3>1. q = "persist"
        BY <2>1, FollowersAre DEF q
      <3> QED BY <1>5, <2>1, <3>1 DEF Unrecorded
    <2>2. CASE p # "upload"
      <3>1. object' = object /\ object \in Ids /\ p # "compensate"
        BY <1>5, <1>8, <2>2
      <3>2. object \notin record /\ (p \in Unrecorded => object # i)
        <4>1. CASE p = "deleteRecord"
          BY <1>1, <1>5, <3>1, <4>1 DEF Place, Deleted, Unrecorded, p, i
        <4>2. CASE p # "deleteRecord"
          BY <1>5, <3>1, <4>2 DEF Unrecorded
        <4> QED BY <4>1, <4>2
      <3>3. past[object] \cap LeavesObject # {}
        BY <1>1, <3>1, <3>2 DEF OrphansExplained, LeavesObject, p, i
      <3> QED BY <1>6, <3>1, <3>3
    <2> QED BY <2>1, <2>2
  <1> QED BY <1>6, <1>10, <1>11, <1>12, <1>13, <1>14, <1>15, <1>17 DEF IInv

\* The answers of a step, and when one is not the expected one.
LEMMA VerdictIs ==
  ASSUME IInv, Running, Verdict(run.pc, run.id) # "ok"
  PROVE  /\ Verdict(run.pc, run.id) \in {"notFound", "exists", "mismatch", "refused"}
         /\ run.pc # "compensate"
         /\ Verdict(run.pc, run.id) = "refused" \/ run.disturbed
  <1> DEFINE p == run.pc
             i == run.id
             v == Verdict(p, i)
  <1>1. Types /\ Place /\ i \in Ids /\ i # None /\ p \in PCs
    BY RunIs DEF IInv
  <1>2. v = CASE p = "upload" -> IF bucket THEN "ok" ELSE "notFound"
      [] p = "persist"     -> IF i \in record THEN "exists" ELSE "ok"
      [] p \in {"get", "getAgain", "update", "getUpdated"} -> IF i \in record THEN "ok" ELSE "notFound"
      [] p = "getByKey"    -> IF index # None THEN "ok" ELSE "notFound"
      [] p = "download"    -> IF object = i THEN "ok"
                                 ELSE IF object = None THEN "notFound" ELSE "mismatch"
      [] p = "existsAfter" -> IF i \in record THEN "exists" ELSE "ok"
      [] p = "deleteBucket" -> IF object # None THEN "refused" ELSE "ok"
      [] OTHER             -> "ok"
    BY DEF Verdict
  <1>3. v # "ok"
    OBVIOUS
  <1> HIDE DEF v
  <1>4. CASE p = "upload"
    BY <1>1, <1>2, <1>3, <1>4 DEF Place, v
  <1>5. CASE p \in {"persist", "existsAfter"}
    BY <1>1, <1>2, <1>3, <1>5 DEF Place, Before, Cleared, v
  <1>6. CASE p \in {"get", "getAgain", "update", "getUpdated", "getByKey"}
    <2>1. i \in record /\ index = i
      BY <1>1, <1>6 DEF Place, Recorded, Stored
    <2> HIDE DEF p, i
    <2> QED BY <1>1, <1>2, <1>3, <1>6, <2>1
  <1>7. CASE p = "download"
    <2>1. object = i \/ run.disturbed
      BY <1>1, <1>7 DEF Place, Stored
    <2>2. v = IF object = i THEN "ok" ELSE IF object = None THEN "notFound" ELSE "mismatch"
      BY <1>2, <1>7
    <2> QED BY <1>3, <1>7, <2>1, <2>2 DEF v
  <1>8. CASE p = "deleteBucket"
    <2>1. v = "refused"
      BY <1>2, <1>3, <1>8
    <2> QED BY <1>8, <2>1 DEF v
  <1>9. CASE p \notin {"upload", "persist", "existsAfter", "get", "getAgain", "update",
                       "getUpdated", "getByKey", "download", "deleteBucket"}
    BY <1>2, <1>3, <1>9
  <1> QED BY <1>4, <1>5, <1>6, <1>7, <1>8, <1>9

\* A step that ends with an error and changes nothing at once: the answer is
\* refused, the call fails, or its request is delayed.
LEMMA FailingKeeps ==
  ASSUME IInv, StepRefused \/ StepFails \/ StepDelayed
  PROVE  IInv'
  <1> DEFINE p == run.pc
             i == run.id
             q == OnFailure(p)
  <1>1. /\ Types /\ Fresh /\ LateUploads /\ Undoable /\ Place
        /\ RecordsBacked /\ OrphansExplained /\ ReadsOwnObject
    BY DEF IInv
  <1>2. /\ i \in Ids /\ i # None /\ past[i] # {} /\ Running
        /\ p \in PCs \ {"idle", "failed", "done"}
    BY <1>1, RunIs DEF StepRefused, StepFails, StepDelayed
  <1>3. PICK err \in {"error", "notFound", "exists", "mismatch", "refused"} :
          /\ run' = [run EXCEPT !.pc = q, !.err = err]
          /\ err \in {"notFound", "exists", "mismatch"} => run.disturbed
          /\ err = "error" \/ p # "compensate"
          /\ err = "error" \/ (past' = past /\ late' = late)
          /\ err = "error" => past' = [past EXCEPT ![i] = @ \cup {p}]
    <2>1. CASE StepRefused
      BY <1>2, <2>1, VerdictIs DEF StepRefused
    <2>2. CASE StepFails \/ StepDelayed
      BY <2>2 DEF StepFails, StepDelayed
    <2> QED BY <2>1, <2>2
  <1>4. /\ run'.pc = q /\ run'.id = i /\ run'.disturbed = run.disturbed
        /\ run'.err = err /\ run'.undo = run.undo /\ run'.undoable = run.undoable
    BY <1>1, <1>3 DEF Types
  <1>5. UNCHANGED <<bucket, object, record, index>>
    BY DEF StepRefused, StepFails, StepDelayed
  <1>6. \/ late' = late
        \/ err = "error" /\ p \in StoreWrites /\ late' = late \cup {[step |-> p, id |-> i]}
    BY <1>3 DEF StepRefused, StepFails, StepDelayed
  <1>7. /\ past' \in [Ids -> SUBSET Marks]
        /\ \A j \in Ids : past[j] \subseteq past'[j]
        /\ err = "error" => p \in past'[i]
    <2>1. p \in Marks
      BY <1>2 DEF Marks
    <2> HIDE DEF p, Marks
    <2> QED BY <1>1, <1>2, <1>3, <2>1 DEF Types
  <1>8. /\ q \in {"compensate", "done", "failed"}
        /\ q = "compensate" <=> p = "persist"
        /\ q = "done" <=> p = "deleteBucket"
    BY <1>2, FailuresAre
  <1>9. object \in Ids \cup {None} /\ record \subseteq Ids /\ None \notin Ids
    BY <1>1, WorkflowAssumption DEF Types
  <1> HIDE DEF p, i, q
  <1>10. Types'
    <2>1. run' \in [pc: PCs, id: Ids \cup {None}, disturbed: BOOLEAN, undoable: BOOLEAN,
                err: {"none", "error", "notFound", "exists", "mismatch", "refused"},
                undo: [record: SUBSET Ids, index: Ids \cup {None}]]
      <3>1. q \in PCs
        BY <1>8 DEF PCs, Deleted, Cleared
      <3> QED BY <1>1, <1>3, <3>1 DEF Types
    <2>2. late' \subseteq [step: StoreWrites, id: Ids]
      BY <1>1, <1>2, <1>6 DEF Types
    <2>3. run'.id = None <=> run'.pc = "idle"
      BY <1>2, <1>4, <1>8
    <2> QED BY <1>1, <1>5, <1>7, <2>1, <2>2, <2>3 DEF Types
  <1>11. Fresh'
    <2>1. run'.id # None => past'[run'.id] # {}
      BY <1>2, <1>4, <1>7
    <2>2. ASSUME NEW j \in Ids, past'[j] = {}
          PROVE  j \notin record' /\ object' # j /\ (\A r \in late' : r.id # j)
      <3>1. past[j] = {} /\ j # i
        BY <1>2, <1>7, <2>2
      <3> QED BY <1>1, <1>5, <1>6, <3>1 DEF Fresh
    <2> QED BY <2>1, <2>2 DEF Fresh
  <1>12. LateUploads'
    <2> SUFFICES ASSUME NEW r \in late', r.step = "upload"
                 PROVE  /\ "upload" \in past'[r.id] /\ r.id \notin record
                        /\ r.id = i => q = "failed"
                        /\ run.undoable => r.id \notin run.undo.record
      BY <1>4, <1>5 DEF LateUploads
    <2>1. CASE r \in late
      <3>1. /\ "upload" \in past[r.id] /\ r.id \notin record /\ r.id # i /\ r.id \in Ids
            /\ run.undoable => r.id \notin run.undo.record
        BY <1>1, <1>2, <2>1 DEF LateUploads, Types, i, p
      <3> QED BY <1>7, <3>1
    <2>2. CASE r \notin late
      <3>1. r.id = i /\ p = "upload" /\ err = "error"
        BY <1>6, <2>2
      <3>2. i \notin record /\ ~run.undoable
        BY <1>1, <3>1 DEF Place, Before, Undoable, p, i
      <3>3. q = "failed"
        BY <1>8, <3>1
      <3> QED BY <1>7, <3>1, <3>2, <3>3
    <2> QED BY <2>1, <2>2
  <1>13. Undoable'
    <2> SUFFICES ASSUME run'.undoable PROVE Undoable'
      BY DEF Undoable
    <2>1. run.undoable /\ p = "compensate" /\ q = "failed" /\ err = "error"
      BY <1>1, <1>2, <1>3, <1>4, <1>8 DEF Undoable, p
    <2>2. /\ run.undo.index \in run.undo.record \cup {None}
          /\ record \ run.undo.record \subseteq {i}
      BY <1>1, <2>1 DEF Undoable, i
    <2>3. run.undo.record \subseteq Ids
      BY <1>1 DEF Types
    <2>4. ASSUME NEW j \in run.undo.record
          PROVE  past'[j] # {} /\ (j \in record \/ past'[j] \cap LosesObject # {})
      BY <1>1, <1>7, <2>1, <2>3 DEF Undoable
    <2>5. object \in record \ run.undo.record => past'[object] \cap LeavesObject # {}
      BY <1>7, <2>1, <2>2 DEF LeavesObject
    <2> QED BY <1>4, <1>5, <2>1, <2>2, <2>4, <2>5 DEF Undoable
  <1>14. ReadsOwnObject'
    BY <1>3, <1>4 DEF ReadsOwnObject
  <1>15. Place'
    <2>1. CASE p = "persist"
      <3>1. i \notin record /\ (object \notin {None, i} => object \notin record)
        BY <1>1, <2>1 DEF Place, Before, Unrecorded, p, i
      <3>2. q = "compensate"
        BY <1>8, <2>1
      <3> QED BY <1>4, <1>5, <3>1, <3>2
              DEF Place, Before, Stored, Unrecorded, Recorded, Deleted, Cleared
    <2>2. CASE p = "deleteBucket"
      <3>1. /\ past[i] \cap LosesObject # {} /\ object # i
            /\ object # None => run.disturbed /\ "upload" \in past[object]
            /\ i \notin record /\ index = None
        BY <1>1, <2>2 DEF Place, Deleted, Cleared, p, i
      <3>2. q = "done"
        BY <1>8, <2>2
      <3>3. /\ past'[i] \cap LosesObject # {}
            /\ object # None => run.disturbed /\ "upload" \in past'[object]
        BY <1>2, <1>7, <1>9, <3>1
      <3> QED BY <1>4, <1>5, <3>1, <3>2, <3>3
              DEF Place, Before, Stored, Unrecorded, Recorded, Deleted, Cleared
    <2>3. CASE q = "failed"
      BY <1>4, <2>3 DEF Place, Before, Stored, Unrecorded, Recorded, Deleted, Cleared
    <2> QED BY <1>8, <2>1, <2>2, <2>3
  <1>16. RecordsBacked'
    BY <1>1, <1>5, <1>7, <1>9 DEF RecordsBacked
  <1>17. OrphansExplained'
    <2> SUFFICES ASSUME object # None, object \notin record
                 PROVE  \/ i = object /\ q \in Unrecorded
                        \/ past'[object] \cap LeavesObject # {}
      BY <1>4, <1>5 DEF OrphansExplained, LeavesObject
    <2>1. CASE i = object /\ p \in Unrecorded
      <3>1. CASE p = "persist"
        BY <1>8, <2>1, <3>1 DEF Unrecorded
      <3>2. CASE p = "compensate"
        BY <1>3, <1>7, <2>1, <3>2 DEF LeavesObject
      <3> QED BY <2>1, <3>1, <3>2 DEF Unrecorded
    <2>2. CASE past[object] \cap LeavesObject # {}
      BY <1>7, <1>9, <2>2
    <2> QED BY <1>1, <2>1, <2>2 DEF OrphansExplained, LeavesObject, p, i
  <1> QED BY <1>10, <1>11, <1>12, <1>13, <1>14, <1>15, <1>16, <1>17 DEF IInv

\* A step that took effect although it failed; what it did to the repository
\* may be undone when the process ends.
LEMMA StepUnansweredKeeps ==
  ASSUME IInv, StepUnanswered
  PROVE  IInv'
  <1> DEFINE p == run.pc
             i == run.id
             q == OnFailure(p)
  <1>1. /\ Types /\ Fresh /\ LateUploads /\ Undoable /\ Place
        /\ RecordsBacked /\ OrphansExplained /\ ReadsOwnObject
    BY DEF IInv
  <1>2. /\ i \in Ids /\ i # None /\ past[i] # {} /\ Running
        /\ p \in PCs \ {"idle", "failed", "done"}
        /\ p \in StoreWrites \cup RepositoryWrites
    BY <1>1, RunIs DEF StepUnanswered
  <1>3. /\ run'.pc = q /\ run'.id = i /\ run'.disturbed = run.disturbed
        /\ run'.err = "error" /\ run'.undo.record = record /\ run'.undo.index = index
        /\ run'.undoable = (p \in RepositoryWrites)
        /\ late' = late
    BY <1>1 DEF StepUnanswered, Types
  <1>4. Effect(p, i) /\ Remember(i, {p}, Fate(p))
    BY DEF StepUnanswered
  <1>5. /\ object' = IF p = "upload" THEN i
                      ELSE IF p \in {"compensate", "deleteObject"} THEN None ELSE object
        /\ record' = IF p = "persist" THEN record \cup {i}
                      ELSE IF p = "deleteRecord" THEN record \ {i} ELSE record
        /\ index' = IF p = "persist" THEN i
                     ELSE IF p = "deleteRecord" /\ i \in record THEN None ELSE index
    BY <1>2, <1>4, EffectIs
  <1>6. /\ past' \in [Ids -> SUBSET Marks]
        /\ \A j \in Ids : past[j] \subseteq past'[j]
        /\ p \in past'[i]
        /\ bucket' \in BOOLEAN /\ object' \in Ids \cup {None} /\ record' \subseteq Ids
        /\ index' \in record' \cup {None} /\ RecordsBacked'
    <2>1. {p} \in SUBSET Marks
      BY <1>2 DEF Marks
    <2> QED BY <1>2, <1>4, <2>1, EffectSound
  <1>7. /\ q \in {"compensate", "done", "failed"}
        /\ q = "compensate" <=> p = "persist"
        /\ q = "done" <=> p = "deleteBucket"
    BY <1>2, FailuresAre
  <1>8. object \in Ids \cup {None} /\ record \subseteq Ids /\ None \notin Ids
    BY <1>1, WorkflowAssumption DEF Types
  <1> HIDE DEF p, i, q
  <1>10. Types'
    <2>1. run' \in [pc: PCs, id: Ids \cup {None}, disturbed: BOOLEAN, undoable: BOOLEAN,
                err: {"none", "error", "notFound", "exists", "mismatch", "refused"},
                undo: [record: SUBSET Ids, index: Ids \cup {None}]]
      <3>1. q \in PCs
        BY <1>7 DEF PCs, Deleted, Cleared
      <3>2. [record |-> record, index |-> index] \in [record: SUBSET Ids, index: Ids \cup {None}]
        BY <1>1 DEF Types
      <3> DEFINE undo == [record |-> record, index |-> index]
                 undoable == p \in RepositoryWrites
      <3>3. run' = [run EXCEPT !.pc = q, !.err = "error", !.undo = undo, !.undoable = undoable]
        BY DEF StepUnanswered, p, q
      <3>4. undoable \in BOOLEAN
        OBVIOUS
      <3> HIDE DEF undo, undoable
      <3> QED BY <1>1, <3>1, <3>2, <3>3, <3>4 DEF Types, undo
    <2>2. run'.id = None <=> run'.pc = "idle"
      BY <1>2, <1>3, <1>7
    <2> QED BY <1>1, <1>3, <1>6, <2>1, <2>2 DEF Types
  <1>11. Fresh'
    <2>1. run'.id # None => past'[run'.id] # {}
      BY <1>2, <1>3, <1>6
    <2>2. ASSUME NEW j \in Ids, past'[j] = {}
          PROVE  j \notin record' /\ object' # j /\ (\A r \in late' : r.id # j)
      <3>1. past[j] = {} /\ j # i
        BY <1>2, <1>6, <2>2
      <3> QED BY <1>1, <1>3, <1>5, <1>8, <3>1 DEF Fresh
    <2> QED BY <2>1, <2>2 DEF Fresh
  <1>12. LateUploads'
    <2> SUFFICES ASSUME NEW r \in late, r.step = "upload"
                 PROVE  /\ "upload" \in past'[r.id] /\ r.id \notin record'
                        /\ r.id # i /\ r.id \notin record
      BY <1>3 DEF LateUploads
    <2>1. "upload" \in past[r.id] /\ r.id \notin record /\ r.id # i /\ r.id \in Ids
      BY <1>1, <1>2 DEF LateUploads, Types, i, p
    <2> QED BY <1>5, <1>6, <2>1
  <1>13. Undoable'
    <2> SUFFICES ASSUME run'.undoable PROVE Undoable'
      BY DEF Undoable
    <2>1. p \in {"persist", "update", "deleteRecord"} /\ q \in {"compensate", "failed"}
      BY <1>3, <1>7 DEF RepositoryWrites
    <2>2. /\ run'.undo.index \in run'.undo.record \cup {None}
          /\ record' \ run'.undo.record \subseteq {run'.id}
          /\ run'.pc = "failed" => record' \ run'.undo.record = {}
      BY <1>1, <1>3, <1>5, <1>7 DEF Types
    <2>3. ASSUME NEW j \in record
          PROVE  past'[j] # {} /\ (j \in record' \/ past'[j] \cap LosesObject # {})
      <3>1. j \in Ids /\ past[j] # {}
        BY <1>1, <1>8 DEF Fresh
      <3>2. p = "deleteRecord" => past[i] \cap LosesObject # {}
        BY <1>1 DEF Place, Deleted, p, i
      <3> QED BY <1>5, <1>6, <3>1, <3>2
    <2> QED BY <1>3, <2>1, <2>2, <2>3 DEF Undoable
  <1>14. ReadsOwnObject'
    BY <1>3 DEF ReadsOwnObject
  <1>15. Place'
    <2>1. CASE p = "persist"
      <3>1. object \notin {None, i} => object \notin record
        BY <1>1, <2>1 DEF Place, Unrecorded, p, i
      <3>2. q = "compensate" /\ object' = object /\ record' = record \cup {i} /\ "persist" \in past'[i]
        BY <1>5, <1>6, <1>7, <2>1
      <3> QED BY <1>3, <3>1, <3>2
              DEF Place, Before, Stored, Unrecorded, Recorded, Deleted, Cleared
    <2>2. CASE p = "deleteBucket"
      <3>1. /\ past[i] \cap LosesObject # {} /\ object # i
            /\ object # None => run.disturbed /\ "upload" \in past[object]
            /\ i \notin record /\ index = None
        BY <1>1, <2>2 DEF Place, Deleted, Cleared, p, i
      <3>2. q = "done" /\ object' = object /\ record' = record /\ index' = index
        BY <1>5, <1>7, <2>2
      <3>3. /\ past'[i] \cap LosesObject # {}
            /\ object # None => run.disturbed /\ "upload" \in past'[object]
        BY <1>2, <1>6, <1>8, <3>1
      <3> QED BY <1>3, <3>1, <3>2, <3>3
              DEF Place, Before, Stored, Unrecorded, Recorded, Deleted, Cleared
    <2>3. CASE q = "failed"
      BY <1>3, <2>3 DEF Place, Before, Stored, Unrecorded, Recorded, Deleted, Cleared
    <2> QED BY <1>7, <2>1, <2>2, <2>3
  <1>16. OrphansExplained'
    <2> SUFFICES ASSUME object' # None, object' \notin record'
                 PROVE  past'[object'] \cap LeavesObject # {}
      BY <1>3 DEF OrphansExplained, LeavesObject
    <2>1. CASE p = "upload"
      BY <1>5, <1>6, <2>1 DEF LeavesObject
    <2>2. CASE p # "upload"
      <3>1. object' = object /\ object \in Ids /\ p # "compensate"
        BY <1>5, <1>8, <2>2
      <3>2. object \notin record /\ (p \in Unrecorded => object # i)
        <4>1. CASE p = "deleteRecord"
          BY <1>1, <1>5, <3>1, <4>1 DEF Place, Deleted, Unrecorded, p, i
        <4>2. CASE p # "deleteRecord"
          BY <1>5, <3>1, <4>2 DEF Unrecorded
        <4> QED BY <4>1, <4>2
      <3>3. past[object] \cap LeavesObject # {}
        BY <1>1, <3>1, <3>2 DEF OrphansExplained, LeavesObject, p, i
      <3> QED BY <1>6, <3>1, <3>3
    <2> QED BY <2>1, <2>2
  <1> QED BY <1>6, <1>10, <1>11, <1>12, <1>13, <1>14, <1>15, <1>16 DEF IInv

-----------------------------------------------------------------------------
(* A late request, and the beginning and the end of a run. *)

LEMMA ArriveKeeps ==
  ASSUME IInv, NEW r \in late, Arrive(r)
  PROVE  IInv'
  <1> DEFINE p == run.pc
             i == run.id
  <1>1. /\ Types /\ Fresh /\ LateUploads /\ Undoable /\ Place
        /\ RecordsBacked /\ OrphansExplained /\ ReadsOwnObject
    BY DEF IInv
  <1>2. r.step \in StoreWrites /\ r.id \in Ids
    BY <1>1 DEF Types
  <1>3. /\ UNCHANGED <<record, index>> /\ bucket' \in BOOLEAN
        /\ object' = object \/ object' = None \/ (object' = r.id /\ r.step = "upload")
    BY <1>1, <1>2 DEF Arrive, StoreEffect, Types, StoreWrites
  <1>4. /\ run'.pc = p /\ run'.id = i /\ run'.disturbed = (p # "idle")
        /\ run'.err = run.err /\ run'.undo = run.undo /\ run'.undoable = run.undoable
        /\ late' \subseteq late
    BY <1>1 DEF Arrive, Types
  <1>5. /\ past' \in [Ids -> SUBSET Marks]
        /\ \A j \in Ids : past[j] \subseteq past'[j]
        /\ object # None /\ object' # object => "late" \in past'[object]
    <2>1. {} \in SUBSET Marks /\ "late" \in Fates
      BY DEF Fates
    <2> QED BY <1>1, <2>1, PastIs DEF Arrive
  <1>6. object \in Ids \cup {None} /\ record \subseteq Ids /\ None \notin Ids
    BY <1>1, WorkflowAssumption DEF Types
  <1>7. r.step = "upload" => /\ "upload" \in past[r.id] /\ r.id \notin record
                             /\ r.id = i => p = "failed"
    BY <1>1 DEF LateUploads
  <1> HIDE DEF p, i
  <1>10. Types'
    <2>1. run' \in [pc: PCs, id: Ids \cup {None}, disturbed: BOOLEAN, undoable: BOOLEAN,
                err: {"none", "error", "notFound", "exists", "mismatch", "refused"},
                undo: [record: SUBSET Ids, index: Ids \cup {None}]]
      BY <1>1 DEF Arrive, Types
    <2> QED BY <1>1, <1>2, <1>3, <1>4, <1>5, <1>6, <2>1 DEF Types, p, i
  <1>11. Fresh'
    <2>1. run'.id # None => past'[run'.id] # {}
      BY <1>1, <1>4, <1>5 DEF Fresh, Types, i
    <2>2. ASSUME NEW j \in Ids, past'[j] = {}
          PROVE  j \notin record' /\ object' # j /\ (\A s \in late' : s.id # j)
      <3>1. past[j] = {} /\ j # r.id
        BY <1>1, <1>5, <2>2 DEF Fresh
      <3> QED BY <1>1, <1>3, <1>4, <1>6, <3>1 DEF Fresh
    <2> QED BY <2>1, <2>2 DEF Fresh
  <1>12. LateUploads'
    <2> SUFFICES ASSUME NEW s \in late, s.step = "upload"
                 PROVE  /\ "upload" \in past'[s.id] /\ s.id \notin record
                        /\ s.id = i => p = "failed"
                        /\ run.undoable => s.id \notin run.undo.record
      BY <1>3, <1>4 DEF LateUploads
    <2>1. s.id \in Ids
      BY <1>1 DEF Types
    <2> QED BY <1>1, <1>5, <2>1 DEF LateUploads, i, p
  <1>13. Undoable'
    <2> SUFFICES ASSUME run'.undoable PROVE Undoable'
      BY DEF Undoable
    <2>1. /\ run.undoable /\ p \in {"compensate", "failed"}
          /\ run.undo.index \in run.undo.record \cup {None}
          /\ record \ run.undo.record \subseteq {i}
      BY <1>1, <1>4 DEF Undoable, p, i
    <2>2. run.undo.record \subseteq Ids
      BY <1>1 DEF Types
    <2>3. ASSUME NEW j \in run.undo.record
          PROVE  past'[j] # {} /\ (j \in record \/ past'[j] \cap LosesObject # {})
      BY <1>1, <1>5, <2>1, <2>2 DEF Undoable
    <2>4. ASSUME p = "failed", object' \in record \ run.undo.record
          PROVE  past'[object'] \cap LeavesObject # {}
      <3>1. object' = object
        BY <1>3, <1>6, <1>7, <2>4
      <3>2. past[object] \cap LeavesObject # {}
        BY <1>1, <2>1, <2>4, <3>1 DEF Undoable, p
      <3> QED BY <1>5, <1>6, <2>4, <3>1, <3>2
    <2> QED BY <1>3, <1>4, <2>1, <2>3, <2>4 DEF Undoable
  <1>14. ReadsOwnObject'
    BY <1>1, <1>4 DEF ReadsOwnObject, Place, p
  <1>15. Place'
    <2>1. p \in Stored => i \in Ids /\ (object' = i \/ (p # "idle" /\ "late" \in past'[i]))
      <3> SUFFICES ASSUME p \in Stored
                   PROVE  i \in Ids /\ (object' = i \/ "late" \in past'[i])
        BY DEF Stored
      <3>1. i \in Ids /\ (object = i \/ "late" \in past[i])
        BY <1>1 DEF Place, Types, Stored, p, i
      <3> QED BY <1>5, <1>6, <3>1
    <2>2. p \in Unrecorded /\ object' \notin {None, i} => object' \notin record
      BY <1>1, <1>3, <1>7 DEF Place, p, i
    <2>3. p \in Deleted => /\ past'[i] \cap LosesObject # {} /\ object' # i
                           /\ object' # None => p # "idle" /\ "upload" \in past'[object']
      <3> SUFFICES ASSUME p \in Deleted
                   PROVE  /\ past'[i] \cap LosesObject # {} /\ object' # i
                          /\ object' # None => p # "idle" /\ "upload" \in past'[object']
        OBVIOUS
      <3>1. /\ p \notin {"idle", "failed"} /\ i \in Ids
        BY <1>1 DEF Types, Deleted, Cleared, p, i
      <3>2. /\ past[i] \cap LosesObject # {} /\ object # i
            /\ object # None => "upload" \in past[object]
        BY <1>1 DEF Place, p, i
      <3>3. object' # i
        BY <1>3, <1>6, <1>7, <3>1, <3>2
      <3>4. object' # None => "upload" \in past[object'] /\ object' \in Ids
        BY <1>2, <1>3, <1>6, <1>7, <3>2
      <3> QED BY <1>5, <3>1, <3>2, <3>3, <3>4
    <2>4. p = "compensate" /\ i \in record => "persist" \in past'[i]
      BY <1>1, <1>5, <1>6 DEF Place, p, i
    <2>5. /\ p = "idle" => run.err = "none"
          /\ p \in Before => i \notin record
          /\ p \in Recorded => i \in record /\ index = i
          /\ p \in Cleared => i \notin record /\ index = None
      BY <1>1 DEF Place, p, i
    <2> QED BY <1>3, <1>4, <2>1, <2>2, <2>3, <2>4, <2>5 DEF Place
  <1>16. RecordsBacked'
    <2> SUFFICES ASSUME NEW j \in record
                 PROVE  \/ object' = j \/ "replaced" \in past'[j] \/ "deleted" \in past'[j]
                        \/ "late" \in past'[j]
                        \/ "compensated" \in past'[j] /\ "persist" \in past'[j]
      BY <1>3 DEF RecordsBacked
    <2> QED BY <1>1, <1>5, <1>6 DEF RecordsBacked
  <1>17. OrphansExplained'
    <2> SUFFICES ASSUME object' # None, object' \notin record
                 PROVE  \/ i = object' /\ p \in Unrecorded
                        \/ past'[object'] \cap LeavesObject # {}
      BY <1>3, <1>4 DEF OrphansExplained, LeavesObject
    <2>1. CASE object' = object
      <3>1. (i = object /\ p \in Unrecorded) \/ past[object] \cap LeavesObject # {}
        BY <1>1, <1>3, <2>1 DEF OrphansExplained, LeavesObject, p, i
      <3> QED BY <1>5, <1>6, <2>1, <3>1
    <2>2. CASE object' = r.id /\ r.step = "upload"
      BY <1>2, <1>5, <1>7, <2>2 DEF LeavesObject
    <2> QED BY <1>3, <2>1, <2>2
  <1> QED BY <1>10, <1>11, <1>12, <1>13, <1>14, <1>15, <1>16, <1>17 DEF IInv

\* The process ends, and may take an unacknowledged write with it.
LEMMA StopKeeps ==
  ASSUME IInv, Stop
  PROVE  IInv'
  <1> DEFINE p == run.pc
             i == run.id
  <1>1. /\ Types /\ Fresh /\ LateUploads /\ Undoable /\ Place
        /\ RecordsBacked /\ OrphansExplained /\ ReadsOwnObject
    BY DEF IInv
  <1>2. i \in Ids /\ i # None
    BY <1>1, WorkflowAssumption DEF Stop, Types
  <1>3. /\ run' = NotRunning /\ UNCHANGED <<bucket, object, late>>
        /\ \/ record' = record /\ index' = index
           \/ run.undoable /\ record' = run.undo.record /\ index' = run.undo.index
        /\ past' = [past EXCEPT ![i] = @ \cup IF p \in Unrecorded THEN {"killed"} ELSE {}]
    BY DEF Stop
  <1>4. /\ run'.pc = "idle" /\ run'.id = None /\ run'.err = "none" /\ ~run'.undoable
    BY <1>3 DEF NotRunning
  <1>5. /\ past' \in [Ids -> SUBSET Marks]
        /\ \A j \in Ids : past[j] \subseteq past'[j]
        /\ p \in Unrecorded => "killed" \in past'[i]
    <2>1. "killed" \in Marks
      BY DEF Marks
    <2> HIDE DEF Marks, p
    <2> QED BY <1>1, <1>2, <1>3, <2>1 DEF Types
  <1>6. object \in Ids \cup {None} /\ record \subseteq Ids /\ None \notin Ids
        /\ run.undo.record \subseteq Ids
    BY <1>1, WorkflowAssumption DEF Types
  <1>7. run.undoable =>
          /\ p \in {"compensate", "failed"}
          /\ run.undo.index \in run.undo.record \cup {None}
          /\ record \ run.undo.record \subseteq {i}
          /\ \A j \in run.undo.record : j \in record \/ past[j] \cap LosesObject # {}
          /\ \A j \in run.undo.record : past[j] # {}
          /\ p = "failed" /\ object \in record \ run.undo.record =>
               past[object] \cap LeavesObject # {}
    BY <1>1 DEF Undoable
  <1> HIDE DEF p, i
  <1>10. Types'
    <2>1. NotRunning \in [pc: PCs, id: Ids \cup {None}, disturbed: BOOLEAN, undoable: BOOLEAN,
                err: {"none", "error", "notFound", "exists", "mismatch", "refused"},
                undo: [record: SUBSET Ids, index: Ids \cup {None}]]
      BY DEF NotRunning, PCs
    <2>2. record' \subseteq Ids /\ index' \in record' \cup {None}
      BY <1>1, <1>3, <1>6, <1>7 DEF Types
    <2> QED BY <1>1, <1>3, <1>4, <1>5, <2>1, <2>2 DEF Types
  <1>11. Fresh'
    <2> SUFFICES ASSUME NEW j \in Ids, past'[j] = {}
                 PROVE  j \notin record' /\ object # j /\ (\A r \in late : r.id # j)
      BY <1>3, <1>4 DEF Fresh
    <2>1. past[j] = {}
      BY <1>5
    <2> QED BY <1>1, <1>3, <1>7, <2>1 DEF Fresh
  <1>12. LateUploads'
    <2> SUFFICES ASSUME NEW r \in late, r.step = "upload"
                 PROVE  "upload" \in past'[r.id] /\ r.id \notin record' /\ r.id # None
      BY <1>3, <1>4 DEF LateUploads
    <2>1. /\ r.id \in Ids /\ "upload" \in past[r.id] /\ r.id \notin record
          /\ run.undoable => r.id \notin run.undo.record
      BY <1>1 DEF LateUploads, Types
    <2> QED BY <1>3, <1>5, <1>6, <2>1
  <1>13. Undoable' /\ ReadsOwnObject'
    BY <1>4 DEF Undoable, ReadsOwnObject
  <1>14. Place'
    BY <1>4 DEF Place, Before, Stored, Unrecorded, Recorded, Deleted, Cleared
  <1>15. RecordsBacked'
    <2> SUFFICES ASSUME NEW j \in record'
                 PROVE  \/ object = j \/ "replaced" \in past'[j] \/ "deleted" \in past'[j]
                        \/ "late" \in past'[j]
                        \/ "compensated" \in past'[j] /\ "persist" \in past'[j]
      BY <1>3 DEF RecordsBacked
    <2>1. j \in Ids /\ (j \in record \/ past[j] \cap LosesObject # {})
      BY <1>3, <1>6, <1>7
    <2> QED BY <1>1, <1>5, <2>1 DEF RecordsBacked, LosesObject
  <1>16. OrphansExplained'
    <2> SUFFICES ASSUME object # None, object \notin record'
                 PROVE  past'[object] \cap LeavesObject # {}
      BY <1>3, <1>4 DEF OrphansExplained, LeavesObject
    <2>1. CASE i = object /\ p \in Unrecorded
      BY <1>5, <2>1 DEF LeavesObject
    <2>2. CASE object \notin record /\ ~(i = object /\ p \in Unrecorded)
      <3>1. past[object] \cap LeavesObject # {}
        BY <1>1, <2>2 DEF OrphansExplained, LeavesObject, p, i
      <3> QED BY <1>5, <1>6, <3>1
    <2>3. CASE object \in record /\ ~(i = object /\ p \in Unrecorded)
      <3>1. run.undoable /\ record' = run.undo.record
        BY <1>3, <2>3
      <3>2. p = "failed"
        BY <1>7, <2>3, <3>1 DEF Unrecorded
      <3>3. past[object] \cap LeavesObject # {}
        BY <1>7, <2>3, <3>1, <3>2
      <3> QED BY <1>5, <1>6, <3>3
    <2> QED BY <2>1, <2>2, <2>3
  <1> QED BY <1>10, <1>11, <1>12, <1>13, <1>14, <1>15, <1>16 DEF IInv

LEMMA StartKeeps ==
  ASSUME IInv, NEW i \in Ids, Start(i)
  PROVE  IInv'
  <1>1. /\ Types /\ Fresh /\ LateUploads /\ Undoable /\ Place
        /\ RecordsBacked /\ OrphansExplained /\ ReadsOwnObject
    BY DEF IInv
  <1>2. /\ run.pc = "idle" /\ past[i] = {}
        /\ run' = [NotRunning EXCEPT !.pc = "createBucket", !.id = i]
        /\ past' = [past EXCEPT ![i] = {"started"}]
        /\ UNCHANGED <<bucket, object, record, index, late>>
    BY DEF Start, Steps
  <1>3. /\ run'.pc = "createBucket" /\ run'.id = i /\ run'.err = "none" /\ ~run'.undoable
    BY <1>2 DEF NotRunning
  <1>4. /\ past' \in [Ids -> SUBSET Marks]
        /\ \A j \in Ids : past[j] \subseteq past'[j]
        /\ past'[i] # {}
    <2>1. "started" \in Marks
      BY DEF Marks
    <2> HIDE DEF Marks
    <2> QED BY <1>1, <1>2, <2>1 DEF Types
  <1>5. object \in Ids \cup {None} /\ record \subseteq Ids /\ None \notin Ids
        /\ i \notin record /\ object # i /\ (\A r \in late : r.id # i)
    BY <1>1, <1>2, WorkflowAssumption DEF Types, Fresh
  <1>6. run.id = None
    BY <1>1, <1>2 DEF Types
  <1>10. Types'
    <2>1. NotRunning \in [pc: PCs, id: Ids \cup {None}, disturbed: BOOLEAN, undoable: BOOLEAN,
                err: {"none", "error", "notFound", "exists", "mismatch", "refused"},
                undo: [record: SUBSET Ids, index: Ids \cup {None}]]
      BY DEF NotRunning, PCs
    <2>2. "createBucket" \in PCs
      BY DEF PCs
    <2>3. run' \in [pc: PCs, id: Ids \cup {None}, disturbed: BOOLEAN, undoable: BOOLEAN,
                err: {"none", "error", "notFound", "exists", "mismatch", "refused"},
                undo: [record: SUBSET Ids, index: Ids \cup {None}]]
      <3> HIDE DEF NotRunning, PCs
      <3> QED BY <1>2, <2>1, <2>2
    <2> QED BY <1>1, <1>2, <1>3, <1>4, <1>5, <2>3 DEF Types
  <1>11. Fresh'
    <2> SUFFICES ASSUME NEW j \in Ids, past'[j] = {}
                 PROVE  j \notin record /\ object # j /\ (\A r \in late : r.id # j)
      BY <1>2, <1>3, <1>4 DEF Fresh
    <2>1. past[j] = {}
      BY <1>4
    <2> QED BY <1>1, <2>1 DEF Fresh
  <1>12. LateUploads'
    <2> SUFFICES ASSUME NEW r \in late, r.step = "upload"
                 PROVE  "upload" \in past'[r.id] /\ r.id \notin record /\ r.id # i
      BY <1>2, <1>3 DEF LateUploads
    <2>1. r.id \in Ids
      BY <1>1 DEF Types
    <2> QED BY <1>1, <1>4, <1>5, <2>1 DEF LateUploads
  <1>13. Undoable' /\ ReadsOwnObject'
    BY <1>3 DEF Undoable, ReadsOwnObject
  <1>14. Place'
    BY <1>2, <1>3, <1>5 DEF Place, Before, Stored, Unrecorded, Recorded, Deleted, Cleared
  <1>15. RecordsBacked'
    <2> SUFFICES ASSUME NEW j \in record
                 PROVE  \/ object = j \/ "replaced" \in past'[j] \/ "deleted" \in past'[j]
                        \/ "late" \in past'[j]
                        \/ "compensated" \in past'[j] /\ "persist" \in past'[j]
      BY <1>2 DEF RecordsBacked
    <2> QED BY <1>1, <1>4, <1>5 DEF RecordsBacked
  <1>16. OrphansExplained'
    <2> SUFFICES ASSUME object # None, object \notin record
                 PROVE  past'[object] \cap LeavesObject # {}
      BY <1>2 DEF OrphansExplained, LeavesObject
    <2>1. past[object] \cap LeavesObject # {}
      BY <1>1, <1>6 DEF OrphansExplained, LeavesObject
    <2> QED BY <1>4, <1>5, <2>1
  <1> QED BY <1>10, <1>11, <1>12, <1>13, <1>14, <1>15, <1>16 DEF IInv

-----------------------------------------------------------------------------
(* The specification. *)

LEMMA InitIInv == Init => IInv
  <1> SUFFICES ASSUME Init PROVE IInv
    OBVIOUS
  <1>1. /\ run.pc = "idle" /\ run.id = None /\ run.err = "none" /\ ~run.undoable
    BY DEF Init, NotRunning
  <1>2. Types
    BY DEF Init, Types, NotRunning, PCs
  <1>3. /\ object = None /\ record = {} /\ late = {} /\ None \notin Ids
    BY WorkflowAssumption DEF Init
  <1>4. Fresh /\ LateUploads /\ Undoable
    BY <1>1, <1>3 DEF Fresh, LateUploads, Undoable
  <1>5. Place
    BY <1>1 DEF Place, Before, Stored, Unrecorded, Recorded, Deleted, Cleared
  <1>6. RecordsBacked /\ OrphansExplained /\ ReadsOwnObject
    BY <1>1, <1>3 DEF RecordsBacked, OrphansExplained, ReadsOwnObject
  <1> QED BY <1>2, <1>4, <1>5, <1>6 DEF IInv

LEMMA NextIInv == IInv /\ [Next]_vars => IInv'
  <1> SUFFICES ASSUME IInv, [Next]_vars PROVE IInv'
    OBVIOUS
  <1>1. CASE UNCHANGED vars
    BY <1>1 DEF vars, IInv, Types, Fresh, LateUploads, Undoable, Place,
                RecordsBacked, OrphansExplained, ReadsOwnObject
  <1>2. ASSUME NEW i \in Ids, Start(i) PROVE IInv'
    BY <1>2, StartKeeps
  <1>3. CASE StepDone
    BY <1>3, StepDoneKeeps
  <1>4. CASE StepRefused \/ StepFails \/ StepDelayed
    BY <1>4, FailingKeeps
  <1>5. CASE StepUnanswered
    BY <1>5, StepUnansweredKeeps
  <1>6. ASSUME NEW r \in late, Arrive(r) PROVE IInv'
    BY <1>6, ArriveKeeps
  <1>7. CASE Stop
    BY <1>7, StopKeeps
  <1> QED BY <1>1, <1>2, <1>3, <1>4, <1>5, <1>6, <1>7 DEF Next

LEMMA Invariance == Spec => []IInv
  BY InitIInv, NextIInv, PTL DEF Spec

\* The state of store, repository and run is well typed, and the index names a
\* record that is there.
THEOREM TypeCorrect == Spec => []TypeOK
  <1>1. PCs \subseteq {Steps[n] : n \in DOMAIN Steps} \cup {"idle", "compensate", "failed"}
    BY DEF PCs, Stored, Deleted, Cleared, Steps
  <1>2. IInv => TypeOK
    BY <1>1 DEF IInv, Types, TypeOK
  <1> QED BY <1>2, Invariance, PTL

\* A record loses its object only for one of the causes that RecordsBacked
\* names, after any number of runs, crashes and late requests.
THEOREM RecordsAreBacked == Spec => []RecordsBacked
  BY Invariance, PTL DEF IInv

\* An object lacks its record only while its run is between the two, or for one
\* of the causes that OrphansExplained names.
THEOREM OrphansAreExplained == Spec => []OrphansExplained
  BY Invariance, PTL DEF IInv

\* A run that comes to its end leaves nothing, whatever it found.
THEOREM DoneMeansClean == Spec => []DoneIsClean
  <1>1. IInv => DoneIsClean
    BY DEF IInv, Place, Deleted, Cleared, DoneIsClean
  <1> QED BY <1>1, Invariance, PTL

\* A run reads the object and the record that it wrote, unless a late request
\* came in.
THEOREM RunsReadTheirOwn == Spec => []ReadsOwnObject
  BY Invariance, PTL DEF IInv
=============================================================================
