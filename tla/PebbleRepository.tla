-------------------------- MODULE PebbleRepository --------------------------
(***************************************************************************)
(* The Pebble-backed metadata repository of internal/metadata/pebble: the  *)
(* primary records, the secondary (bucket, key) index, and the calls of    *)
(* concurrent goroutines.  Every access a call makes to the database is a  *)
(* step of its own, so calls interleave between a read and the commit that *)
(* was decided by it; a batch commit is one atomic step.                   *)
(*                                                                         *)
(* A (bucket, key) pair is one value, a "location".  A record is its ID,   *)
(* its location and its Version; the other fields are never read by the    *)
(* repository.  The database is what reads see (db) and what survives a    *)
(* crash (disk).                                                           *)
(***************************************************************************)
EXTENDS Integers, Sequences, FiniteSets

CONSTANTS
    Clients,      \* goroutines that call the repository
    Ids,          \* object IDs
    Locs,         \* (bucket, key) pairs
    NoId, NoLoc,  \* no ID; a location Validate() rejects (empty bucket or key)
    NoRec,        \* no record under an ID
    Keep,         \* a database key a batch does not write
    Kinds,        \* the operations the clients call
    MaxVer,       \* bound on Version
    MaxBatch,     \* bound on the length of a CreateMany or DeleteMany
    MaxDoubt,     \* bound on the records an ID written to may hold
    WALSync,      \* Config.WALSync: a write waits for the fsync of its batch
    Exclusive     \* TRUE: the clients follow the discipline of Permitted below

AllKinds == {"create", "get", "getByKey", "exists", "update", "delete",
             "createMany", "deleteMany", "health"}

Vers == 1..MaxVer
Meta == [id: Ids, loc: Locs, ver: Vers]
Arg  == [id: Ids \cup {NoId}, loc: Locs \cup {NoLoc}, ver: Vers]

ASSUME ConstantsAssumption ==
    /\ NoId \notin Ids
    /\ NoLoc \notin Locs
    /\ NoRec \notin Arg
    /\ Keep \notin Arg \cup {NoRec} \cup Ids \cup {NoId}
    /\ Kinds \subseteq AllKinds
    /\ MaxVer \in Nat \ {0}
    /\ MaxBatch \in Nat
    /\ MaxDoubt \in Nat \ {0}
    /\ WALSync \in BOOLEAN
    /\ Exclusive \in BOOLEAN

VARIABLES
    db,       \* what a read of the open database returns
    disk,     \* what the database holds after a crash
    closed,   \* PebbleMetadataRepository.closed
    dbOpen,   \* pebble.DB is open
    op,       \* the call each client is in
    allowed   \* history: what each ID may hold, by what its callers were told

vars == <<db, disk, closed, dbOpen, op, allowed>>

-----------------------------------------------------------------------------
(* The database and its batches. *)

Database == [primary: [Ids -> Meta \cup {NoRec}],
             secondary: [Locs -> Ids \cup {NoId}]]

Batch == [primary: [Ids -> Meta \cup {NoRec, Keep}],
          secondary: [Locs -> Ids \cup {NoId, Keep}]]

EmptyDatabase == [primary   |-> [i \in Ids |-> NoRec],
                  secondary |-> [l \in Locs |-> NoId]]

EmptyBatch == [primary   |-> [i \in Ids |-> Keep],
               secondary |-> [l \in Locs |-> Keep]]

\* The database d after batch b is committed.
Apply(d, b) ==
    [primary   |-> [i \in Ids |-> IF b.primary[i] = Keep
                                  THEN d.primary[i] ELSE b.primary[i]],
     secondary |-> [l \in Locs |-> IF b.secondary[l] = Keep
                                   THEN d.secondary[l] ELSE b.secondary[l]]]

\* batch.Set(pk, value) and batch.Set(sk, pk)
AddRecord(b, m) == [primary   |-> [b.primary EXCEPT ![m.id] = m],
                    secondary |-> [b.secondary EXCEPT ![m.loc] = m.id]]

\* Mutant: the index entry of a deleted record is forgotten.
AddDeletionOfRecordOnly(b, m) ==
    [b EXCEPT !.primary = [@ EXCEPT ![m.id] = NoRec]]

\* batch.Delete(pk) and batch.Delete(sk) of the record m that was read
AddDeletion(b, m) == [primary   |-> [b.primary EXCEPT ![m.id] = NoRec],
                      secondary |-> [b.secondary EXCEPT ![m.loc] = NoId]]

\* Mutant: the index is rewritten without the test for a changed key, and the
\* old entry is deleted after the new one is set.
ReplaceRecordSwapped(old, m) ==
    [primary   |-> [EmptyBatch.primary EXCEPT ![m.id] = m],
     secondary |-> [EmptyBatch.secondary EXCEPT ![m.loc] = m.id, ![old.loc] = NoId]]

\* The batch of an Update that replaces the record old by m: the index is
\* touched only when bucket or key changed.
ReplaceRecord(old, m) ==
    [primary   |-> [EmptyBatch.primary EXCEPT ![m.id] = m],
     secondary |-> IF old.loc = m.loc
                   THEN EmptyBatch.secondary
                   ELSE [EmptyBatch.secondary EXCEPT ![old.loc] = NoId,
                                                     ![m.loc] = m.id]]

-----------------------------------------------------------------------------
(* Calls. *)

Errors == {"none", "ok", "exists", "notFound", "conflict", "invalid",
           "closed", "canceled", "io"}

Result(err, m) == [err |-> err, m |-> m]
Err(err) == Result(err, NoRec)

Idle == [pc |-> "idle", kind |-> "none", args |-> << >>, next |-> 1,
         batch |-> EmptyBatch, seen |-> NoId, res |-> Err("none")]

PCs == {"idle", "read", "fetch", "build", "commit", "syncing", "probe",
        "return", "panic"}

\* The argument lists a client passes: ms enumerates records whose ID or
\* location may be the invalid one, ids and keys leave the unused fields out.
Named(i) == [id |-> i, loc |-> NoLoc, ver |-> 1]
Located(l) == [id |-> NoId, loc |-> l, ver |-> 1]
NewRecords == {m \in Arg : m.id # NoId /\ m.ver = 1}
Lists(S) == UNION {[1..n -> S] : n \in 0..MaxBatch}

Requests(kind) ==
    CASE kind = "create"     -> {<<m>> : m \in NewRecords}
      [] kind = "update"     -> {<<m>> : m \in {a \in Arg : a.id # NoId /\ a.ver < MaxVer}}
      [] kind = "createMany" -> Lists(NewRecords)
      [] kind = "deleteMany" -> Lists({Named(i) : i \in Ids})
      [] kind = "getByKey"   -> {<<Located(l)>> : l \in Locs}
      [] kind = "health"     -> {<< >>}
      [] OTHER               -> {<<Named(i)>> : i \in Ids}

Valid(m) == m.id # NoId /\ m.loc # NoLoc

Writes(kind) == kind \in {"create", "update", "delete", "createMany", "deleteMany"}
Places(kind) == kind \in {"create", "update", "createMany"}

\* The IDs and locations a call in progress may still write.
Writing(c) == op[c].pc # "idle" /\ Writes(op[c].kind)
ArgIds(args) == {args[k].id : k \in DOMAIN args}
ArgLocs(args) == {args[k].loc : k \in DOMAIN args}

(***************************************************************************)
(* The discipline of clients that the repository needs and does not        *)
(* enforce: calls that write overlap in time only on different IDs and     *)
(* different locations, a record is not put on a location that another     *)
(* record occupies, and CreateMany gets records that do not exist yet, of  *)
(* distinct IDs and locations.  cmd/cache follows it (a fresh uuid.New()   *)
(* per upload, one goroutine), and so do the workers of TestConcurrency.   *)
(***************************************************************************)
Permitted(c, kind, args) ==
    /\ Writes(kind) =>
         \A d \in Clients \ {c} : Writing(d) =>
            /\ ArgIds(args) \cap ArgIds(op[d].args) = {}
            /\ Places(kind) /\ Places(op[d].kind) =>
                  ArgLocs(args) \cap ArgLocs(op[d].args) = {}
    /\ Places(kind) =>
         \A k \in DOMAIN args :
            args[k].loc # NoLoc => db.secondary[args[k].loc] \in {NoId, args[k].id}
    /\ kind = "createMany" =>
         /\ \A k \in DOMAIN args : db.primary[args[k].id] = NoRec
         /\ \A j, k \in DOMAIN args :
               j # k => args[j].id # args[k].id /\ args[j].loc # args[k].loc

\* The first step of an accepted call.
Entry(kind) == CASE kind = "createMany" -> "build"
                 [] kind = "health"     -> "commit"
                 [] OTHER               -> "read"

\* The call of client c leaves with result r, having written nothing it can
\* vouch for; its arguments are gone.
Leave(c, r) == op' = [op EXCEPT ![c] = [Idle EXCEPT !.pc = "return", !.kind = op[c].kind,
                                                    !.res = r]]

Calling(c, pc, kind) == op[c].pc = pc /\ op[c].kind \in kind

\* The record the call is about, as the caller's *ObjectMetadata holds it.
M(c) == op[c].args[op[c].next]

(***************************************************************************)
(* A call enters: the closed flag is loaded once, then the context is      *)
(* looked at once, and then the argument of Create and Update is           *)
(* validated.  CreateMany and DeleteMany of nothing succeed at once.       *)
(***************************************************************************)
Refusals(kind, args) ==
    IF closed THEN {"closed"}
    ELSE {"canceled"} \cup
         {"invalid" : k \in {j \in DOMAIN args : /\ kind \in {"create", "update"}
                                                 /\ ~Valid(args[j])}}

Enter(c, kind, args, pc, err) ==
    /\ op[c].pc = "idle"
    /\ op' = [op EXCEPT ![c] = [Idle EXCEPT !.kind = kind, !.args = args,
                                           !.pc = pc, !.res = Err(err)]]
    /\ UNCHANGED <<db, disk, closed, dbOpen, allowed>>

CallRefused(c, kind, args) ==
    \E err \in Refusals(kind, args) : Enter(c, kind, << >>, "return", err)

CallEmpty(c, kind, args) ==
    /\ ~closed
    /\ kind \in {"createMany", "deleteMany"} /\ args = << >>
    /\ Enter(c, kind, args, "return", "ok")

Call(c, kind, args) ==
    /\ Refusals(kind, args) = {"canceled"}
    /\ kind \in {"createMany", "deleteMany"} => args # << >>
    /\ Writes(kind) => \A i \in ArgIds(args) \cap Ids : Cardinality(allowed[i]) <= MaxDoubt
    /\ Exclusive => Permitted(c, kind, args)
    /\ Enter(c, kind, args, Entry(kind), "none")

\* Create: db.Get(pk); a record that exists is refused, else the batch is
\* built from the argument.
CreateRead(c) ==
    /\ Calling(c, "read", {"create"})
    /\ dbOpen
    /\ IF db.primary[M(c).id] # NoRec
       THEN Leave(c, Err("exists"))
       ELSE op' = [op EXCEPT ![c].pc = "commit",
                             ![c].batch = AddRecord(EmptyBatch, M(c))]
    /\ UNCHANGED <<db, disk, closed, dbOpen, allowed>>

\* Get and Exists: one read of the primary record.
GetRead(c) ==
    /\ Calling(c, "read", {"get", "exists"})
    /\ dbOpen
    /\ LET m == db.primary[M(c).id]
       IN  Leave(c, IF m = NoRec THEN Err("notFound") ELSE Result("ok", m))
    /\ UNCHANGED <<db, disk, closed, dbOpen, allowed>>

\* GetByKey, first read: the index gives the primary key.
IndexRead(c) ==
    /\ Calling(c, "read", {"getByKey"})
    /\ dbOpen
    /\ LET i == db.secondary[M(c).loc]
       IN  IF i = NoId
           THEN Leave(c, Err("notFound"))
           ELSE op' = [op EXCEPT ![c].pc = "fetch", ![c].seen = i]
    /\ UNCHANGED <<db, disk, closed, dbOpen, allowed>>

\* GetByKey, second read: the record under that primary key, now.
FetchRead(c) ==
    /\ Calling(c, "fetch", {"getByKey"})
    /\ dbOpen
    /\ LET m == db.primary[op[c].seen]
       IN  Leave(c, IF m = NoRec THEN Err("notFound") ELSE Result("ok", m))
    /\ UNCHANGED <<db, disk, closed, dbOpen, allowed>>

\* Mutant: Update does not compare versions.
UpdateReadUnchecked(c) ==
    /\ Calling(c, "read", {"update"})
    /\ dbOpen
    /\ LET old == db.primary[M(c).id]
           new == [M(c) EXCEPT !.ver = @ + 1]
       IN  IF old = NoRec
           THEN Leave(c, Err("notFound"))
           ELSE op' = [op EXCEPT ![c].pc = "commit", ![c].args = <<new>>,
                                 ![c].batch = ReplaceRecord(old, new)]
    /\ UNCHANGED <<db, disk, closed, dbOpen, allowed>>

\* Update: read the record, compare versions, increment the caller's Version
\* and build the batch.
UpdateRead(c) ==
    /\ Calling(c, "read", {"update"})
    /\ dbOpen
    /\ LET old == db.primary[M(c).id]
           new == [M(c) EXCEPT !.ver = @ + 1]
       IN  CASE old = NoRec -> Leave(c, Err("notFound"))
             [] old # NoRec /\ old.ver # M(c).ver -> Leave(c, Err("conflict"))
             [] OTHER -> op' = [op EXCEPT ![c].pc = "commit",
                                          ![c].args = <<new>>,
                                          ![c].batch = ReplaceRecord(old, new)]
    /\ UNCHANGED <<db, disk, closed, dbOpen, allowed>>

\* Mutant: Delete of an absent record reports ErrMetadataNotFound.
DeleteReadStrict(c) ==
    /\ Calling(c, "read", {"delete"})
    /\ dbOpen
    /\ LET old == db.primary[M(c).id]
       IN  IF old = NoRec
           THEN Leave(c, Err("notFound"))
           ELSE op' = [op EXCEPT ![c].pc = "commit",
                                 ![c].batch = AddDeletion(EmptyBatch, old)]
    /\ UNCHANGED <<db, disk, closed, dbOpen, allowed>>

\* Delete: an absent record is success without a commit.
DeleteRead(c) ==
    /\ Calling(c, "read", {"delete"})
    /\ dbOpen
    /\ LET old == db.primary[M(c).id]
       IN  IF old = NoRec
           THEN Leave(c, Err("ok"))
           ELSE op' = [op EXCEPT ![c].pc = "commit",
                                 ![c].batch = AddDeletion(EmptyBatch, old)]
    /\ UNCHANGED <<db, disk, closed, dbOpen, allowed>>

\* Mutant: the loop of DeleteMany runs one iteration too far.
DeleteManyReadPastEnd(c) ==
    /\ Calling(c, "read", {"deleteMany"})
    /\ dbOpen
    /\ LET old == db.primary[M(c).id]
       IN  op' = [op EXCEPT
                    ![c].pc = IF op[c].next > Len(op[c].args) THEN "commit" ELSE "read",
                    ![c].next = @ + 1,
                    ![c].batch = IF old = NoRec THEN @ ELSE AddDeletion(@, old)]
    /\ UNCHANGED <<db, disk, closed, dbOpen, allowed>>

\* DeleteMany: one iteration of its loop; absent IDs are skipped and the
\* batch, empty or not, is committed after the last one.
DeleteManyRead(c) ==
    /\ Calling(c, "read", {"deleteMany"})
    /\ dbOpen
    /\ LET old == db.primary[M(c).id]
       IN  op' = [op EXCEPT
                    ![c].pc = IF op[c].next = Len(op[c].args) THEN "commit" ELSE "read",
                    ![c].next = IF op[c].next = Len(op[c].args) THEN @ ELSE @ + 1,
                    ![c].batch = IF old = NoRec THEN @ ELSE AddDeletion(@, old)]
    /\ UNCHANGED <<db, disk, closed, dbOpen, allowed>>

\* CreateMany: one iteration of its loop, which reads nothing from the
\* database; an invalid record drops the whole batch.
CreateManyBuild(c) ==
    /\ Calling(c, "build", {"createMany"})
    /\ IF ~Valid(M(c))
       THEN Leave(c, Err("invalid"))
       ELSE op' = [op EXCEPT
                    ![c].pc = IF op[c].next = Len(op[c].args) THEN "commit" ELSE "build",
                    ![c].next = IF op[c].next = Len(op[c].args) THEN @ ELSE @ + 1,
                    ![c].batch = AddRecord(@, M(c))]
    /\ UNCHANGED <<db, disk, closed, dbOpen, allowed>>

\* What a call does once its batch is durable or, without WALSync, visible.
Committed(o) == IF o.kind = "health"
                THEN [o EXCEPT !.pc = "probe"]
                ELSE [o EXCEPT !.pc = "return", !.res = Err("ok")]

\* Mutant: every call commits with pebble.NoSync, whatever Config.WALSync says.
CommitNoSync(c) ==
    /\ op[c].pc = "commit"
    /\ dbOpen
    /\ db' = Apply(db, op[c].batch)
    /\ op' = [op EXCEPT ![c] = Committed(@)]
    /\ allowed' = [i \in Ids |-> IF op[c].batch.primary[i] = Keep THEN allowed[i]
                                 ELSE allowed[i] \cup {op[c].batch.primary[i]}]
    /\ UNCHANGED <<disk, closed, dbOpen>>

\* batch.Commit (db.Set of a health check): the batch becomes visible at once;
\* with WALSync the call goes on waiting for the fsync.
Commit(c) ==
    /\ op[c].pc = "commit"
    /\ dbOpen
    /\ db' = Apply(db, op[c].batch)
    /\ op' = [op EXCEPT ![c] = IF WALSync THEN [@ EXCEPT !.pc = "syncing"]
                                          ELSE Committed(@)]
    /\ allowed' = [i \in Ids |-> IF op[c].batch.primary[i] = Keep THEN allowed[i]
                                 ELSE allowed[i] \cup {op[c].batch.primary[i]}]
    /\ UNCHANGED <<disk, closed, dbOpen>>

\* An access to the database reports an error, which ends the call: a read, or
\* batch.Commit, whose batch was not applied or is visible while its fsync
\* failed.  The Version that Update incremented in the caller's record stays
\* incremented.
AccessFails(c) ==
    /\ op[c].pc \in {"read", "fetch", "commit", "syncing", "probe"}
    /\ dbOpen
    /\ Leave(c, Err("io"))
    /\ UNCHANGED <<db, disk, closed, dbOpen, allowed>>

\* HealthCheck reads back the probe key it wrote.
ProbeRead(c) ==
    /\ op[c].pc = "probe"
    /\ dbOpen
    /\ Leave(c, Err("ok"))
    /\ UNCHANGED <<db, disk, closed, dbOpen, allowed>>

\* A database that was closed under a call panics on any access.
Panic(c) ==
    /\ ~dbOpen
    /\ op[c].pc \in {"read", "fetch", "commit", "probe"}
    /\ op' = [op EXCEPT ![c].pc = "panic"]
    /\ UNCHANGED <<db, disk, closed, dbOpen, allowed>>

\* The caller receives the result; from a success it knows what the IDs hold
\* that the call wrote.
Return(c) ==
    /\ op[c].pc = "return"
    /\ op' = [op EXCEPT ![c] = Idle]
    /\ allowed' = [i \in Ids |->
                     IF op[c].res.err = "ok" /\ op[c].batch.primary[i] # Keep
                     THEN {op[c].batch.primary[i]} ELSE allowed[i]]
    /\ UNCHANGED <<db, disk, closed, dbOpen>>

-----------------------------------------------------------------------------
(* The database on its own, Close, and the process. *)

\* Everything committed so far is on disk, and the calls that waited for it
\* go on.
Durable == /\ disk' = db
           /\ op' = [c \in Clients |-> IF op[c].pc = "syncing"
                                       THEN Committed(op[c]) ELSE op[c]]

\* The fsync of the WAL, or Flush().
Sync ==
    /\ dbOpen
    /\ disk # db \/ \E c \in Clients : op[c].pc = "syncing"
    /\ Durable
    /\ UNCHANGED <<db, closed, dbOpen, allowed>>

\* Close(), once: the flag is set, and then the database is closed.
CloseBegin ==
    /\ ~closed
    /\ closed' = TRUE
    /\ UNCHANGED <<db, disk, dbOpen, op, allowed>>

CloseEnd ==
    /\ closed
    /\ dbOpen
    /\ dbOpen' = FALSE
    /\ Durable
    /\ UNCHANGED <<db, closed, allowed>>

\* The process ends at any point (a crash, a panic, an exit after Close) and
\* NewPebbleMetadataRepository opens the same directory again, which settles
\* what the IDs hold.
Restart ==
    /\ db' = disk
    /\ closed' = FALSE
    /\ dbOpen' = TRUE
    /\ op' = [c \in Clients |-> Idle]
    /\ allowed' = [i \in Ids |-> {disk.primary[i]}]
    /\ UNCHANGED disk

-----------------------------------------------------------------------------

Init ==
    /\ db = EmptyDatabase
    /\ disk = EmptyDatabase
    /\ closed = FALSE
    /\ dbOpen = TRUE
    /\ op = [c \in Clients |-> Idle]
    /\ allowed = [i \in Ids |-> {NoRec}]

Step(c) ==
    \/ CreateRead(c) \/ GetRead(c) \/ IndexRead(c) \/ FetchRead(c)
    \/ UpdateRead(c) \/ DeleteRead(c) \/ DeleteManyRead(c)
    \/ CreateManyBuild(c) \/ Commit(c) \/ AccessFails(c) \/ ProbeRead(c)
    \/ Panic(c) \/ Return(c)

Next ==
    \/ \E c \in Clients, kind \in Kinds : \E args \in Requests(kind) :
          CallRefused(c, kind, args) \/ CallEmpty(c, kind, args) \/ Call(c, kind, args)
    \/ \E c \in Clients : Step(c)
    \/ Sync \/ CloseBegin \/ CloseEnd \/ Restart

Spec == Init /\ [][Next]_vars

-----------------------------------------------------------------------------
(* Properties. *)

Op == [pc: PCs, kind: AllKinds \cup {"none"}, args: Seq(Arg), next: Nat,
       batch: Batch, seen: Ids \cup {NoId},
       res: [err: Errors, m: Meta \cup {NoRec}]]

\* Type correctness of the repository's state: the loop counter of a call is a
\* position in its arguments, and a loop never runs on an empty list.
TypeOK ==
    /\ db \in Database
    /\ disk \in Database
    /\ closed \in BOOLEAN
    /\ dbOpen \in BOOLEAN
    /\ op \in [Clients -> Op]
    /\ \A c \in Clients : op[c].pc \in {"read", "build"} => op[c].next \in DOMAIN op[c].args
    /\ allowed \in [Ids -> SUBSET (Meta \cup {NoRec})]

\* Every record is indexed under its own location, and every index entry leads
\* to a record of that location.
Consistent(d) ==
    /\ \A i \in Ids : d.primary[i] # NoRec =>
          /\ d.primary[i].id = i
          /\ d.secondary[d.primary[i].loc] = i
    /\ \A l \in Locs : d.secondary[l] # NoId =>
          /\ d.primary[d.secondary[l]] # NoRec
          /\ d.primary[d.secondary[l]].loc = l

\* Under the discipline of Permitted, the primary records and the secondary
\* index agree in what readers see and in what a crash leaves, whatever calls
\* interleave: the batches decided by an earlier read are still right when
\* they commit, and an update that moves a record moves its index entry.
IndexConsistent == Consistent(db) /\ Consistent(disk)

\* With WALSync and the discipline of Permitted, an ID holds only what its
\* callers were told or are still waiting to hear of: a write that returned
\* nil is not lost, not by a crash, not by Close, not by another call, and a
\* write that failed is either done or not done.
AckedStored == \A i \in Ids : /\ db.primary[i] \in allowed[i]
                              /\ disk.primary[i] \in allowed[i]

\* Under the discipline of Permitted, a step that replaces the record of an ID
\* by another one raises its Version by exactly one; only a crash may undo
\* versions.
VersionAdvances ==
    [][\/ Restart
       \/ \A i \in Ids : db.primary[i] # NoRec /\ db'.primary[i] \notin {NoRec, db.primary[i]}
                         => db'.primary[i].ver = db.primary[i].ver + 1]_vars

\* Update is under optimistic concurrency control ("The Version field is
\* checked; if it doesn't match, ErrMetadataConflict is returned"), so the
\* commit of an Update replaces a record of the Version it was given.
UpdateReplacesItsVersion ==
    [][\A c \in Clients : Commit(c) /\ op[c].kind = "update"
          => /\ db.primary[M(c).id] # NoRec
             /\ db.primary[M(c).id].ver + 1 = M(c).ver]_vars

\* GetByKey "returns ErrMetadataNotFound if the record does not exist": when it
\* says so while no other call is in progress, no record is at that location.
NotFoundIsTrue ==
    [][\A c \in Clients :
          /\ IndexRead(c) /\ op'[c].res.err = "notFound"
          /\ \A d \in Clients \ {c} : op[d].pc = "idle"
          => \A i \in Ids : db.primary[i] # NoRec => db.primary[i].loc # M(c).loc]_vars

-----------------------------------------------------------------------------
(***************************************************************************)
(* The inductive invariant behind IndexConsistent.  A call that will still *)
(* write (Active) holds its IDs and target locations against the others    *)
(* (Separate), what it relies on in the database stays true (Relies), and  *)
(* its batch is a consistent change of the database as it is now, not only *)
(* as it was when the batch was built (Fits).                              *)
(***************************************************************************)
Active(c) == Writes(op[c].kind) /\ op[c].pc \in {"read", "build", "commit"}
Record(x) == x \notin {Keep, NoRec}

Separate ==
    \A c, d \in Clients : c # d /\ Active(c) /\ Active(d) =>
        /\ ArgIds(op[c].args) \cap ArgIds(op[d].args) = {}
        /\ Places(op[c].kind) /\ Places(op[d].kind) =>
              ArgLocs(op[c].args) \cap ArgLocs(op[d].args) = {}

Relies(c) ==
    /\ Places(op[c].kind) =>
         \A k \in DOMAIN op[c].args : op[c].args[k].loc # NoLoc =>
            db.secondary[op[c].args[k].loc] \in {NoId, op[c].args[k].id}
    /\ op[c].kind = "createMany" =>
         \A k \in DOMAIN op[c].args :
            /\ op[c].args[k].id \in Ids
            /\ db.primary[op[c].args[k].id] = NoRec
            /\ \A j \in DOMAIN op[c].args : j # k =>
                 /\ op[c].args[j].id # op[c].args[k].id
                 /\ op[c].args[j].loc # op[c].args[k].loc

\* The batch b of call c writes only IDs it holds.
HeldOnly(c, b) == \A i \in Ids : b.primary[i] # Keep => i \in ArgIds(op[c].args)

\* A record it stores is indexed.
Indexed(c, b) ==
    \A i \in Ids : Record(b.primary[i]) =>
        /\ Places(op[c].kind)
        /\ b.primary[i].id = i
        /\ \/ b.secondary[b.primary[i].loc] = i
           \/ /\ b.secondary[b.primary[i].loc] = Keep
              /\ db.primary[i] # NoRec
              /\ db.primary[i].loc = b.primary[i].loc

\* An index entry it sets is for a record it stores, on a location that it
\* holds and that is free or its own.
EntriesSet(c, b) ==
    \A l \in Locs, i \in Ids : b.secondary[l] = i =>
        /\ Places(op[c].kind)
        /\ l \in ArgLocs(op[c].args)
        /\ Record(b.primary[i]) /\ b.primary[i].loc = l
        /\ db.secondary[l] \in {NoId, i}

\* An index entry it deletes is that of a record it moves or deletes.
EntriesDeleted(b) ==
    \A l \in Locs : b.secondary[l] = NoId =>
        \E i \in Ids : /\ b.primary[i] # Keep
                       /\ db.primary[i] # NoRec
                       /\ db.primary[i].loc = l
                       /\ Record(b.primary[i]) => b.primary[i].loc # l

\* A record it moves or deletes does not leave its index entry behind.
NoEntryLeft(b) ==
    \A i \in Ids : b.primary[i] # Keep /\ db.primary[i] # NoRec =>
        \/ Record(b.primary[i]) /\ b.primary[i].loc = db.primary[i].loc
        \/ b.secondary[db.primary[i].loc] = NoId

Fits(c, b) == /\ HeldOnly(c, b) /\ Indexed(c, b) /\ EntriesSet(c, b)
              /\ EntriesDeleted(b) /\ NoEntryLeft(b)

\* What each program counter says of the call.
Stage(c) ==
    /\ op[c].pc = "build" =>
         /\ op[c].kind = "createMany"
         /\ \A k \in DOMAIN op[c].args : op[c].args[k].id \in Ids
         /\ \A i \in Ids : op[c].batch.primary[i] # Keep =>
               \E k \in DOMAIN op[c].args : k < op[c].next /\ op[c].batch.primary[i] = op[c].args[k]
         /\ \A l \in Locs : op[c].batch.secondary[l] # Keep =>
               \E k \in DOMAIN op[c].args : k < op[c].next /\ l = op[c].args[k].loc
    /\ op[c].pc = "read" =>
         /\ op[c].kind \notin {"createMany", "health"}
         /\ op[c].kind # "deleteMany" =>
              op[c].batch = EmptyBatch /\ op[c].next = 1 /\ Len(op[c].args) = 1
         /\ op[c].kind # "getByKey" => \A k \in DOMAIN op[c].args : op[c].args[k].id \in Ids
         /\ op[c].kind \in {"create", "update", "getByKey"} => op[c].args[1].loc \in Locs
         /\ op[c].kind = "update" => op[c].args[1].ver < MaxVer
    /\ op[c].pc = "fetch" => op[c].seen \in Ids
    /\ op[c].pc = "commit" => Writes(op[c].kind) \/ op[c].batch = EmptyBatch

IInv ==
    /\ TypeOK
    /\ Consistent(db)
    /\ Consistent(disk)
    /\ Separate
    /\ \A c \in Clients : Stage(c)
    /\ \A c \in Clients : Active(c) => Relies(c) /\ Fits(c, op[c].batch)
=============================================================================
