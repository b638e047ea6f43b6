# Verification of silora

silora keeps objects in an S3 store (MinIO) and their metadata in a local Pebble
database behind an in-memory cache. This directory holds TLA+ models of that code,
TLC configurations that check them on small instances, and proofs that TLAPS checks
for every instance. Paths below are relative to the repository (`internal/...`,
`cmd/...`); `PROJECT.json` maps every definition to the lines it models.

## 1. The system

| Component | State | Operations | Talks to |
|---|---|---|---|
| **Pebble repository** `internal/metadata/pebble/{repository,health}.go` | primary records `o:<id>`, secondary index `k:<bucket,key>` -> primary key, the flag `closed`, the WAL | Create, Get, GetByKey, Exists, Update, Delete, CreateMany, DeleteMany, List, HealthCheck, Flush, Compact, Close | Pebble (batches, fsync) |
| **Repository interface** `internal/metadata/{repository,types,errors}.go` | - | the same, as promises in comments | - |
| **Cached repository** `internal/metadata/cache` | Ristretto entries under `id:` and `bk:` keys, negative sentinels, a singleflight group | the same, as a decorator | repository, Ristretto |
| **Iterator and keys** `pebble/{iterator,keys}.go` | a Pebble iterator, a cursor, a count | Next, Value, Close; prefix and cursor bounds | Pebble |
| **Codec** `pebble/codec.go` | - | encode and decode a record | - |
| **Storage lifecycle** `internal/storage/miniostorage/{storage,list,health}.go` | `closed` (atomic), `active` (WaitGroup) | beginOp/finish around every operation, ObjectReader.Close, the listing goroutine, CheckHealth, Shutdown, Close | every storage operation |
| **Object and bucket operations** `miniostorage/{objects,buckets,errors}.go`, `internal/storage/{retry,errors}.go` | none of their own | Put/Get/Delete/Stat/Exists, bucket operations, Retryer.Do, mapError | the S3 server |
| **Multipart upload** `miniostorage/multipart.go` | a job channel, workers, the parts, the first worker error, a context | UploadMultipart | the S3 server |
| **Validation, configuration, client, metrics** | - | stateless, or read once at start | - |
| **Demonstration programs** `cmd/*` | what earlier runs left in store and repository | `cmd/cache`: upload, then record, with compensation; read both; delete both | storage and repository |

What is hard, and what makes each part correct:

- **Pebble repository.** There is no lock: every writing call reads, decides, and
  commits a batch later, so another call may commit in between, the database may be
  closed under it, and a crash may come between a commit and its fsync. Correct
  means: index and records agree, always and after a crash; what a caller was told is
  stored; versions advance one by one; calls look atomic.
- **Cached repository.** A store access and the cache writes after it are separate
  steps; Ristretto buffers, drops and evicts; a flight loads under one caller's
  context. Correct means: an entry is not stale between the writes to its key, except for
  reasons one can name.
- **Storage lifecycle.** An operation outlives its call (a reader, a listing
  goroutine), and Shutdown races with beginOp. Correct means: Shutdown drains what
  was registered, and returns; a listing that ends silently is complete.
- **Operations.** A request may take effect and its answer be lost. Correct means:
  a success is true, a body is stored whole, retries are neither too few nor without
  end.
- **Multipart upload.** A reader, workers and a cancellation, any of which can fail;
  sizes near the limits of parts, memory and int64. Correct means: only whole
  objects appear, nothing is left behind, the call ends, memory stays within a bound,
  and a stream is refused only for its size.
- **Listing.** The iterator walks a snapshot of the index and reads live records, and a
  caller pages from cursor to cursor while writers go on. Correct means: keys ascend and
  come once, what stands still is found, paging ends, and the bounds of a scan, which are
  byte strings, hold what the request asks for.
- **Codec.** Every access to a record goes through its bytes, where a field is found only
  by the lengths before it. Correct means: what was written is read, and what was cut off
  is not taken for a record.
- **Upload workflow.** Object and record are written to two systems without a
  transaction, by runs that may be killed. Correct means: an object without a record, or a
  record without an object, has one of a few known causes, and a whole run cleans up.

`PROJECT.json` lists the hazards one by one, each at the line where it bites, with
the properties that cover it.

## 2. Modules

| Module | Models | Correspondence |
|---|---|---|
| `PebbleRepository` | `pebble/repository.go`, `health.go` | `db` is what reads see, `disk` what survives a crash; a batch maps every ID and location to a new value or `Keep`. `op[c]` is the call of goroutine `c`: its `pc` names its next access to the database (`read`, `fetch`, `build`, `commit`, `syncing`, `probe`), and each access is one action. `AccessFails` is any error of an access; `Sync`, `CloseBegin`, `CloseEnd`, `Restart` and `Panic` (Pebble panics once closed) are the environment. `allowed` is history: what each ID may hold by what its callers heard. |
| `MetadataRepository` | the interface's comments | Every call takes effect in one step (`Perform`) between `Invoke` and `Respond`; a crash may undo what nobody was told of. |
| `PebbleImplements` | - | The refinement mapping from the first to the second. |
| `CachedRepository` | `cache/{repository,cache,ristretto,keys}.go` | `store` is the decorated repository, taken as atomic; `cell` and `pending` are Ristretto's entries and its buffer, `flight` the singleflight leaders. `tainted` is history: the keys an entry of which may be stale for a known reason. |
| `StorageLifecycle` | `miniostorage/{storage,list,health}.go`, the ends of the others | `count` is the WaitGroup, `call[p]` an operation with what outlives it, `stop[s]` a Shutdown. `Begin` and `Register` are the two steps of beginOp. |
| `RetriedOperations` | `objects.go`, `buckets.go`, `retry.go`, both `errors.go` | One call per goroutine, `Attempt`/`Decide`/`Wait` are the loop of Retryer.Do, and `Served`/`AnswerLost`/`NotServed` what becomes of a request. |
| `PartPlan` | `multipart.go:316-366`, `config.go` (multipart settings) | `choosePartSize`, `chooseConcurrency`, `Normalize`, `Validate` as operators, with the limits as constants and int64 that wraps at `MaxInt`. |
| `MultipartUpload` | `multipart.go` | `cfg` and `req` are the call, `partSize` and `concurrency` what `PartPlan` makes of them; `pc` is the calling goroutine, `queue` is jobCh, `worker[w]` the part in each worker's hands, `held` what the reader returned last and what is left of its stream; `upload` and `object` are the server's. |
| `KeySchema` | `pebble/keys.go`, the string helpers of `codec.go`, the bounds of List | Keys are sequences of bytes; `Before` is Pebble's order; `encodeSecondaryKey`, `decodeSecondaryKey`, `incrementBytes` and the bounds byte by byte. |
| `RecordCodec` | `pebble/codec.go` | A record as its fields one after another: `Written` is the buffer after each append, `Ends` the `pos` after each read. Its custom metadata is written in any order (`Ranged`), as Go ranges over a map. |
| `PebbleListing` | `List` in `pebble/repository.go`, `pebble/iterator.go` | `iter` is the iterator: `ahead` is the part of its snapshot that it has not walked yet; `cursor` is what the caller keeps. Writers commit as `PebbleRepository` shows they do under its discipline. |
| `UploadWorkflow` | `cmd/cache/main.go` | The composition: a step is one call of the store or the repository, with the outcomes that their own models show; `run` is the process, `late` the requests that outlive their calls, `past` is history. |
| `PebbleRepositoryProofs`, `PebbleImplementsProofs`, `PebbleListingProofs`, `CachedRepositoryProofs`, `MultipartProofs`, `LifecycleProofs`, `OperationsProofs`, `WorkflowProofs` | - | The proofs of section 5. |
| `MC*` | - | Instances for TLC: the symmetry sets, the keys, the uploads; sample records, on which TLC evaluates `RecordCodec` with every `listing` run. |

Abstractions that all share. A (bucket, key) pair is one value and a record is its
ID, its location and its Version, because no code branches on the rest; only in
`KeySchema`, `RecordCodec` and `PebbleListing`, where their bytes matter, are they byte strings. Errors are
the classes the code tells apart. Metrics, logging and tracing are left out.
Operators commented `Mutant:` are not part of a model: each is a plausible bug of the
definition below it, used to make sure that a property can fail.

## 3. Runs

Passing runs:

| Run | Instance | Shows | Why the bounds are enough |
|---|---|---|---|
| `pebble_writers` | 2 goroutines, 2 IDs, 2 locations, Version up to 2, batches up to 2, WALSync | `IndexConsistent`, `AckedStored`, `VersionAdvances`; `IInv` holds, before it is used in a proof | two calls are what a read and a commit need to interleave; two locations let a record move and be met by another; two records make a batch partial |
| `pebble_implements` | the same, with Get for GetByKey | `ImplementsInterface`: calls are linearizable, crashes included | as above |
| `cache` | 2 goroutines, 2 IDs, 2 locations, 2 places in Ristretto's buffer | `EntriesFresh` | one goroutine that writes and one that reads or writes; an old entry that is still buffered when its key is deleted, with the deletion behind it, and then the deletion with the new entry behind it; a full buffer, which holds up deletions and drops entries; a location that one record leaves and another takes |
| `lifecycle` | 2 operations of any kind, 1 Shutdown, listings of 2 objects through a channel of 1 | `EarlyCallsDrained`, `ListingComplete`, `ShutdownReturns` | the channel fills up and blocks the goroutine; nested registrations occur |
| `multipart` | parts of 7 to 9 bytes, at most 7; 1 to 3 workers; 3 configurations, 13 streams; integers up to 80; 2 attempts to complete | `ObjectWhole`, `NothingLeftBehind`, `MemoryBounded`, `TooLargeExplained`, `UploadEnds` | six parts fill the channel and all workers at once; streams at the edges of one part and of seven, of unknown, right and wrong declared length, larger than seven of the largest parts, and so large that the sum wraps |
| `listing` | 2 records, 2 buckets, 2 keys of which one begins with the other and with bytes 0xFF, pages of 1 and 2, the empty prefix and one of a key's length | `KeysAscend`, `ListingComplete`, `ReadsExplained`, `ListingEnds` | a page that is full, a next one, and a record that moves from before the cursor to behind it or back; an increment that has to carry; a cursor of another bucket or prefix |
| `workflow` | 3 runs of `cmd/cache`, 2 late requests | `RecordsBacked`, `OrphansExplained`, `DoneIsClean`, `ReadsOwnObject` | one run leaves something, another meets it, and a third meets both, with the request of either arriving in between |
| `operations` | 2 calls of any kind, 1 key, 3 attempts | `BodiesWhole`, `SuccessIsTrue`, `AllAttemptsMade`, `CallsEnd` | a first, a middle and a last attempt differ; the second call undoes what the first one did |

Runs that end in a violation show where the code departs from what the repository
says of it:

| Run | Violated | What the trace shows |
|---|---|---|
| `v_lost_update` | `UpdateReplacesItsVersion` | Two Updates of one version both succeed, one is lost; the comment promises optimistic concurrency control. |
| `v_index_stolen` | `NotFoundIsTrue` | Two records at one location: deleting one takes the index entry of the other, and GetByKey denies a record that is there. |
| `v_prefix` | `PrefixFilters` | A listing with prefix "a" does not find the key "ab": the bounds contain the length of the prefix where a key has its own. |
| `v_shutdown` | `ShutdownWaits` | An operation between the two steps of beginOp registers after Shutdown has returned nil. |

Where the models follow the code and no run of their own shows the departure:

- **Uploads of exactly 10000 parts are refused.** `choosePartSize` raises the part size so
  that the object has at most 10000 parts, and then it always has exactly 10000
  (`RaisedPartsAreRefused`); the read loop refuses the upload once `partNumber` is 10001,
  before it sees that the stream is over (`multipart.go:133`). So no object of a declared
  size above 10000 parts of the size asked for can be uploaded, and the refusal comes
  after all of it was read and sent. `TooLargeExplained` states both halves.
- **Memory.** `Validate` and `chooseConcurrency` count `concurrency` parts; the channel, the
  workers and the reader hold up to `2 * concurrency + 1`. `MemoryBounded` is the true bound.
- **The declared size is not compared** with what is read: a longer or a truncated stream is
  stored, and a reader of a declared size of zero is not read (`ObjectWhole` says so).
- **`CreateMany` looks at nothing before it writes**, although the interface promises
  ErrMetadataAlreadyExists (`CreateManyBuild`, outside of `Permitted`).
- **`Delete` in the cache ignores the error of its first read**, and then leaves the entry of
  the location (a cause of staleness in `EntriesFresh`).
- **A listing whose first read fails returns the empty iterator and no error**
  (`repository.go:462`; `blind` in `PebbleListing`); keys of a bucket come ordered by length
  first; `IncludeDeleted` has no effect; a cursor taken after Close is empty.
- **The compensation of `cmd/cache`** deletes the object after any error of Create, also one
  that was reported for a record that is stored: that is the one way in which a run makes
  a record without an object (`RecordsBacked`).

Bounds, by name. `MaxVer` ends the Updates of a record; an Update of the last version
is not enabled. `MaxBatch` bounds CreateMany and DeleteMany. `MaxDoubt` bounds how
many values an ID may hold for all its callers know: no new write starts on an ID
with more, so histories with several unheard failures in a row on one ID are cut.
`MaxPending` is the capacity of Ristretto's buffer, which all keys share (2 for 32768).
`MaxTainted` = 0 lets no call start once an entry may be stale; the calls in progress go on, and the staleness itself does no harm to
the other keys, so longer histories add only states in which less is claimed. The
`cache` run leaves out Get, which is GetByKey without the second entry, and the batches
(`MaxBatch` = 1): CreateMany and DeleteMany make the same cache writes record after record.
With them, and a buffer of two places, the run would not end in minutes; one place would be
too few, for no deletion is then buffered behind an entry. `EntriesAreFresh` is proved for
every operation, batch and capacity. `MinPartSize`, `MaxPartSize`, `MaxParts` (7, 9 and 7 for
5 MiB, 5 GiB and 10000), `MaxConcurrency` (3 for 1000) and `MaxInt` (80 for 2^63 - 1) keep the relations that
`PlanAssumption` names. `DefaultListLimit` and `MaxListLimit` are 1 and 2 for 100 and 10000.
`MaxLate` bounds the requests of `cmd/cache` that are still on their way. `Kinds` names the operations of a run: HealthCheck
and GetByKey are in `pebble_writers`, Get in `pebble_implements`; Exists is the same read as Get.
Deadlock is not checked: the systems stop when the callers do, Pebble when
a goroutine panicked and nothing restarts it, a multipart upload when it returned.
What would be a deadlock within them is what the liveness properties exclude.

Symmetry is used in runs of invariants, action properties and the refinement of a
specification without fairness, never with liveness: no definition tells
clients, IDs or locations apart, and what a CHOOSE picks is unique.

## 4. Fairness

- `lifecycle` (`Fairness`): the goroutines of operations and the server make
  progress (requests have timeouts); the caller of GetObject closes its reader, as
  `internal/storage/types.go:115` demands; the caller of ListObjects receives until
  its context is over. Nothing makes a caller cancel, and Shutdown's own deadline
  is not assumed to pass. Without the last two assumptions
  Shutdown waits for its deadline, which is what the code documents.
- `multipart` (`FairSpec`): the calling goroutine and each worker make progress. For
  the caller's reader that means it returns, and that it does not
  return io.ErrUnexpectedEOF with no bytes for ever: readPart drops that error and
  the loop at `multipart.go:142-151` would spin.
- `listing` (`FairSpec`): the caller reads on and pages on until its listing is over; nothing
  is assumed of the writers, and List may fail at any page.
- `operations` (`FairSpec`): goroutines run, timers fire, every request is answered or
  times out. The server may fail every request: only the bound on attempts ends a call.

The repository, the cache and the workflow are checked for safety only; their calls do not
wait for one another except in a flight, and a run of the workflow may stop anywhere.

## 5. What is proved

From `ConstantsAssumption` (the sentinels differ from the data, the bounds are
numbers), for any sets of goroutines, IDs and locations, any bounds, any
subset of the operations, with and without WALSync:

- `PebbleRepositoryProofs!TypeCorrect`: `Spec => []TypeOK`. `TypeOK` says more than
  types: the position of a CreateMany or DeleteMany in its arguments is always valid.
  It is not inductive alone. The invariant behind it (`TInv`) adds what each program
  counter says of the call (`Stage`: what kinds are at `read`, that their arguments
  name IDs, that an Update is below the bound). One lemma per action, then `NextType`.
- `PebbleRepositoryProofs!IndexCorrect`: if `Exclusive`, then `Spec => []IndexConsistent`; and
  `BatchesStayFit`: then `Spec => []IInv`, the invariant that carries it.
  `IndexConsistent` is not inductive: whether a commit keeps the index right
  depends on a batch that was computed earlier, from a database that has changed
  since. `IInv` adds exactly what has to survive the time between:
  - `Separate`: two calls that will still write hold different IDs, and different
    target locations;
  - `Relies`: the locations a call will use are free or its own, the
    records CreateMany will create are absent;
  - `Fits`: the batch, applied to the database as it is *now*, changes index and records
    together: entries it sets are for records it stores, entries it deletes belong to
    records it moves or deletes, and no entry is left behind.

  `CommitConsistent` shows that a batch that fits keeps the database consistent, and
  `CommitKeepsOthers` that it leaves the batches of all other calls fitting, because
  they are about other IDs and locations. The rest is one lemma per action that
  builds a batch, and `NextIInv` puts them together.
- `PebbleImplementsProofs!VersionsRise`: if `Exclusive`, then `Spec => VersionAdvances`.
  `WInv` adds to `IInv` that a call holds its IDs until its caller has the result, also
  after its batch is visible (`Apart`; `Separate` says it only of calls that will still
  write), that a batch touches no ID but those of its call (`Held`), and that the Version
  Update compared with is still the stored one when its batch commits (`Advancing`).
- `PebbleImplementsProofs!NothingAckedIsLost`: if `Exclusive` and `WALSync`, then
  `Spec => []AckedStored`. `Landed` adds where the batch of a call is: what it wrote is what
  readers see while the call waits for its fsync, and what the disk has when the call is about
  to return nil; nobody wrote over it, by `Apart`.
- `PebbleImplementsProofs!RepositoryImplementsInterface`: if `Exclusive` and `WALSync`, and
  without GetByKey, then `Spec => ImplementsInterface`: `Init` maps to `Init`, and
  `StepRefines` maps every step to a step of `MetadataRepository` or to a stutter. A call of
  the interface decides by the records as they are when it takes effect; the repository
  commits a batch that it made of earlier reads. `Effect` says that both come to
  the same: at any moment the batch, as far as it has been made, is what the interface
  would do with the arguments it reflects (`Through`) and the records of that moment.
  `Underway` says which kinds of call can be at which step. One lemma per action of the
  repository shows which action of the interface it is: `EntersRefines` `Invoke`, `Reject` or
  `Nothing`, the reads that decide a call and the commits `Perform`, a failed access `Reject` or
  `Doubt`, `Return` `Respond`, `Restart` `Crash`; what is left is unseen.

`Exclusive` is an assumption about callers, not about the repository: calls that write
overlap only on different IDs and locations, a record goes to no location that
another one occupies, CreateMany gets new records (`Permitted`). `cmd/cache` and the
concurrency test of the repository behave so. The runs
`v_lost_update` and `v_index_stolen` drop it and show why it is needed: the repository
does not enforce it.

From nothing but the definitions of `KeySchema`, in `PebbleListingProofs`, about all byte strings:

- `IncrementScan`: what lies from a byte string that has a byte below 0xFF up to
  `incrementBytes` of it are exactly the strings that begin with it. The bounds of a listing
  are of this form, hence `BucketScan` (a bucket's keys and no others), `CursorScan` (a page
  from a cursor holds exactly the keys after it) and `PrefixScan` (a prefix listing holds
  exactly the one key that equals the prefix, which is why `v_prefix` fails).
- `SecondaryKeyInjective` and `KeyRoundTrip`: below 2^16 and 2^32 bytes, different locations
  have different keys and a key decodes to what it was made of. Above, the length fields
  wrap and neither holds.

From nothing but the definitions of `RecordCodec`, in `PebbleListingProofs`, about all records and
all byte strings:

- `RecordRoundTrip`: a record that encodeMetadata accepts and whose strings fit their length
  fields (`StringsFit`) is decoded as it was written, in whatever order its metadata was ranged
  over and whatever bytes stand behind it.
- `TruncationIsSeen`: cut off at any byte, such a record is decoded to ErrMetadataCorrupted.
- `DecodedFits` and `LongStringsAreLost`: what is decoded has only strings that fit, from
  whatever bytes; so a record with a longer one is read back from none. Of ID, content type,
  ETag, checksum and metadata keys, 2^16 bytes are too many, and neither `Validate`
  (`internal/metadata/types.go:50-65`) nor encodeMetadata looks at their lengths: Create stores such
  a record, and what Get finds is another record or an error.

The buffer (`Written`) and the ends of the fields (`Ends`) are recursive functions. That they are
what they are defined as, for data of every length, is not by a theorem of the library, which takes
an operator as its parameter: `FromZero` is induction for a set of numbers, from the least number
outside it, and `Recursion` builds the function from its beginnings. `EndsMeet` is the heart of
the rest: reading data that agrees with a written record, as far as both go, meets the end of
each field, or the end of the data when that comes first. `FieldsRead` has the fields from it,
`CountRead` the number of entries, `RecordRebuilt` the record.

From `ListingAssumption` of `PebbleListing` and `NamesFit`, in `PebbleListingProofs`, for any
records, buckets, keys, prefixes and limits: `PagesAscend` (`Spec => KeysAscend`),
`NothingIsSkipped` (`Spec => []ListingComplete`), `ReadsAreExplained` (`Spec => []ReadsExplained`)
and `TypeCorrect`, which are all the safety properties of the `listing` run. `NamesFit` says
that bucket names are shorter than 2^16 bytes and keys shorter than 255 * 2^24, as those of at most `MaxBucketLength`
and `MaxKeyLength` bytes are (`internal/metadata/types.go:99-103`); the IDs are finitely many,
without which an iterator need have no next entry (`LeastOf`). The theorems about bytes show
that the order of keys is total (`BeforeTotal`, `BeforeTransitive`) and what a scan holds
(`BoundsFind`, `CursorScan`). `IInv` adds what an iterator and a caller have between them:

- `OnePlace` and `Snapshot`: no two records at one place, now and when the snapshot was taken;
- `Turns`: who has the listing, and that an iterator that is exhausted has nothing ahead;
- `Behind`: what was visited lies before all that is ahead, and the iterator's last key, or the
  cursor between two pages, is the key of the last place visited;
- `Asked`: what was visited or is ahead is what the request finds;
- `Awaited`: a record that stands still and was not visited is ahead, in the snapshot of this
  page or behind the cursor; the next page takes over what the last one left (`CoveredNext`);
- `Current`: an entry ahead that does not agree with its record is of one that changed.

From `ConstantsAssumption` of `CachedRepository`, in `CachedRepositoryProofs`, for any goroutines,
IDs, locations, versions, batches and buffer capacities, with and without records that move:

- `EntriesAreFresh`: `Spec => []EntriesFresh`. The property speaks of a key only when all is
  quiet; what it needs in between is `Fresh`: a key that is not tainted is either settled or
  some call has its deletion still to make (`Invalidates`). `Settled` says that the last
  buffered deletion of the key, if there is one, is followed by fresh entries only, and if
  there is none, that the entry itself is fresh: whatever Ristretto applies, rejects or
  evicts then, no stale entry comes back. A deletion settles its key whatever was there
  (`DeleteSettles`), and a Set of the present value keeps it settled (`SetSettles`). `IInv` adds:
  - `Overlaps`: calls that touch a key together, one of them writing, have tainted it, with
    all else they touch; so on the others a call is alone between its store access and its
    last cache write;
  - `Todo`: what a call has still to Set under an untainted key is what the store holds
    there, and all its writes are under keys it touches;
  - `Knows` and `Finds`: a Delete touches the location of every record it looked at, or it is
    tainted, and such a record is still there when the deletion commits;
  - `Fits` and `OnePlace`: records go to places that are free or their own, so that a
    location has one value.

  The step that matters is the commit (`StoreWriteIInv`): `ValueAfter` says which keys get
  which value, and `WritesAfter` that the call has a deletion to make for each
  key it touches, and Sets only the new value under those that are not tainted. In particular the keys whose
  value changes are covered by the cache writes of the call, except the locations that
  records leave (`Left`).
- `TypeCorrect`: `Spec => []TypeOK`, of which the last part is that the leader of a flight is a
  call that loads or fills, and the other way round: no flight outlives its leader, so
  nobody waits for a result that never comes. That the buffer stays within its capacity is
  an induction of its own (`BufferBounded`): a write takes a place of which there was one to
  take (`BufferGrows`), and what Ristretto applies gives one back (`BufferKept`).

From `PlanAssumption`, in `MultipartProofs` (limits are positive and ordered, and products of the limits do not
overflow), about all sizes, requests and configurations:

- `PartSizeInRange`, `ObjectFits`, `RaisedPartsAreRefused` and `WorkersFitBudget` say what
  `choosePartSize` and `chooseConcurrency` return. The arguments are division with
  remainder, and that the sum before the division does not wrap where it matters.

From `PlanAssumption` and `ConstantsAssumption`, in `MultipartProofs`, for any number of
parts and workers, any configurations and any streams:

- `OnlyWholeObjects`, `NothingIsLeftBehind`, `MemoryIsBounded`, `TooLargeHasReason` and
  `TypeCorrect`: `Spec => []P` for every invariant of the `multipart` run. None of the first
  four is inductive. `IInv` adds:
  - `Control`: outside of reading, sending and joining the workers are idle and the channel
    is empty; an error means that the context is over;
  - `Outcome`: when the object may exist, and when an open upload counts as lost;
  - `Accounts`: a part number is below `next` exactly if the part is uploaded, queued or
    in a worker's hands, as long as nothing was cancelled (afterwards parts may be
    missing, and before `Join` none can be too many);
  - `Bytes`: how much of the stream `next` parts are.

  A step of a worker changes neither the calling goroutine nor the store (`WorkerStep`), so
  its lemmas are about `Accounts` only. `MemoryIsBounded` needs no more than `TypeOK`,
  `WorkersFitBudget` and that busy workers are workers (`BusyWorkers`).

From `ConstantsAssumption` of `StorageLifecycle`, in `LifecycleProofs`, for any number of
operations and of Shutdowns, listings of any length and channels of any capacity:

- `ShutdownDrains`: `Spec => []EarlyCallsDrained`. The argument is that the counter of the
  WaitGroup is the number of registrations (`Tokens`, one pair per registration, of which an
  upload may have two), so a counter of zero means that nothing is registered
  (`NothingHeld`). `Draining` adds that an early call is registered or over, and that a call
  that is over cannot begin again while `closed` is set; that the counter is zero for a moment
  only, and late operations register again, does no harm. Every step of an operation
  is one of three kinds, `QuietStep`, `AddStep` or `DoneStep`.
- `ListingsComplete`: `Spec => []ListingComplete`. `Lists` counts where the objects of a listing
  are (at the server, in the goroutine's hand, in the channel, at the consumer); their sum
  changes only when the context is over, and an error item is the last of its channel.
- `TypeCorrect`: `Spec => []TypeOK`; that the counter is never negative follows from `Tokens`.

From `ConstantsAssumption` of `RetriedOperations`, in `OperationsProofs`, for any number of
callers, keys and attempts: `OnlyWholeBodies`, `SuccessesAreTrue`, `NobodyGivesUpEarly` and
`TypeCorrect`, which are all the invariants of the `operations` run. `IInv` adds to the types
what is true of a call in the middle of its retries: one that waits has attempts left and is
of a kind that is retried (`Proceeds`), a body is at its start when its request leaves
(`Rewound`), and what a call that is over may report (`Reports`).

From `WorkflowAssumption`, in `WorkflowProofs`, for any number of runs of `cmd/cache` and of
requests that outlive them: `RecordsAreBacked`, `OrphansAreExplained`, `DoneMeansClean`,
`RunsReadTheirOwn` and `TypeCorrect`, which are all the invariants of the `workflow` run.
The history of a run is not enough to carry them from step to step. `IInv` adds:

- `Place`: what a run may rely on at each of its seventeen steps, for instance that its
  object is there or a late request took it, or, after it deleted both, that what is there
  now came late;
- `LateUploads`: an upload that is still on its way is that of a run that has failed and has
  no record, which is why it can neither back a record nor take part in its own run's steps;
- `Undoable`: what the end of the process may take back: at most the record that this run
  created, and at most bring back one whose object is known to be gone;
- `Fresh`: a run that has not started has left nothing.

Every invariant and action property of the passing runs and the refinement are thus proved.
Only model-checked: the liveness properties (`ShutdownReturns`, `UploadEnds`, `ListingEnds`,
`CallsEnd`), because the proof system covers neither ENABLED nor fairness.
`MetadataRepository` without a client discipline is not refined, as `v_lost_update` shows,
and the four runs that end in a violation have nothing to prove.

## 6. What is not modelled

- **Compact**: rewrites files, changes nothing a caller sees.
- **GetByKey and List in the interface**: their reads are not atomic, and the comments do
  not say what they may return beside a concurrent writer; they are in
  `PebbleRepository` and `PebbleListing`, not in `MetadataRepository`.
- **The loss of single bytes, a corrupted record, a failing disk that lies about fsync**:
  Pebble is taken at its word.
- **The decorated repository inside `CachedRepository`** is atomic, and follows
  `Permitted` for locations; its own interleavings are the matter of `PebbleRepository`.
  The cached repository's HealthCheck uses a key of its own, its List bypasses the cache, and
  its Close ends the cache and then the repository.
- **The other programs** under `cmd/` are scripts of single calls.
- **Validation, configuration other than the multipart settings, transport, metrics,
  tracing**: no state, or observation only.
- **Elapsed time**: timeouts, backoff and TTL may fire at any moment.

## 7. What could follow

- A run of the cache with one key tainted, and the flight's result handed to its followers.

## 8. Running

    tlc -workers 2 -config pebble_writers.cfg MCPebbleRepository.tla
    tlapm PebbleRepositoryProofs.tla

`PROJECT.json` names the module and the configuration of every run. The passing runs
take from ten seconds to three minutes each.
