--------------------------- MODULE MultipartUpload ---------------------------
(***************************************************************************)
(* Storage.UploadMultipart: the calling goroutine reads the stream part by *)
(* part and feeds a channel of jobs, workers upload the parts, the first   *)
(* error cancels the rest, and the upload is completed or aborted.         *)
(*                                                                         *)
(* A part is its number, a stream its length.  The object store is         *)
(* external: an upload is open until it is completed or aborted, and the   *)
(* answer to a request may be lost after the request took effect.          *)
(***************************************************************************)
EXTENDS Integers, Sequences, FiniteSets, PartPlan

CONSTANTS
    Configs,      \* the multipart configurations that are given
    Uploads,      \* the calls: the request, and the length of its stream
    MaxAttempts   \* Config.Retry.MaxAttempts, of the request that completes

Upload == [size: Int, partSize: Int, concurrency: Int, length: Nat]

ASSUME ConstantsAssumption ==
    /\ Configs \subseteq MultipartConfig
    /\ Uploads \subseteq Upload
    /\ MaxAttempts \in Nat \ {0}

VARIABLES
    cfg,        \* the configuration of the storage
    req,        \* the call
    partSize, concurrency,  \* what is chosen for it
    pc,         \* where the calling goroutine is
    next,       \* partNumber
    held,       \* what the reader returned last, how it ended, and what is left to read
    queue,      \* jobCh
    worker,     \* the part each worker uploads, 0 if none
    parts,      \* the parts that were uploaded
    cancelled,  \* the upload's context is over
    workerErr, readErr,
    attempt,    \* the attempts to complete
    result,     \* what the call returns
    upload,     \* the multipart upload in the object store
    object,     \* the parts of the object in the object store
    lost        \* history: a failed request to create or abort the upload left it open

setup  == <<cfg, req, partSize, concurrency>>
main   == <<pc, next, held, readErr, attempt, result>>
pool   == <<worker, parts, workerErr>>
server == <<upload, object, lost>>
vars   == <<setup, main, queue, pool, cancelled, server>>

-----------------------------------------------------------------------------

NoObject == {0}
Jobs == 1..MaxParts
Workers == 1..concurrency

\* How readPart ended: the buffer was filled, the stream ended within it, the
\* reader itself reported io.ErrUnexpectedEOF (its source was truncated), which
\* readPart takes for the end of the stream, or the reader failed after some bytes.
Ends == {"full", "short", "truncated", "failed"}

Errors == {"none", "canceled", "tooLarge", "read", "part", "complete", "put", "init"}

-----------------------------------------------------------------------------
(* The calling goroutine: NewMultipartUpload, then the read loop. *)

\* A size of zero: the stream is not looked at, an empty object is put.
CreateNothing ==
    /\ pc = "init" /\ req.size = 0
    /\ pc' = "putting"
    /\ UNCHANGED <<next, held, readErr, attempt, result, queue, pool, cancelled, server>>

Create ==
    /\ pc = "init" /\ req.size # 0
    /\ upload' = "open"
    /\ pc' = "reading"
    /\ UNCHANGED <<next, held, readErr, attempt, result, queue, pool, cancelled, object, lost>>

\* Nothing was created, or it was and the answer was lost: its ID is unknown
\* then, and nothing is aborted.
CreateFails ==
    /\ pc = "init" /\ req.size # 0
    /\ upload' \in {"none", "open"}
    /\ lost' = (upload' = "open")
    /\ pc' = "done" /\ result' = "init"
    /\ UNCHANGED <<next, held, readErr, attempt, queue, pool, cancelled, object>>

\* The loop breaks: with err, which cancels the workers, or without.
Break(err) ==
    /\ pc' = "joining"
    /\ readErr' = IF err = "none" THEN readErr ELSE err
    /\ cancelled' = (cancelled \/ err # "none")

ReadCanceled ==
    /\ pc = "reading" /\ cancelled
    /\ Break("canceled")
    /\ UNCHANGED <<next, held, attempt, result, queue, pool, server>>

\* One part too many.  The end of the stream is not looked for first, so this
\* refuses a stream of exactly MaxParts parts as well.
ReadTooLarge ==
    /\ pc = "reading" /\ ~cancelled /\ next > MaxParts
    /\ Break("tooLarge")
    /\ UNCHANGED <<next, held, attempt, result, queue, pool, server>>

\* The reader has bytes.
ReadPart ==
    /\ pc = "reading" /\ ~cancelled /\ next <= MaxParts
    /\ held.left > 0
    /\ \E end \in Ends :
          /\ end = "full"  => held.left >= partSize
          /\ end = "short" => held.left < partSize
          /\ held' = [part |-> next, end |-> end,
                      left |-> IF end = "full" THEN held.left - partSize ELSE 0]
    /\ pc' = "sending"
    /\ UNCHANGED <<next, readErr, attempt, result, queue, pool, cancelled, server>>

\* No byte, and io.ErrUnexpectedEOF, which readPart drops: the loop goes on.
ReadNothing ==
    /\ pc = "reading" /\ ~cancelled /\ next <= MaxParts
    /\ held.left > 0 \/ held.end = "truncated"
    /\ held' = [held EXCEPT !.end = "truncated", !.left = 0]
    /\ UNCHANGED <<pc, next, readErr, attempt, result, queue, pool, cancelled, server>>

\* No byte is left.
ReadEOF ==
    /\ pc = "reading" /\ ~cancelled /\ next <= MaxParts
    /\ held.left = 0
    /\ Break("none")
    /\ UNCHANGED <<next, held, attempt, result, queue, pool, server>>

\* The reader fails before the first byte of a part.
ReadFails ==
    /\ pc = "reading" /\ ~cancelled /\ next <= MaxParts
    /\ Break("read")
    /\ UNCHANGED <<next, held, attempt, result, queue, pool, server>>

\* After the select: the loop ends if the reader had failed, else it goes on.
\* A part that was dropped because the context is over does not break the loop.
AfterSend(err) ==
    /\ held' = [held EXCEPT !.part = 0]
    /\ IF held.end = "failed"
       THEN Break("read") /\ UNCHANGED next
       ELSE /\ pc' = "reading" /\ next' = next + 1
            /\ readErr' = IF err = "none" THEN readErr ELSE err
            /\ UNCHANGED cancelled

\* Mutant: a channel that takes any number of jobs.
SendUnbounded ==
    /\ pc = "sending"
    /\ queue' = Append(queue, held.part)
    /\ AfterSend("none")
    /\ UNCHANGED <<attempt, result, pool, server>>

Send ==
    /\ pc = "sending"
    /\ Len(queue) < concurrency
    /\ queue' = Append(queue, held.part)
    /\ AfterSend("none")
    /\ UNCHANGED <<attempt, result, pool, server>>

SendCanceled ==
    /\ pc = "sending" /\ cancelled
    /\ AfterSend("canceled")
    /\ UNCHANGED <<queue, attempt, result, pool, server>>

-----------------------------------------------------------------------------
(* The workers. *)

\* A worker receives a job.  Once the context is over it drops what is queued.
Take(w) ==
    /\ w \in Workers /\ worker[w] = 0 /\ queue # << >>
    /\ queue' = Tail(queue)
    /\ worker' = [worker EXCEPT ![w] = IF cancelled THEN 0 ELSE Head(queue)]
    /\ UNCHANGED <<main, parts, workerErr, cancelled, server>>

\* The part is stored, after up to MaxAttempts requests; a request that was on
\* its way when the context ended may still succeed.
PartDone(w) ==
    /\ w \in Workers /\ worker[w] \in Jobs
    /\ parts' = parts \cup {worker[w]}
    /\ worker' = [worker EXCEPT ![w] = 0]
    /\ UNCHANGED <<main, queue, workerErr, cancelled, server>>

\* Mutant: an error stops the worker and nothing else.
PartFailsAlone(w) ==
    /\ w \in Workers /\ worker[w] \in Jobs
    /\ worker' = [worker EXCEPT ![w] = -1]
    /\ workerErr' = "part"
    /\ UNCHANGED <<main, queue, parts, cancelled, server>>

\* setWorkerErr: the first error is kept and cancels the upload.
PartFails(w) ==
    /\ w \in Workers /\ worker[w] \in Jobs
    /\ worker' = [worker EXCEPT ![w] = 0]
    /\ workerErr' = IF workerErr # "none" THEN workerErr
                    ELSE IF cancelled THEN "canceled" ELSE "part"
    /\ cancelled' = TRUE
    /\ UNCHANGED <<main, queue, parts, server>>

-----------------------------------------------------------------------------
(* The end of the upload. *)

\* close(jobCh), wg.Wait(), and what the errors make of it.
Join ==
    /\ pc = "joining"
    /\ queue = << >> /\ \A w \in Workers : worker[w] \notin Jobs
    /\ LET err == IF workerErr # "none" THEN workerErr ELSE readErr
       IN  /\ result' = err
           /\ pc' = IF err # "none" THEN "aborting"
                    ELSE IF next = 1 THEN "empty" ELSE "completing"
    /\ UNCHANGED <<next, held, readErr, attempt, queue, pool, cancelled, server>>

\* The call is over with err, and its deferred functions run.
Fail(err) == pc' = "aborting" /\ result' = err

\* Mutant: the request is made under a context that is never over.
CompleteSendAnyway ==
    /\ pc = "completing"
    /\ pc' = "answering"
    /\ UNCHANGED <<next, held, readErr, attempt, result, queue, pool, cancelled, server>>

\* An attempt of CompleteMultipartUpload with the sorted parts: the request
\* leaves, unless the context is over by now.
CompleteSend ==
    /\ pc = "completing"
    /\ IF cancelled THEN Fail("canceled") ELSE pc' = "answering" /\ UNCHANGED result
    /\ UNCHANGED <<next, held, readErr, attempt, queue, pool, cancelled, server>>

CompleteDone ==
    /\ pc = "answering"
    /\ upload = "open"
    /\ upload' = "gone" /\ object' = parts
    /\ pc' = "done" /\ result' = "none"
    /\ UNCHANGED <<next, held, readErr, attempt, queue, pool, cancelled, lost>>

\* The attempt fails, before or after it took effect, and retry.Do decides: an
\* error that is not retryable (an upload that is gone is one), the last
\* attempt and a context that is over end the call, else it is tried again.
CompleteFails ==
    /\ pc = "answering"
    /\ \/ UNCHANGED <<upload, object>>
       \/ upload = "open" /\ upload' = "gone" /\ object' = parts
    /\ \/ Fail(IF cancelled THEN "canceled" ELSE "complete") /\ UNCHANGED attempt
       \/ /\ upload = "open" /\ ~cancelled /\ attempt < MaxAttempts
          /\ attempt' = attempt + 1
          /\ pc' = "completing" /\ UNCHANGED result
    /\ UNCHANGED <<next, held, readErr, queue, pool, cancelled, lost>>

\* Mutant: the request to abort is made under the upload's own context.
AbortInContext ==
    /\ pc = "aborting"
    /\ upload' = IF upload = "open" /\ ~cancelled THEN "gone" ELSE upload
    /\ pc' = "done"
    /\ UNCHANGED <<next, held, readErr, attempt, result, queue, pool, cancelled, object, lost>>

\* abortMultipart, under a context that the upload's cancellation does not
\* reach; an upload that is gone is no error.
Abort ==
    /\ pc = "aborting"
    /\ upload' = IF upload = "open" THEN "gone" ELSE upload
    /\ pc' = "done"
    /\ UNCHANGED <<next, held, readErr, attempt, result, queue, pool, cancelled, object, lost>>

\* Its failure is logged, and the upload stays.
AbortFails ==
    /\ pc = "aborting"
    /\ lost' = (lost \/ upload = "open")
    /\ pc' = "done"
    /\ UNCHANGED <<next, held, readErr, attempt, result, queue, pool, cancelled, upload, object>>

\* An empty stream: the upload is aborted, and an empty object is put.
AbortEmpty ==
    /\ pc = "empty"
    /\ \/ upload' = "gone" /\ UNCHANGED lost
       \/ lost' = TRUE /\ UNCHANGED upload
    /\ pc' = "putting"
    /\ UNCHANGED <<next, held, readErr, attempt, result, queue, pool, cancelled, object>>

Put ==
    /\ pc = "putting" /\ ~cancelled
    /\ object' = {}
    /\ pc' = "done"
    /\ UNCHANGED <<next, held, readErr, attempt, result, queue, pool, cancelled, upload, lost>>

\* That PutObject fails, with or without effect; the abort is not repeated.
PutFails ==
    /\ pc = "putting"
    /\ \/ UNCHANGED object
       \/ ~cancelled /\ object' = {}
    /\ pc' = "done" /\ result' = "put"
    /\ UNCHANGED <<next, held, readErr, attempt, queue, pool, cancelled, upload, lost>>

\* The caller's context is cancelled, or its deadline passes.
Cancel ==
    /\ pc # "done" /\ ~cancelled
    /\ cancelled' = TRUE
    /\ UNCHANGED <<main, queue, pool, server>>

-----------------------------------------------------------------------------

Init ==
    /\ cfg \in {c \in {Normalize(c) : c \in Configs} : Validate(c)}
    /\ req \in {u \in Uploads : u.size >= -1}
    /\ partSize = choosePartSize(req.size, req.partSize, cfg.partSize)
    /\ concurrency = chooseConcurrency(req.concurrency, cfg.concurrency, partSize, cfg.maxMemory)
    /\ pc = "init" /\ next = 1 /\ held = [part |-> 0, end |-> "full", left |-> req.length]
    /\ queue = << >>
    /\ worker = [w \in Workers |-> 0] /\ parts = {}
    /\ cancelled = FALSE
    /\ workerErr = "none" /\ readErr = "none"
    /\ attempt = 1 /\ result = "none"
    /\ upload = "none" /\ object = NoObject /\ lost = FALSE

Main ==
    /\ \/ CreateNothing \/ Create \/ CreateFails
       \/ ReadCanceled \/ ReadTooLarge \/ ReadPart \/ ReadNothing \/ ReadEOF \/ ReadFails
       \/ Send \/ SendCanceled \/ Join
       \/ CompleteSend \/ CompleteDone \/ CompleteFails \/ Abort \/ AbortFails
       \/ AbortEmpty \/ Put \/ PutFails
    /\ UNCHANGED setup

Worker(w) == (Take(w) \/ PartDone(w) \/ PartFails(w)) /\ UNCHANGED setup

Next == Main \/ (Cancel /\ UNCHANGED setup) \/ \E w \in Workers : Worker(w)

Spec == Init /\ [][Next]_vars

\* The goroutines run; the reader returns, and not with io.ErrUnexpectedEOF for
\* ever (ReadNothing would repeat then, without end); the store answers or the
\* request times out.
FairSpec == Spec /\ WF_vars(Main) /\ \A w \in 1..MaxConcurrency : WF_vars(Worker(w))

-----------------------------------------------------------------------------
(* Properties. *)

\* Type correctness.
TypeOK ==
    /\ cfg \in MultipartConfig /\ req \in Upload
    /\ partSize \in MinPartSize..MaxPartSize /\ concurrency \in 1..MaxConcurrency
    /\ pc \in {"init", "reading", "sending", "joining", "empty", "putting",
               "completing", "answering", "aborting", "done"}
    /\ next \in 1..(MaxParts + 1)
    /\ held \in [part: Jobs \cup {0}, end: Ends, left: Nat]
    /\ queue \in Seq(Jobs) /\ Len(queue) <= concurrency
    /\ worker \in [Workers -> Jobs \cup {0}]
    /\ parts \subseteq Jobs
    /\ cancelled \in BOOLEAN
    /\ workerErr \in Errors /\ readErr \in Errors /\ result \in Errors
    /\ attempt \in 1..MaxAttempts
    /\ upload \in {"none", "open", "gone"}
    /\ object = NoObject \/ object \subseteq Jobs
    /\ lost \in BOOLEAN

\* An object appears in the store only whole: with every part that was read,
\* after the last byte was, and after no error, although workers drop queued
\* parts without a word once the context is over.  A size of zero is believed.
ObjectWhole ==
    object # NoObject => /\ object = 1..(next - 1)
                         /\ held.left = 0 \/ req.size = 0
                         /\ workerErr = "none" /\ readErr = "none"

\* Whatever was requested and configured, the parts that the reader, the channel
\* and the workers hold take at most twice the memory of the budget, or of one
\* part if that is more, and one part.
Held == Len(queue) + Cardinality({w \in Workers : worker[w] \in Jobs})
                   + (IF held.part # 0 THEN 1 ELSE 0)
MemoryBounded ==
    Held * partSize <= 2 * (IF cfg.maxMemory > partSize THEN cfg.maxMemory ELSE partSize) + partSize

\* A stream is refused as too large only if it has more than MaxParts - 1 parts
\* of the size asked for; and one of the length that was declared has been read
\* to its end by then, if MaxParts of the largest parts can hold it.
TooLargeExplained ==
    readErr = "tooLarge" =>
        /\ req.length > (MaxParts - 1) * Asked(req.partSize, cfg.partSize)
        /\ req.length = req.size /\ req.size <= MaxParts * MaxPartSize => held.left = 0

\* Nothing is in progress when the call returns, a success has its object in
\* the store, and no multipart upload is left behind unless the request to
\* create or to abort it failed.
NothingLeftBehind ==
    pc = "done" =>
        /\ queue = << >> /\ \A w \in Workers : worker[w] = 0
        /\ result = "none" => object # NoObject
        /\ upload = "open" => lost

\* The call ends: no worker waits for a job, and the reader for room in the
\* channel, forever.
UploadEnds == <>(pc = "done")
=============================================================================
