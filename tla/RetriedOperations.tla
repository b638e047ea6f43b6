-------------------------- MODULE RetriedOperations --------------------------
(***************************************************************************)
(* The bucket and object operations of miniostorage.Storage between        *)
(* beginOp and finish: one function of requests to the server, which       *)
(* Retryer.Do calls again while its error is retryable.  Calls run         *)
(* concurrently on one bucket.                                             *)
(*                                                                         *)
(* The server is external.  A request may fail before or after it took     *)
(* effect, with an error that Do retries ("transient": timeout, throttled, *)
(* unavailable, server failure) or with one that it does not.              *)
(***************************************************************************)
EXTENDS Integers, FiniteSets

CONSTANTS
    Procs,        \* goroutines that call operations
    Keys,         \* object keys of the bucket
    Kinds,        \* the operations the goroutines call
    NoKey,        \* no key: the bucket itself
    MaxAttempts   \* Retryer.MaxAttempts

BucketKinds == {"createBucket", "deleteBucket", "bucketExists"}

\* "putStream" is PutObject with a reader that cannot seek, or of unknown size.
AllKinds == BucketKinds \cup {"put", "putStream", "get", "stat", "delete"}

ASSUME ConstantsAssumption ==
    /\ Kinds \subseteq AllKinds
    /\ NoKey \notin Keys
    /\ MaxAttempts \in Nat \ {0}

VARIABLES
    bucket,   \* does the bucket exist
    object,   \* the object under each key: "none", "whole", or "part" of a body
    call      \* the call of each goroutine

vars == <<bucket, object, call>>

-----------------------------------------------------------------------------

\* unread: the reader of a PutObject is where its caller left it; over: the
\* context has ended; err: the error of the last attempt, then of the call;
\* seen: history, the outcome that the call asks for held when the server had
\* dealt with a request of it.
NoCall == [pc |-> "idle", kind |-> "none", key |-> NoKey, attempt |-> 0, unread |-> TRUE,
           over |-> FALSE, err |-> "none", seen |-> FALSE]

PCs == {"idle", "attempt", "asked", "failed", "backoff", "lookup", "done"}

Errors == {"none", "transient", "notFound", "refused", "canceled"}

Puts == {"put", "putStream"}

\* PutObject of a stream calls its function once, without Retryer.Do.
Retried(kind) == kind # "putStream"

\* beginOp let the call pass.
Begin(p, kind, k) ==
    /\ call[p].pc = "idle"
    /\ k = NoKey <=> kind \in BucketKinds
    /\ call' = [call EXCEPT ![p] = [NoCall EXCEPT !.pc = "attempt", !.kind = kind, !.key = k]]
    /\ UNCHANGED <<bucket, object>>

\* The caller's context is cancelled.
Cancel(p) ==
    /\ call[p].pc \notin {"idle", "done"} /\ ~call[p].over
    /\ call' = [call EXCEPT ![p].over = TRUE]
    /\ UNCHANGED <<bucket, object>>

-----------------------------------------------------------------------------
(* Retryer.Do. *)

\* fn(ctx) is called for attempt n, with the reader of a PutObject as given: a
\* request leaves, unless the context is over.  GetObject makes none here (minio
\* returns a lazy object), only in the Stat after Do returned.
CallFn(p, n, unread) ==
    /\ call[p].pc = "attempt"
    /\ call' = [call EXCEPT ![p].attempt = n, ![p].unread = unread,
                            ![p].pc = IF call[p].over THEN "failed"
                                      ELSE IF call[p].kind = "get" THEN "lookup" ELSE "asked",
                            ![p].err = IF call[p].over THEN "canceled" ELSE @]
    /\ UNCHANGED <<bucket, object>>

\* Mutant: `var attempt int` inside the loop.
AttemptUncounted(p) == CallFn(p, 1, call[p].unread \/ call[p].kind = "put")

\* Mutant: PutObject does not rewind its reader.
AttemptNoSeek(p) == CallFn(p, call[p].attempt + 1, call[p].unread)

\* An attempt.  PutObject rewinds a reader that can seek.
Attempt(p) == CallFn(p, call[p].attempt + 1, call[p].unread \/ call[p].kind = "put")

\* The error of an attempt: it is returned if it is not retryable or if the
\* attempt was the last one, replaced if the context is over, and waited out
\* otherwise.
DecideAfter(p, last) ==
    /\ call[p].pc = "failed"
    /\ IF ~Retried(call[p].kind) \/ call[p].err # "transient" \/ last
       THEN call' = [call EXCEPT ![p].pc = "done"]
       ELSE IF call[p].over
       THEN call' = [call EXCEPT ![p].pc = "done", ![p].err = "canceled"]
       ELSE call' = [call EXCEPT ![p].pc = "backoff"]
    /\ UNCHANGED <<bucket, object>>

\* Mutants: one attempt fewer, one attempt more.
DecideEarly(p) == DecideAfter(p, call[p].attempt + 1 >= MaxAttempts)
DecideLate(p) == DecideAfter(p, call[p].attempt > MaxAttempts)

Decide(p) == DecideAfter(p, call[p].attempt >= MaxAttempts)

\* The select of the backoff: the delay is over, or the context is; if both
\* are, either branch may be taken.
Wait(p) ==
    /\ call[p].pc = "backoff"
    /\ \/ call' = [call EXCEPT ![p].pc = "attempt"]
       \/ /\ call[p].over
          /\ call' = [call EXCEPT ![p].pc = "done", ![p].err = "canceled"]
    /\ UNCHANGED <<bucket, object>>

-----------------------------------------------------------------------------
(* The requests, at the server. *)

Empty == \A k \in Keys : object[k] = "none"

\* What the server makes of a request of the call c: the error, or "none".
Verdict(c) ==
    CASE c.kind = "createBucket" -> "none"    \* made, or owned by the caller already
      [] c.kind = "deleteBucket" -> IF ~bucket THEN "notFound"
                                    ELSE IF Empty THEN "none" ELSE "refused"
      [] c.kind = "bucketExists" -> "none"
      [] c.kind \in Puts         -> IF bucket THEN "none" ELSE "notFound"
      [] c.kind = "delete"       -> IF bucket THEN "none" ELSE "notFound"
      [] OTHER                   -> IF object[c.key] # "none" THEN "none" ELSE "notFound"

Effect(c) ==
    /\ bucket' = CASE c.kind = "createBucket" -> TRUE
                   [] c.kind = "deleteBucket" -> FALSE
                   [] OTHER -> bucket
    /\ object' = CASE c.kind \in Puts  -> [object EXCEPT ![c.key] = IF c.unread THEN "whole" ELSE "part"]
                   [] c.kind = "delete" -> [object EXCEPT ![c.key] = "none"]
                   [] OTHER -> object

\* The outcome that a call asks for, with bucket b and objects o.
Outcome(c, b, o) ==
    CASE c.kind = "createBucket" -> b
      [] c.kind = "deleteBucket" -> ~b
      [] c.kind = "delete"       -> o[c.key] = "none"
      [] c.kind = "bucketExists" -> TRUE
      [] OTHER                   -> o[c.key] # "none"

Asking(p) == call[p].pc \in {"asked", "lookup"}

\* The answer err of a request arrives, or the failure to get one.
Answer(p, err) ==
    call' = [call EXCEPT ![p].err = err,
                         ![p].pc = IF err = "none" \/ @ = "lookup" THEN "done" ELSE "failed",
                         ![p].unread = @ /\ call[p].kind \notin Puts,
                         ![p].seen = @ \/ Outcome(call[p], bucket', object')]

\* Mutant: any "not found" is as good as success.
AcceptedAlways(c, err) == IF err = "notFound" THEN "none" ELSE err

\* A deletion takes "not found" for success.
Accepted(c, err) ==
    IF c.kind \in {"delete", "deleteBucket"} /\ err = "notFound" THEN "none" ELSE err

\* The request is served, and its answer arrives.
Served(p) ==
    /\ Asking(p)
    /\ IF Verdict(call[p]) = "none" THEN Effect(call[p]) ELSE UNCHANGED <<bucket, object>>
    /\ Answer(p, Accepted(call[p], Verdict(call[p])))

\* The request is served, and its answer is lost or comes too late.
AnswerLost(p) ==
    /\ Asking(p)
    /\ Verdict(call[p]) = "none" /\ Effect(call[p])
    /\ Answer(p, IF call[p].over THEN "canceled" ELSE "transient")

\* The request is not served: it is refused, it cannot be served now, or the
\* context ends first.
NotServed(p) ==
    /\ Asking(p)
    /\ UNCHANGED <<bucket, object>>
    /\ \E err \in {"transient", "refused"} \cup IF call[p].over THEN {"canceled"} ELSE {} :
          Answer(p, err)

\* The call returns.
End(p) ==
    /\ call[p].pc = "done"
    /\ call' = [call EXCEPT ![p] = NoCall]
    /\ UNCHANGED <<bucket, object>>

-----------------------------------------------------------------------------

Init ==
    /\ bucket = FALSE
    /\ object = [k \in Keys |-> "none"]
    /\ call = [p \in Procs |-> NoCall]

Run(p) == Attempt(p) \/ Decide(p) \/ Wait(p) \/ Served(p) \/ AnswerLost(p) \/ NotServed(p)

Next == \E p \in Procs :
            \/ \E kind \in Kinds, k \in Keys \cup {NoKey} : Begin(p, kind, k)
            \/ Cancel(p) \/ Run(p) \/ End(p)

Spec == Init /\ [][Next]_vars

\* The goroutines run, timers fire, and every request is answered or times out.
FairSpec == Spec /\ \A p \in Procs : WF_vars(Run(p))

-----------------------------------------------------------------------------
(* Properties. *)

\* Type correctness; no call makes more than MaxAttempts requests, and without
\* a bucket there are no objects.
TypeOK ==
    /\ bucket \in BOOLEAN
    /\ object \in [Keys -> {"none", "whole", "part"}]
    /\ ~bucket => Empty
    /\ call \in [Procs -> [pc: PCs, kind: AllKinds \cup {"none"}, key: Keys \cup {NoKey},
                           attempt: 0..MaxAttempts, unread: BOOLEAN, over: BOOLEAN,
                           err: Errors, seen: BOOLEAN]]

\* "Retry is only safe if the reader can be reset": however often PutObject is
\* retried, and however far an attempt read before it failed, the server never
\* stores the rest of a body for the whole of it.
BodiesWhole == \A k \in Keys : object[k] # "part"

\* A call that returns no error was in effect at some moment between its call
\* and its return, although answers get lost, retries meet what an earlier
\* attempt did ("already owned", "not found"), and other calls undo it.
SuccessIsTrue ==
    \A p \in Procs : call[p].pc = "done" /\ call[p].err = "none" => call[p].seen

\* No call gives up early: one that returns a retryable error had all its
\* attempts.  GetObject and the PutObject of a stream have only one.
AllAttemptsMade ==
    \A p \in Procs :
        /\ call[p].pc = "done" /\ call[p].err = "transient"
        /\ call[p].kind \notin {"get", "putStream"}
        => call[p].attempt = MaxAttempts

\* Every call ends, also while the server fails every request: retries are
\* bounded, and a cancelled context ends the wait between them.
CallsEnd == \A p \in Procs : call[p].pc = "attempt" ~> call[p].pc = "done"
=============================================================================
