-------------------------- MODULE StorageLifecycle --------------------------
(***************************************************************************)
(* The life of miniostorage.Storage: how every operation registers itself  *)
(* with beginOp and takes itself off with finish, what stays registered    *)
(* after the call returned (the reader of GetObject, the goroutine of      *)
(* ListObjects), and how Shutdown drains what is registered.               *)
(*                                                                         *)
(* beginOp loads the closed flag and adds to the WaitGroup in two steps,   *)
(* so Shutdown runs between them.  What an operation asks of the server is *)
(* one step here; RetriedOperations and MultipartUpload have the detail.   *)
(***************************************************************************)
EXTENDS Integers, Sequences, FiniteSets

CONSTANTS
    Procs,     \* goroutines that call operations, one call at a time
    Stoppers,  \* goroutines that call Shutdown or Close
    Kinds,     \* the operations the goroutines call
    Objects,   \* the number of objects of a listing
    Buffer     \* capacity of the channel ListObjects returns (16)

\* "simple" stands for the operations that are over when they return: buckets,
\* PutObject, DeleteObject, StatObject; "upload" is UploadMultipart.
AllKinds == {"simple", "get", "list", "upload", "health"}

ASSUME ConstantsAssumption ==
    /\ Kinds \subseteq AllKinds
    /\ Objects \in Nat
    /\ Buffer \in Nat \ {0}
    /\ IsFiniteSet(Procs)

VARIABLES
    closed,    \* Storage.closed
    count,     \* the counter of the WaitGroup Storage.active
    waiter,    \* the goroutine of Shutdown that waits for the WaitGroup
    call,      \* the call of each goroutine, with what outlives its return
    stop,      \* the Shutdown call of each stopper
    panicked,  \* the WaitGroup panicked, and with it the process
    early      \* history: the calls that were registered when closed was set

vars == <<closed, count, waiter, call, stop, panicked, early>>

-----------------------------------------------------------------------------

\* held: the registrations of the call; over: its context has ended; left,
\* hand, buf: the listing at the server, the item the goroutine holds, and the
\* channel; got, failed: what the consumer of the channel received.
NoCall == [pc |-> "idle", kind |-> "none", over |-> FALSE, held |-> 0, left |-> 0,
           hand |-> "none", buf |-> << >>, got |-> 0, failed |-> FALSE]

PCs == {"idle", "checked", "working", "ending", "reader", "readerClosed",
        "listing", "closeOut", "closedOut", "probing"}

At(p, pc, kind) == call[p].pc = pc /\ call[p].kind \in kind

\* Something of the call is still in progress.
Busy(p) == call[p].pc \in {"working", "ending", "reader", "listing"} \/ call[p].held > 0

Goto(p, pc) == call' = [call EXCEPT ![p].pc = pc]

\* active.Add(1).  A waiter whose counter reached zero and that has not yet
\* returned from Wait may make it panic.
Add == /\ count' = count + 1
       /\ panicked' \in {FALSE, waiter = "woken"}
       /\ UNCHANGED waiter

\* active.Done(): the last one wakes the waiter.
Done == /\ count' = count - 1
        /\ waiter' = IF count = 1 /\ waiter = "waiting" THEN "woken" ELSE waiter
        /\ UNCHANGED panicked

-----------------------------------------------------------------------------
(* Operations. *)

\* beginOp, first part: the closed flag and the context are looked at; a call
\* that is refused leaves no trace.
Begin(p, kind) ==
    /\ call[p].pc = "idle"
    /\ ~closed
    /\ kind # "health"
    /\ call' = [call EXCEPT ![p] = [NoCall EXCEPT !.pc = "checked", !.kind = kind,
                                !.left = IF kind = "list" THEN Objects ELSE 0]]
    /\ UNCHANGED <<closed, count, waiter, stop, panicked, early>>

\* beginOp, second part: active.Add(1).  Nothing looks at closed again.
Register(p) ==
    /\ call[p].pc = "checked"
    /\ Add
    /\ call' = [call EXCEPT ![p].pc = IF call[p].kind = "list" THEN "listing" ELSE "working",
                            ![p].held = @ + 1]
    /\ UNCHANGED <<closed, stop, early>>

\* The operation is over, with success or not: the deferred finish.
Finish(p) ==
    /\ call[p].kind # "list"
    /\ call[p].pc \in {"working", "ending"} /\ call[p].held = 1
    /\ Done
    /\ call' = [call EXCEPT ![p] = NoCall]
    /\ UNCHANGED <<closed, stop, early>>

\* Mutant: GetObject defers finish, as the other operations do.
OpenReaderFinished(p) ==
    /\ At(p, "working", {"get"})
    /\ Done
    /\ call' = [call EXCEPT ![p].pc = "reader", ![p].held = 0]
    /\ UNCHANGED <<closed, stop, early>>

\* GetObject succeeds: the call returns a reader and stays registered.
OpenReader(p) ==
    /\ At(p, "working", {"get"})
    /\ Goto(p, "reader")
    /\ UNCHANGED <<closed, count, waiter, stop, panicked, early>>

\* Mutant: ObjectReader.Close without its sync.Once.
CloseReaderAgain(p) ==
    /\ call[p].pc \in {"reader", "readerClosed"}
    /\ Done
    /\ call' = [call EXCEPT ![p].pc = "readerClosed", ![p].held = 0]
    /\ UNCHANGED <<closed, stop, early>>

\* ObjectReader.Close: only the first call closes the body and finishes.
CloseReader(p) ==
    /\ call[p].pc = "reader"
    /\ Done
    /\ call' = [call EXCEPT ![p].pc = "readerClosed", ![p].held = 0]
    /\ UNCHANGED <<closed, stop, early>>

\* A later Close does nothing, and the caller drops the reader.
DropReader(p) ==
    /\ call[p].pc = "readerClosed"
    /\ call' = [call EXCEPT ![p] = NoCall]
    /\ UNCHANGED <<closed, count, waiter, stop, panicked, early>>

\* UploadMultipart of an empty stream: it calls PutObject, which runs beginOp
\* of its own and is refused if Shutdown began in the meantime.
BeginNested(p) ==
    /\ At(p, "working", {"upload"})
    /\ call[p].held = 1
    /\ Goto(p, IF closed THEN "ending" ELSE "checked")
    /\ UNCHANGED <<closed, count, waiter, stop, panicked, early>>

\* That PutObject finishes; the upload goes on to its own finish.
FinishNested(p) ==
    /\ At(p, "working", {"upload"})
    /\ call[p].held = 2
    /\ Done
    /\ call' = [call EXCEPT ![p].pc = "ending", ![p].held = 1]
    /\ UNCHANGED <<closed, stop, early>>

\* CheckHealth looks at closed and asks the server without registering.
BeginHealth(p) ==
    /\ call[p].pc = "idle"
    /\ ~closed
    /\ call' = [call EXCEPT ![p] = [NoCall EXCEPT !.pc = "probing", !.kind = "health"]]
    /\ UNCHANGED <<closed, count, waiter, stop, panicked, early>>

EndHealth(p) ==
    /\ call[p].pc = "probing"
    /\ call' = [call EXCEPT ![p] = NoCall]
    /\ UNCHANGED <<closed, count, waiter, stop, panicked, early>>

\* The context of a listing ends: its caller cancels it, or its deadline passes.
\* (The other operations may fail at any time, for this reason or another.)
EndContext(p) ==
    /\ call[p].pc \in {"listing", "ending", "closeOut"} /\ call[p].kind = "list"
    /\ ~call[p].over
    /\ call' = [call EXCEPT ![p].over = TRUE]
    /\ UNCHANGED <<closed, count, waiter, stop, panicked, early>>

-----------------------------------------------------------------------------
(* ListObjects: a goroutine copies the listing into a bounded channel. *)

\* The next object of minio's listing, or its error in place of an object.
ListNext(p) ==
    /\ call[p].pc = "listing" /\ call[p].hand = "none"
    /\ \/ /\ call[p].left > 0
          /\ call' = [call EXCEPT ![p].hand = "item", ![p].left = @ - 1]
       \/ call' = [call EXCEPT ![p].hand = "error"]
    /\ UNCHANGED <<closed, count, waiter, stop, panicked, early>>

\* The item goes into the channel if there is room; an error is the last item.
ListSend(p) ==
    /\ call[p].pc = "listing" /\ call[p].hand # "none"
    /\ Len(call[p].buf) < Buffer
    /\ call' = [call EXCEPT ![p].buf = Append(@, call[p].hand), ![p].hand = "none",
                            ![p].pc = IF call[p].hand = "error" THEN "ending" ELSE "listing"]
    /\ UNCHANGED <<closed, count, waiter, stop, panicked, early>>

\* Mutant: a bare send, which does not wait for the context as well.
ListNeverGivesUp(p) == FALSE /\ UNCHANGED vars

\* The other branch of that select: the context is over, and the item is
\* dropped without a word to the consumer.
ListGivesUp(p) ==
    /\ call[p].pc = "listing" /\ call[p].hand # "none"
    /\ call[p].over
    /\ Goto(p, "ending")
    /\ UNCHANGED <<closed, count, waiter, stop, panicked, early>>

\* Mutant: an error of minio ends the loop as the end of the listing does.
ListEndOnError(p) ==
    /\ call[p].pc = "listing" /\ call[p].hand # "item"
    /\ Goto(p, "ending")
    /\ UNCHANGED <<closed, count, waiter, stop, panicked, early>>

\* minio closes its channel: the listing is complete, or the context is over.
ListEnd(p) ==
    /\ call[p].pc = "listing" /\ call[p].hand = "none"
    /\ call[p].left = 0 \/ call[p].over
    /\ Goto(p, "ending")
    /\ UNCHANGED <<closed, count, waiter, stop, panicked, early>>

\* The deferred function: finish first, then close(out).
ListFinish(p) ==
    /\ At(p, "ending", {"list"})
    /\ Done
    /\ call' = [call EXCEPT ![p].pc = "closeOut", ![p].held = 0]
    /\ UNCHANGED <<closed, stop, early>>

ListCloseOut(p) ==
    /\ call[p].pc = "closeOut"
    /\ Goto(p, "closedOut")
    /\ UNCHANGED <<closed, count, waiter, stop, panicked, early>>

\* The consumer receives from the channel.
Receive(p) ==
    /\ call[p].kind = "list" /\ call[p].buf # << >>
    /\ call' = [call EXCEPT ![p].buf = Tail(@),
                            ![p].got = IF Head(call[p].buf) = "item" THEN @ + 1 ELSE @,
                            ![p].failed = Head(call[p].buf) = "error"]
    /\ UNCHANGED <<closed, count, waiter, stop, panicked, early>>

\* The consumer finds the channel empty and closed, and is done.
ReceiveEnd(p) ==
    /\ call[p].pc = "closedOut" /\ call[p].buf = << >>
    /\ call' = [call EXCEPT ![p] = NoCall]
    /\ UNCHANGED <<closed, count, waiter, stop, panicked, early>>

-----------------------------------------------------------------------------
(* Shutdown, and Close, which is Shutdown with a deadline of ten seconds. *)

\* The compare-and-swap of closed: the first caller starts the goroutine that
\* waits, every later one returns nil at once.
StopBegin(s) ==
    /\ stop[s] = "idle"
    /\ stop' = [stop EXCEPT ![s] = IF closed THEN "already" ELSE "waiting"]
    /\ early' = IF closed THEN early ELSE {p \in Procs : call[p].held > 0}
    /\ waiter' = IF closed THEN waiter ELSE "starting"
    /\ closed' = TRUE
    /\ UNCHANGED <<count, call, panicked>>

\* active.Wait(): it returns at once if nothing is registered.
WaitBegin ==
    /\ waiter = "starting"
    /\ waiter' = IF count = 0 THEN "done" ELSE "waiting"
    /\ UNCHANGED <<closed, count, call, stop, panicked, early>>

\* The waiter was woken by a counter of zero.  If an operation registered in
\* the meantime, the WaitGroup panics ("WaitGroup is reused before previous
\* Wait has returned").
WaitEnd ==
    /\ waiter = "woken"
    /\ waiter' = "done"
    /\ panicked' = (count # 0)
    /\ UNCHANGED <<closed, count, call, stop, early>>

\* Shutdown's select: everything is drained, or its context is over.
StopDrained(s) ==
    /\ stop[s] = "waiting" /\ waiter = "done"
    /\ stop' = [stop EXCEPT ![s] = "drained"]
    /\ UNCHANGED <<closed, count, waiter, call, panicked, early>>

StopExpires(s) ==
    /\ stop[s] = "waiting"
    /\ stop' = [stop EXCEPT ![s] = "expired"]
    /\ UNCHANGED <<closed, count, waiter, call, panicked, early>>

-----------------------------------------------------------------------------

Init ==
    /\ closed = FALSE
    /\ count = 0
    /\ waiter = "none"
    /\ call = [p \in Procs |-> NoCall]
    /\ stop = [s \in Stoppers |-> "idle"]
    /\ panicked = FALSE
    /\ early = {}

\* What the operation of p does without its caller.
Work(p) ==
    \/ Register(p) \/ Finish(p) \/ OpenReader(p)
    \/ BeginNested(p) \/ FinishNested(p) \/ EndHealth(p)
    \/ ListNext(p) \/ ListSend(p) \/ ListGivesUp(p) \/ ListEnd(p)
    \/ ListFinish(p) \/ ListCloseOut(p)

Next ==
    /\ ~panicked
    /\ \/ \E p \in Procs : \/ \E kind \in Kinds \ {"health"} : Begin(p, kind)
                           \/ "health" \in Kinds /\ BeginHealth(p)
                           \/ EndContext(p) \/ Work(p)
                           \/ CloseReader(p) \/ DropReader(p)
                           \/ Receive(p) \/ ReceiveEnd(p)
       \/ \E s \in Stoppers : StopBegin(s) \/ StopDrained(s) \/ StopExpires(s)
       \/ WaitBegin \/ WaitEnd

\* The goroutines run and the server answers (every request has a timeout);
\* the caller of GetObject closes the reader ("Callers must always Close it"),
\* and the caller of ListObjects receives until its context is over.
Fairness ==
    /\ \A p \in Procs : /\ WF_vars(~panicked /\ Work(p))
                        /\ WF_vars(~panicked /\ CloseReader(p))
                        /\ WF_vars(~panicked /\ ~call[p].over /\ Receive(p))
    /\ \A s \in Stoppers : WF_vars(~panicked /\ StopDrained(s))
    /\ WF_vars(~panicked /\ (WaitBegin \/ WaitEnd))

Spec == Init /\ [][Next]_vars

FairSpec == Spec /\ Fairness

-----------------------------------------------------------------------------
(* Properties. *)

Call == [pc: PCs, kind: AllKinds \cup {"none"}, over: BOOLEAN, held: 0..2,
         left: 0..Objects, hand: {"none", "item", "error"},
         buf: Seq({"item", "error"}), got: 0..Objects, failed: BOOLEAN]

\* Type correctness: the WaitGroup counter is never negative, and a channel
\* never holds more than its capacity.
TypeOK ==
    /\ closed \in BOOLEAN
    /\ count \in Nat
    /\ waiter \in {"none", "starting", "waiting", "woken", "done"}
    /\ call \in [Procs -> Call]
    /\ \A p \in Procs : Len(call[p].buf) <= Buffer
    /\ stop \in [Stoppers -> {"idle", "already", "waiting", "drained", "expired"}]
    /\ panicked \in BOOLEAN
    /\ early \subseteq Procs

\* Every operation that registered before Shutdown set closed is over when
\* Shutdown returns nil: also the reader it handed out, also the goroutine
\* that still feeds a listing.
EarlyCallsDrained ==
    (\E s \in Stoppers : stop[s] = "drained") => \A p \in early : ~Busy(p)

\* A listing that ends without an error item, under a context that is not
\* over, was delivered whole.
ListingComplete ==
    \A p \in Procs :
        call[p].pc = "closedOut" /\ call[p].buf = << >> /\ ~call[p].over /\ ~call[p].failed
            => call[p].got = Objects

\* Shutdown ends: with or without a deadline of its own, it returns once the
\* callers have closed their readers and received their listings or given
\* them up.  A panic of the WaitGroup excuses it.
ShutdownReturns ==
    \A s \in Stoppers : stop[s] = "waiting" ~> stop[s] # "waiting" \/ panicked

\* "Shutdown stops accepting new operations and waits for active operations":
\* when it returns nil, no operation is active.
ShutdownWaits == (\E s \in Stoppers : stop[s] = "drained") => \A p \in Procs : ~Busy(p)
=============================================================================
