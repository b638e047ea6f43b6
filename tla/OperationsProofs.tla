--------------------------- MODULE OperationsProofs ---------------------------
(***************************************************************************)
(* The invariants of RetriedOperations, for any number of concurrent       *)
(* calls, keys and attempts: bodies are whole, successes are true, and     *)
(* nobody gives up early.                                                  *)
(***************************************************************************)
EXTENDS RetriedOperations, TLAPS

CallType == [pc: PCs, kind: AllKinds \cup {"none"}, key: Keys \cup {NoKey},
             attempt: 0..MaxAttempts, unread: BOOLEAN, over: BOOLEAN,
             err: Errors, seen: BOOLEAN]

\* What the place of a call says of it.
Proceeds(c) ==
    /\ c.pc # "idle" => c.kind \in AllKinds /\ (c.key = NoKey <=> c.kind \in BucketKinds)
    /\ c.pc \in {"attempt", "backoff"} => c.attempt < MaxAttempts
    /\ c.pc = "lookup" => c.kind = "get"
    /\ c.pc = "asked" => c.kind # "get"
    /\ c.pc = "failed" => c.err # "none"
    /\ c.pc = "backoff" => Retried(c.kind)

\* A body is read from its start when its request leaves.
Rewound(c) ==
    /\ c.kind = "putStream" /\ c.pc \in {"attempt", "asked"} => c.unread
    /\ c.kind = "put" /\ c.pc = "asked" => c.unread

\* What a call that is over may report.
Reports(c) ==
    /\ c.pc = "done" /\ c.err = "none" => c.seen
    /\ c.pc = "done" /\ c.err = "transient" /\ c.kind \notin {"get", "putStream"}
         => c.attempt = MaxAttempts

Sound(c) == c \in CallType /\ Proceeds(c) /\ Rewound(c) /\ Reports(c)

\* The server: objects are in a bucket, and whole.
ServerInv ==
    /\ bucket \in BOOLEAN
    /\ object \in [Keys -> {"none", "whole"}]
    /\ ~bucket => Empty

IInv ==
    /\ ServerInv
    /\ DOMAIN call = Procs /\ call = [p \in Procs |-> call[p]]
    /\ \A p \in Procs : Sound(call[p])

\* A step of the call of p leaves the others alone.
LEMMA OneCall ==
  ASSUME IInv, NEW p \in Procs, NEW c, call' = [call EXCEPT ![p] = c], Sound(c), ServerInv'
  PROVE  IInv'
  <1>1. /\ DOMAIN call' = Procs /\ call' = [q \in Procs |-> call'[q]]
        /\ \A q \in Procs : call'[q] = IF q = p THEN c ELSE call[q]
    BY DEF IInv
  <1>2. \A q \in Procs : Sound(call'[q])
    BY <1>1 DEF IInv
  <1> QED BY <1>1, <1>2 DEF IInv

LEMMA BeginStep ==
  ASSUME IInv, NEW p \in Procs, NEW kind \in Kinds, NEW k \in Keys \cup {NoKey}, Begin(p, kind, k)
  PROVE  IInv'
  <1> DEFINE c == [NoCall EXCEPT !.pc = "attempt", !.kind = kind, !.key = k]
  <1>1. call' = [call EXCEPT ![p] = c] /\ ServerInv'
    BY DEF Begin, IInv, ServerInv, Empty
  <1>2. NoCall \in CallType /\ NoCall.attempt = 0 /\ NoCall.unread /\ NoCall.err = "none"
    BY ConstantsAssumption DEF NoCall, CallType, PCs, Errors
  <1>3. kind \in AllKinds /\ (k = NoKey <=> kind \in BucketKinds)
    BY ConstantsAssumption DEF Begin
  <1>4. Sound(c)
    <2>1. c \in CallType
      BY <1>2, <1>3 DEF CallType, PCs
    <2>2. c.pc = "attempt" /\ c.kind = kind /\ c.key = k /\ c.attempt = 0 /\ c.unread
      BY <1>2 DEF CallType
    <2> HIDE DEF c
    <2> QED BY <1>3, <2>1, <2>2, ConstantsAssumption DEF Sound, Proceeds, Rewound, Reports
  <1> QED BY <1>1, <1>4, OneCall

LEMMA CancelStep ==
  ASSUME IInv, NEW p \in Procs, Cancel(p)
  PROVE  IInv'
  <1> DEFINE c == [call[p] EXCEPT !.over = TRUE]
  <1>1. call' = [call EXCEPT ![p] = c] /\ ServerInv' /\ Sound(call[p])
    BY DEF Cancel, IInv, ServerInv, Empty
  <1>2. Sound(c)
    BY <1>1 DEF Sound, CallType, Proceeds, Rewound, Reports
  <1> QED BY <1>1, <1>2, OneCall

LEMMA AttemptStep ==
  ASSUME IInv, NEW p \in Procs, Attempt(p)
  PROVE  IInv'
  <1> DEFINE n == call[p].attempt + 1
             read == call[p].unread \/ call[p].kind = "put"
             pc == IF call[p].over THEN "failed"
                   ELSE IF call[p].kind = "get" THEN "lookup" ELSE "asked"
             err == IF call[p].over THEN "canceled" ELSE call[p].err
             c == [call[p] EXCEPT !.attempt = n, !.unread = read, !.pc = pc, !.err = err]
  <1>1. call' = [call EXCEPT ![p] = c] /\ ServerInv' /\ Sound(call[p]) /\ call[p].pc = "attempt"
    BY DEF Attempt, CallFn, IInv, ServerInv, Empty
  <1>2. n \in 1..MaxAttempts
    BY <1>1, ConstantsAssumption DEF Sound, CallType, Proceeds
  <1>3. /\ read \in BOOLEAN /\ pc \in {"failed", "lookup", "asked"} /\ err \in Errors
        /\ call[p].kind \in Puts => read
        /\ pc = "lookup" => call[p].kind = "get"
        /\ pc = "asked" => call[p].kind # "get"
        /\ pc = "failed" => err # "none"
    BY <1>1 DEF Sound, CallType, Errors, Rewound, Puts
  <1> HIDE DEF read, pc, err, n
  <1>4. Sound(c)
    <2>1. c \in CallType
      <3>1. n \in 0..MaxAttempts /\ pc \in PCs /\ call[p] \in CallType
        BY <1>1, <1>2, <1>3, ConstantsAssumption DEF Sound, PCs
      <3> QED BY <1>3, <3>1 DEF CallType
    <2>2. /\ c.pc = pc /\ c.kind = call[p].kind /\ c.key = call[p].key
          /\ c.unread = read /\ c.err = err
      BY <1>1 DEF Sound, CallType
    <2> HIDE DEF c
    <2> QED BY <1>1, <1>3, <2>1, <2>2 DEF Sound, Proceeds, Rewound, Reports, Puts
  <1> QED BY <1>1, <1>4, OneCall

LEMMA DecideStep ==
  ASSUME IInv, NEW p \in Procs, Decide(p)
  PROVE  IInv'
  <1>1. ServerInv' /\ Sound(call[p]) /\ call[p].pc = "failed"
    BY DEF Decide, DecideAfter, IInv, ServerInv, Empty
  <1>2. CASE call' = [call EXCEPT ![p] = [call[p] EXCEPT !.pc = "done"]]
             /\ (~Retried(call[p].kind) \/ call[p].err # "transient" \/ call[p].attempt >= MaxAttempts)
    <2>1. Sound([call[p] EXCEPT !.pc = "done"])
      BY <1>1, <1>2, ConstantsAssumption DEF Sound, CallType, PCs, Retried, Proceeds, Rewound, Reports
    <2> QED BY <1>1, <1>2, <2>1, OneCall
  <1>3. CASE call' = [call EXCEPT ![p] = [call[p] EXCEPT !.pc = "done", !.err = "canceled"]]
    <2>1. Sound([call[p] EXCEPT !.pc = "done", !.err = "canceled"])
      BY <1>1 DEF Sound, CallType, PCs, Errors, Proceeds, Rewound, Reports
    <2> QED BY <1>1, <1>3, <2>1, OneCall
  <1>4. CASE call' = [call EXCEPT ![p] = [call[p] EXCEPT !.pc = "backoff"]]
             /\ Retried(call[p].kind) /\ ~(call[p].attempt >= MaxAttempts)
    <2>1. Sound([call[p] EXCEPT !.pc = "backoff"])
      BY <1>1, <1>4, ConstantsAssumption DEF Sound, CallType, PCs, Proceeds, Rewound, Reports
    <2> QED BY <1>1, <1>4, <2>1, OneCall
  <1> QED BY <1>2, <1>3, <1>4 DEF Decide, DecideAfter

LEMMA WaitStep ==
  ASSUME IInv, NEW p \in Procs, Wait(p)
  PROVE  IInv'
  <1>1. ServerInv' /\ Sound(call[p]) /\ call[p].pc = "backoff"
    BY DEF Wait, IInv, ServerInv, Empty
  <1>2. CASE call' = [call EXCEPT ![p] = [call[p] EXCEPT !.pc = "attempt"]]
    <2>1. Sound([call[p] EXCEPT !.pc = "attempt"])
      BY <1>1 DEF Sound, CallType, PCs, Retried, Proceeds, Rewound, Reports
    <2> QED BY <1>1, <1>2, <2>1, OneCall
  <1>3. CASE call' = [call EXCEPT ![p] = [call[p] EXCEPT !.pc = "done", !.err = "canceled"]]
    <2>1. Sound([call[p] EXCEPT !.pc = "done", !.err = "canceled"])
      BY <1>1 DEF Sound, CallType, PCs, Errors, Proceeds, Rewound, Reports
    <2> QED BY <1>1, <1>3, <2>1, OneCall
  <1> QED BY <1>2, <1>3 DEF Wait

LEMMA EndStep ==
  ASSUME IInv, NEW p \in Procs, End(p)
  PROVE  IInv'
  <1>1. call' = [call EXCEPT ![p] = NoCall] /\ ServerInv'
    BY DEF End, IInv, ServerInv, Empty
  <1>2. Sound(NoCall)
    BY ConstantsAssumption DEF NoCall, Sound, CallType, PCs, Errors, Proceeds, Rewound, Reports
  <1> QED BY <1>1, <1>2, OneCall

-----------------------------------------------------------------------------
(* The requests. *)

\* A request that the server serves leaves it sound, and has the outcome its
\* call asks for.
LEMMA EffectSound ==
  ASSUME ServerInv, NEW c, Sound(c), c.pc \in {"asked", "lookup"}, Verdict(c) = "none", Effect(c)
  PROVE  ServerInv' /\ Outcome(c, bucket', object')
  <1>1. /\ c.kind \in AllKinds /\ (c.key = NoKey <=> c.kind \in BucketKinds)
        /\ c.key \in Keys \cup {NoKey} /\ (c.kind \in Puts => c.unread)
    BY DEF Sound, CallType, Proceeds, Rewound, Puts
  <1>2. CASE c.kind = "createBucket"
    <2>1. bucket' = TRUE /\ object' = object
      BY <1>2 DEF Effect, Puts
    <2> QED BY <1>2, <2>1 DEF ServerInv, Outcome
  <1>3. CASE c.kind = "deleteBucket"
    <2>1. bucket' = FALSE /\ object' = object /\ Empty
      BY <1>3 DEF Effect, Verdict, Puts
    <2> QED BY <1>3, <2>1 DEF ServerInv, Outcome, Empty
  <1>4. CASE c.kind = "bucketExists"
    <2>1. bucket' = bucket /\ object' = object
      BY <1>4 DEF Effect, Puts
    <2> QED BY <1>4, <2>1 DEF ServerInv, Outcome, Empty
  <1>5. CASE c.kind \in Puts
    <2>1. c.key \in Keys /\ c.unread
      BY <1>1, <1>5 DEF Puts, BucketKinds
    <2>2. bucket = TRUE /\ bucket' = bucket /\ object' = [object EXCEPT ![c.key] = "whole"]
      BY <1>5, <2>1 DEF Effect, Verdict, Puts, ServerInv
    <2> QED BY <1>5, <2>1, <2>2 DEF ServerInv, Outcome, Puts
  <1>6. CASE c.kind = "delete"
    <2>1. c.key \in Keys
      BY <1>1, <1>6 DEF BucketKinds
    <2>2. bucket' = bucket /\ object' = [object EXCEPT ![c.key] = "none"]
      BY <1>6 DEF Effect, Puts
    <2> QED BY <1>6, <2>1, <2>2 DEF ServerInv, Outcome, Empty
  <1>7. CASE c.kind \in {"get", "stat"}
    <2>1. bucket' = bucket /\ object' = object /\ object[c.key] # "none"
      BY <1>7 DEF Effect, Verdict, Puts
    <2> QED BY <1>7, <2>1 DEF ServerInv, Outcome, Empty
  <1> QED BY <1>1, <1>2, <1>3, <1>4, <1>5, <1>6, <1>7 DEF AllKinds, BucketKinds, Puts

\* An answer leaves the call sound, if no error means that the outcome holds.
LEMMA AnswerSound ==
  ASSUME IInv, NEW p \in Procs, Asking(p), NEW err \in Errors, Answer(p, err), ServerInv',
         err = "none" => Outcome(call[p], bucket', object')
  PROVE  IInv'
  <1> DEFINE c == [call[p] EXCEPT !.err = err,
                     !.pc = IF err = "none" \/ @ = "lookup" THEN "done" ELSE "failed",
                     !.unread = @ /\ call[p].kind \notin Puts,
                     !.seen = @ \/ Outcome(call[p], bucket', object')]
  <1>1. call' = [call EXCEPT ![p] = c]
    BY DEF Answer
  <1>2. Sound(call[p]) /\ call[p].pc \in {"asked", "lookup"}
    BY DEF IInv, Asking
  <1>3. /\ (call[p].unread /\ call[p].kind \notin Puts) \in BOOLEAN
        /\ (call[p].seen \/ Outcome(call[p], bucket', object')) \in BOOLEAN
    OBVIOUS
  <1>4. err = "none" => (call[p].seen \/ Outcome(call[p], bucket', object'))
    OBVIOUS
  <1>5. Sound(c)
    BY <1>2, <1>3, <1>4 DEF Sound, CallType, PCs, Proceeds, Rewound, Reports
  <1> QED BY <1>1, <1>5, OneCall

LEMMA ServedStep ==
  ASSUME IInv, NEW p \in Procs, Served(p)
  PROVE  IInv'
  <1> DEFINE v == Verdict(call[p])
  <1>1. v \in {"none", "notFound", "refused"} /\ Accepted(call[p], v) \in Errors
    BY DEF Verdict, Accepted, Errors
  <1>2. CASE v = "none"
    <2>1. Effect(call[p]) /\ Answer(p, Accepted(call[p], v)) /\ Asking(p)
      BY <1>2 DEF Served
    <2>2. ServerInv' /\ Outcome(call[p], bucket', object')
      BY <1>2, <2>1, EffectSound DEF IInv, Asking
    <2> QED BY <1>1, <2>1, <2>2, AnswerSound
  <1>3. CASE v # "none"
    <2>1. UNCHANGED <<bucket, object>> /\ Answer(p, Accepted(call[p], v)) /\ Asking(p)
      BY <1>3 DEF Served
    <2>2. ServerInv' /\ Sound(call[p])
      BY <2>1 DEF IInv, ServerInv, Empty
    <2>3. ASSUME Accepted(call[p], v) = "none" PROVE Outcome(call[p], bucket', object')
      <3>1. call[p].kind \in {"delete", "deleteBucket"} /\ v = "notFound"
        BY <1>3, <2>3 DEF Accepted
      <3>2. ~bucket
        BY <3>1 DEF Verdict, Puts
      <3>3. call[p].kind = "delete" => call[p].key \in Keys
        BY <2>1, <2>2 DEF Sound, CallType, Proceeds, BucketKinds, Asking
      <3> QED BY <2>1, <3>1, <3>2, <3>3 DEF Outcome, IInv, ServerInv, Empty
    <2> QED BY <1>1, <2>1, <2>2, <2>3, AnswerSound
  <1> QED BY <1>2, <1>3

LEMMA AnswerLostStep ==
  ASSUME IInv, NEW p \in Procs, AnswerLost(p)
  PROVE  IInv'
  <1> DEFINE err == IF call[p].over THEN "canceled" ELSE "transient"
  <1>1. err \in Errors /\ err # "none"
    BY DEF Errors
  <1>2. Asking(p) /\ Verdict(call[p]) = "none" /\ Effect(call[p]) /\ Answer(p, err)
    BY DEF AnswerLost
  <1> HIDE DEF err
  <1>3. ServerInv' /\ Outcome(call[p], bucket', object')
    BY <1>2, EffectSound DEF IInv, Asking
  <1> QED BY <1>1, <1>2, <1>3, AnswerSound

LEMMA NotServedStep ==
  ASSUME IInv, NEW p \in Procs, NotServed(p)
  PROVE  IInv'
  <1>1. PICK err \in Errors : err # "none" /\ Answer(p, err)
    BY DEF NotServed, Errors
  <1>2. Asking(p) /\ ServerInv'
    BY DEF NotServed, IInv, ServerInv, Empty
  <1> QED BY <1>1, <1>2, AnswerSound

-----------------------------------------------------------------------------

LEMMA InitIInv == Init => IInv
  <1>1. Sound(NoCall)
    BY ConstantsAssumption DEF NoCall, Sound, CallType, PCs, Errors, Proceeds, Rewound, Reports
  <1> QED BY <1>1 DEF Init, IInv, ServerInv, Empty

LEMMA NextIInv ==
  ASSUME IInv, [Next]_vars
  PROVE  IInv'
  <1>1. ASSUME NEW p \in Procs, NEW kind \in Kinds, NEW k \in Keys \cup {NoKey}, Begin(p, kind, k)
        PROVE  IInv'
    BY <1>1, BeginStep
  <1>2. ASSUME NEW p \in Procs, Cancel(p) \/ End(p)
        PROVE  IInv'
    BY <1>2, CancelStep, EndStep
  <1>3. ASSUME NEW p \in Procs, Run(p)
        PROVE  IInv'
    BY <1>3, AttemptStep, DecideStep, WaitStep, ServedStep, AnswerLostStep, NotServedStep DEF Run
  <1>4. CASE UNCHANGED vars
    BY <1>4 DEF vars, IInv, ServerInv, Empty
  <1> QED BY <1>1, <1>2, <1>3, <1>4 DEF Next

LEMMA Invariance == Spec => []IInv
  BY InitIInv, NextIInv, PTL DEF Spec

\* The calls are well typed, none makes more than MaxAttempts attempts, and
\* objects are in buckets only.
THEOREM TypeCorrect == Spec => []TypeOK
  <1>1. IInv => TypeOK
    BY DEF IInv, ServerInv, Sound, CallType, TypeOK
  <1> QED BY <1>1, Invariance, PTL

\* No object is ever the rest of a body.
THEOREM OnlyWholeBodies == Spec => []BodiesWhole
  <1>1. IInv => BodiesWhole
    BY DEF IInv, ServerInv, BodiesWhole
  <1> QED BY <1>1, Invariance, PTL

\* What a call reports as done was done while it ran.
THEOREM SuccessesAreTrue == Spec => []SuccessIsTrue
  <1>1. IInv => SuccessIsTrue
    BY DEF IInv, Sound, Reports, SuccessIsTrue
  <1> QED BY <1>1, Invariance, PTL

\* A transient error is returned only after the last attempt.
THEOREM NobodyGivesUpEarly == Spec => []AllAttemptsMade
  <1>1. IInv => AllAttemptsMade
    BY DEF IInv, Sound, Reports, AllAttemptsMade
  <1> QED BY <1>1, Invariance, PTL
=============================================================================
