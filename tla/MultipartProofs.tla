--------------------------- MODULE MultipartProofs ---------------------------
(***************************************************************************)
(* What is planned for an upload (PartPlan), the inductive invariant of    *)
(* MultipartUpload, and what follows from it: only whole objects, nothing  *)
(* left behind, the memory bound, and when a stream is too large.          *)
(***************************************************************************)
EXTENDS MultipartUpload, FiniteSetTheorems, TLAPS

-----------------------------------------------------------------------------
(* What choosePartSize and chooseConcurrency promise for every size, request *)
(* and configuration.                                                        *)

LEMMA Division ==
  ASSUME NEW a \in Nat, NEW b \in Nat \ {0}
  PROVE  /\ a \div b \in Nat
         /\ b * (a \div b) <= a
         /\ a < b * (a \div b) + b
  BY SMT

LEMMA Modulo ==
  ASSUME NEW a \in Nat, NEW b \in Nat \ {0}, a < b
  PROVE  a % b = a
  BY SMT

LEMMA Monotone ==
  ASSUME NEW a \in Nat, NEW x \in Int, NEW y \in Int, x <= y
  PROVE  a * x <= a * y
  <1>1. y - x \in Nat
    OBVIOUS
  <1>2. a * (y - x) \in Nat
    BY <1>1, SMT
  <1>3. a * y = a * x + a * (y - x)
    BY SMT
  <1>4. a * x \in Int /\ a * y \in Int
    OBVIOUS
  <1> QED BY <1>2, <1>3, <1>4

LEMMA QuotientType ==
  ASSUME NEW a \in Int, NEW b \in Nat \ {0}
  PROVE  Quotient(a, b) \in Int
  <1>1. CASE a >= 0
    BY <1>1, Division DEF Quotient
  <1>2. CASE a < 0
    <2>1. -a \in Nat
      BY <1>2
    <2> QED BY <1>2, <2>1, Division DEF Quotient
  <1> QED BY <1>1, <1>2

LEMMA Int64Type ==
  ASSUME NEW n \in Int
  PROVE  Int64(n) \in Int
  <1>1. 2 * (MaxInt + 1) \in Nat \ {0}
    BY PlanAssumption
  <1>2. (n + MaxInt + 1) % (2 * (MaxInt + 1)) \in Int
    BY <1>1, PlanAssumption
  <1> QED BY <1>2, PlanAssumption DEF Int64

\* An integer in range is its own int64.
LEMMA Int64Same ==
  ASSUME NEW n \in 0..MaxInt
  PROVE  Int64(n) = n
  <1>1. n + MaxInt + 1 \in Nat /\ 2 * (MaxInt + 1) \in Nat \ {0}
        /\ n + MaxInt + 1 < 2 * (MaxInt + 1)
    BY PlanAssumption
  <1>2. (n + MaxInt + 1) % (2 * (MaxInt + 1)) = n + MaxInt + 1
    BY <1>1, Modulo
  <1> QED BY <1>2, PlanAssumption DEF Int64

LEMMA AskedType ==
  ASSUME NEW requested \in Int, NEW configured \in Int
  PROVE  Asked(requested, configured) \in MinPartSize..MaxPartSize
  BY PlanAssumption DEF Asked, Clamp

\* The part size that choosePartSize returns is one that S3 takes, whatever is
\* requested or configured and whatever the size overflows to.
THEOREM PartSizeInRange ==
  ASSUME NEW size \in Int, NEW requested \in Int, NEW configured \in Int
  PROVE  choosePartSize(size, requested, configured) \in MinPartSize..MaxPartSize
  <1>1. Asked(requested, configured) \in MinPartSize..MaxPartSize
    BY AskedType
  <1>2. Needed(size) \in Int
    BY Int64Type, QuotientType, PlanAssumption DEF Needed
  <1> QED BY <1>1, <1>2, PlanAssumption DEF choosePartSize, Clamp

LEMMA AskedIsLeast ==
  ASSUME NEW size \in Int, NEW requested \in Int, NEW configured \in Int
  PROVE  Asked(requested, configured) <= choosePartSize(size, requested, configured)
  <1>1. /\ Asked(requested, configured) \in MinPartSize..MaxPartSize
        /\ MinPartSize \in Nat /\ MaxPartSize \in Nat
    BY AskedType, PlanAssumption
  <1>2. Needed(size) \in Int
    BY Int64Type, QuotientType, PlanAssumption DEF Needed
  <1> QED BY <1>1, <1>2 DEF choosePartSize, Clamp

\* The size each of MaxParts parts must have, in the sizes that the largest
\* parts can hold.
LEMMA NeededSize ==
  ASSUME NEW size \in Nat, size <= MaxParts * MaxPartSize
  PROVE  /\ Needed(size) \in Nat /\ Needed(size) <= MaxPartSize
         /\ size <= MaxParts * Needed(size)
         /\ MaxParts * Needed(size) <= size + MaxParts - 1
  <1> DEFINE a == size + MaxParts - 1
             q == a \div MaxParts
  <1>0. MaxParts \in Nat \ {0} /\ MaxPartSize \in Nat /\ MaxParts * MaxPartSize \in Nat
    BY PlanAssumption
  <1>1. a \in 0..MaxInt
    BY <1>0, PlanAssumption
  <1>2. Needed(size) = q
    BY <1>1, Int64Same, PlanAssumption DEF Quotient, Needed
  <1>3. q \in Nat /\ MaxParts * q <= a /\ a < MaxParts * q + MaxParts
    BY <1>0, <1>1, Division, PlanAssumption
  <1> HIDE DEF q
  <1>4. size <= MaxParts * q /\ MaxParts * q <= size + MaxParts - 1
    BY <1>0, <1>3
  <1>5. q <= MaxPartSize
    <2> SUFFICES ASSUME q >= MaxPartSize + 1 PROVE FALSE
      BY <1>0, <1>3
    <2>1. MaxParts * q >= MaxParts * (MaxPartSize + 1)
      BY <1>0, <1>3, Monotone
    <2>2. MaxParts * (MaxPartSize + 1) = MaxParts * MaxPartSize + MaxParts
      BY <1>0
    <2>3. MaxParts * q \in Int /\ MaxParts * MaxPartSize \in Int
      BY <1>0, <1>3
    <2>4. MaxParts * q >= MaxParts * MaxPartSize + MaxParts
      BY <2>1, <2>2
    <2>5. MaxParts * q < MaxParts * MaxPartSize + MaxParts
      BY <1>0, <1>4, <2>3
    <2> QED BY <1>0, <2>3, <2>4, <2>5
  <1> QED BY <1>2, <1>3, <1>4, <1>5

\* An object of a size that the largest parts can hold fits MaxParts of the parts
\* that choosePartSize chooses.
THEOREM ObjectFits ==
  ASSUME NEW size \in Nat \ {0}, NEW requested \in Int, NEW configured \in Int,
         size <= MaxParts * MaxPartSize
  PROVE  size <= MaxParts * choosePartSize(size, requested, configured)
  <1> DEFINE p == choosePartSize(size, requested, configured)
  <1>1. Needed(size) \in Nat /\ Needed(size) <= MaxPartSize /\ size <= MaxParts * Needed(size)
    BY NeededSize
  <1>2. p \in Nat /\ Needed(size) <= p
    <2>1. /\ Asked(requested, configured) \in MinPartSize..MaxPartSize
          /\ MinPartSize \in Nat /\ MaxPartSize \in Nat /\ MinPartSize <= MaxPartSize
      BY AskedType, PlanAssumption
    <2> QED BY <1>1, <2>1 DEF choosePartSize, Clamp
  <1> HIDE DEF p
  <1>3. MaxParts * Needed(size) <= MaxParts * p
    BY <1>1, <1>2, PlanAssumption
  <1>4. MaxParts * p \in Int /\ MaxParts * Needed(size) \in Int
    BY <1>1, <1>2, PlanAssumption
  <1>5. size <= MaxParts * p
    BY <1>1, <1>3, <1>4
  <1> QED BY <1>5 DEF p

\* Whenever the part size has to be raised for the size of the object, the
\* object has exactly MaxParts parts: just the number of parts that the read
\* loop refuses (ReadTooLarge of MultipartUpload), after it has read them all.
THEOREM RaisedPartsAreRefused ==
  ASSUME NEW size \in Nat, NEW requested \in Int, NEW configured \in Int,
         size <= MaxParts * MaxPartSize,
         Asked(requested, configured) < choosePartSize(size, requested, configured)
  PROVE  LET p == choosePartSize(size, requested, configured)
         IN  (MaxParts - 1) * p < size /\ size <= MaxParts * p
  <1> DEFINE p == choosePartSize(size, requested, configured)
  <1>0. MaxParts \in Nat \ {0} /\ MinPartSize \in Nat /\ MaxParts <= MinPartSize
    BY PlanAssumption
  <1>1. /\ Needed(size) \in Nat /\ Needed(size) <= MaxPartSize
        /\ size <= MaxParts * Needed(size) /\ MaxParts * Needed(size) <= size + MaxParts - 1
    BY NeededSize
  <1>2. p = Needed(size) /\ MinPartSize < p
    <2>1. /\ Asked(requested, configured) \in MinPartSize..MaxPartSize
          /\ MinPartSize \in Nat /\ MaxPartSize \in Nat /\ MinPartSize <= MaxPartSize
      BY AskedType, PlanAssumption
    <2> QED BY <1>1, <2>1 DEF choosePartSize, Clamp
  <1> HIDE DEF p
  <1>3. (MaxParts - 1) * p = MaxParts * p - p
    BY <1>0, <1>1, <1>2
  <1>4. MaxParts * p \in Int
    BY <1>0, <1>1, <1>2
  <1>5. (MaxParts - 1) * p < size /\ size <= MaxParts * p
    BY <1>0, <1>1, <1>2, <1>3, <1>4
  <1> QED BY <1>5 DEF p

\* The workers that chooseConcurrency allows upload parts that fit the memory
\* budget together, unless one part is beyond it.
THEOREM WorkersFitBudget ==
  ASSUME NEW requested \in Int, NEW configured \in Int,
         NEW p \in Nat \ {0}, NEW memory \in Int
  PROVE  LET c == chooseConcurrency(requested, configured, p, memory)
         IN  c \in 1..MaxConcurrency /\ (memory > 0 => c = 1 \/ c * p <= memory)
  <1> DEFINE asked   == Clamp(IF requested > 0 THEN requested ELSE configured, 1, MaxConcurrency)
             q       == Quotient(memory, p)
             allowed == Clamp(q, 1, MaxInt)
             c       == chooseConcurrency(requested, configured, p, memory)
  <1>1. asked \in 1..MaxConcurrency
    BY PlanAssumption DEF Clamp
  <1>2. CASE memory <= 0
    <2>1. c = asked
      BY <1>2 DEF chooseConcurrency
    <2> QED BY <1>1, <1>2, <2>1
  <1>3. CASE memory > 0
    <2>1. q \in Nat /\ p * q <= memory
      BY <1>3, Division DEF Quotient
    <2>2. c = IF asked > allowed THEN allowed ELSE asked
      BY <1>3 DEF chooseConcurrency
    <2> HIDE DEF q, c, asked
    <2>3. allowed \in Nat \ {0} /\ (allowed = 1 \/ allowed <= q)
      BY <2>1, PlanAssumption DEF Clamp
    <2> HIDE DEF allowed
    <2>4. c \in 1..MaxConcurrency /\ (c = 1 \/ c <= q)
      BY <1>1, <2>1, <2>2, <2>3, PlanAssumption
    <2>5. c <= q => p * c <= p * q
      BY <2>1, <2>4
    <2>6. p * c \in Int /\ p * q \in Int /\ c * p = p * c
      BY <2>1, <2>4
    <2>7. c \in 1..MaxConcurrency /\ (c = 1 \/ c * p <= memory)
      BY <2>1, <2>4, <2>5, <2>6
    <2> QED BY <2>7 DEF c
  <1> QED BY <1>2, <1>3

-----------------------------------------------------------------------------
(* The inductive invariant of the upload. *)

\* What is chosen for the call never changes.
Chosen ==
    /\ partSize = choosePartSize(req.size, req.partSize, cfg.partSize)
    /\ concurrency = chooseConcurrency(req.concurrency, cfg.concurrency, partSize, cfg.maxMemory)
    /\ cfg.maxMemory > 0

\* The workers have nothing to do, and nothing is on its way to them.
Quiet == queue = << >> /\ \A w \in Workers : worker[w] = 0

\* What the place of the calling goroutine says of the rest.
Control ==
    /\ pc \notin {"reading", "sending", "joining"} => Quiet
    /\ pc \in {"init", "empty", "putting"} => next = 1
    /\ IF pc = "sending" THEN held.part = next ELSE held.part = 0
    /\ workerErr # "none" \/ readErr # "none" => cancelled
    /\ pc \in {"init", "empty", "putting", "completing", "answering"} =>
         workerErr = "none" /\ readErr = "none"
    /\ readErr = "tooLarge" => pc \notin {"init", "reading", "sending"}

\* What becomes of the upload and of the call.
Outcome ==
    /\ pc \in {"init", "putting"} => object = NoObject
    /\ pc = "init" => upload = "none"
    /\ object # NoObject => /\ pc \in {"completing", "answering", "aborting", "done"}
                            /\ workerErr = "none" /\ readErr = "none"
    /\ pc = "aborting" => result # "none"
    /\ pc \notin {"aborting", "done"} => result = "none"
    /\ pc = "done" /\ result = "none" => object # NoObject
    /\ pc \in {"putting", "done"} /\ upload = "open" => lost

\* Where the parts are that were sent.
InHand(n) == \/ n \in parts
             \/ \E k \in 1..Len(queue) : queue[k] = n
             \/ \E w \in Workers : worker[w] = n

Accounts ==
    /\ readErr = "none" => \A n \in Jobs : InHand(n) => n < next
    /\ ~cancelled => \A n \in Jobs : n < next => InHand(n)
    /\ pc = "answering" => parts = 1..(next - 1)
    /\ object # NoObject => object = 1..(next - 1)

\* How much of the stream has been read, in parts.
PartsRead == IF pc = "sending" THEN next ELSE next - 1

Bytes ==
    /\ pc \in {"init", "reading", "sending"} =>
         /\ PartsRead > 0 => req.length > (PartsRead - 1) * partSize
         /\ held.left > 0 => held.left = req.length - PartsRead * partSize
    /\ pc = "joining" /\ readErr = "none" => held.left = 0
    /\ pc \in {"empty", "completing", "answering"} => held.left = 0
    /\ pc = "putting" \/ object # NoObject => held.left = 0 \/ req.size = 0
    /\ TooLargeExplained

IInv == TypeOK /\ Chosen /\ Control /\ Outcome /\ Accounts /\ Bytes

LEMMA Constants ==
  /\ MaxParts \in Nat \ {0} /\ MaxConcurrency \in Nat \ {0} /\ MaxAttempts \in Nat \ {0}
  /\ MinPartSize \in Nat \ {0} /\ MaxPartSize \in Nat
  BY PlanAssumption, ConstantsAssumption

LEMMA SetupFacts ==
  ASSUME IInv
  PROVE  /\ req.size \in Int /\ req.partSize \in Int /\ req.length \in Nat
         /\ cfg.partSize \in Int /\ cfg.maxMemory \in Nat \ {0}
         /\ partSize \in Nat \ {0} /\ concurrency \in Nat \ {0}
         /\ held.left \in Nat /\ held.end \in Ends /\ next \in 1..(MaxParts + 1)
         /\ Asked(req.partSize, cfg.partSize) \in Nat
         /\ Asked(req.partSize, cfg.partSize) <= partSize
  <1>1. /\ req.size \in Int /\ req.partSize \in Int /\ req.length \in Nat
        /\ cfg.partSize \in Int /\ cfg.maxMemory \in Nat \ {0}
        /\ partSize \in Nat \ {0} /\ concurrency \in Nat \ {0}
        /\ held.left \in Nat /\ held.end \in Ends /\ next \in 1..(MaxParts + 1)
    BY Constants DEF IInv, TypeOK, Chosen, Upload, MultipartConfig
  <1>2. Asked(req.partSize, cfg.partSize) \in MinPartSize..MaxPartSize
    BY <1>1, AskedType
  <1>3. Asked(req.partSize, cfg.partSize) <= partSize
    BY <1>1, AskedIsLeast DEF IInv, Chosen
  <1> QED BY <1>1, <1>2, <1>3, Constants

LEMMA CreateNothingStep ==
  ASSUME IInv, CreateNothing, UNCHANGED setup
  PROVE  IInv'
  <1>1. TypeOK'
    BY Constants DEF IInv, Control, TypeOK, setup, Jobs, Errors, Ends, NoObject, Workers, CreateNothing, main, pool, server
  <1>2. Chosen'
    BY DEF IInv, Chosen, setup
  <1>3. Control'
    BY Constants DEF IInv, Control, TypeOK, setup, Jobs, Quiet, Workers, CreateNothing, main, pool, server
  <1>4. Outcome'
    BY Constants DEF IInv, Control, Outcome, TypeOK, setup, Jobs, NoObject, Errors, CreateNothing, main, pool, server
  <1>5. Accounts'
    BY Constants DEF IInv, Control, Outcome, Accounts, InHand, TypeOK, setup, Jobs, Quiet, Workers, NoObject, CreateNothing, main, pool, server
  <1>6. Bytes'
    BY Constants DEF IInv, Control, Outcome, Bytes, PartsRead, TooLargeExplained, TypeOK, setup, Jobs, NoObject, CreateNothing, main, pool, server
  <1> QED BY <1>1, <1>2, <1>3, <1>4, <1>5, <1>6 DEF IInv

LEMMA CreateStep ==
  ASSUME IInv, Create, UNCHANGED setup
  PROVE  IInv'
  <1>1. TypeOK'
    BY Constants DEF IInv, Control, TypeOK, setup, Jobs, Errors, Ends, NoObject, Workers, Create, main, pool, server
  <1>2. Chosen'
    BY DEF IInv, Chosen, setup
  <1>3. Control'
    BY Constants DEF IInv, Control, TypeOK, setup, Jobs, Quiet, Workers, Create, main, pool, server
  <1>4. Outcome'
    BY Constants DEF IInv, Control, Outcome, TypeOK, setup, Jobs, NoObject, Errors, Create, main, pool, server
  <1>5. Accounts'
    BY Constants DEF IInv, Control, Outcome, Accounts, InHand, TypeOK, setup, Jobs, Quiet, Workers, NoObject, Create, main, pool, server
  <1>6. Bytes'
    BY Constants DEF IInv, Control, Outcome, Bytes, PartsRead, TooLargeExplained, TypeOK, setup, Jobs, NoObject, Create, main, pool, server
  <1> QED BY <1>1, <1>2, <1>3, <1>4, <1>5, <1>6 DEF IInv

LEMMA CreateFailsStep ==
  ASSUME IInv, CreateFails, UNCHANGED setup
  PROVE  IInv'
  <1>1. TypeOK'
    BY Constants DEF IInv, Control, TypeOK, setup, Jobs, Errors, Ends, NoObject, Workers, CreateFails, main, pool, server
  <1>2. Chosen'
    BY DEF IInv, Chosen, setup
  <1>3. Control'
    BY Constants DEF IInv, Control, TypeOK, setup, Jobs, Quiet, Workers, CreateFails, main, pool, server
  <1>4. Outcome'
    BY Constants DEF IInv, Control, Outcome, TypeOK, setup, Jobs, NoObject, Errors, CreateFails, main, pool, server
  <1>5. Accounts'
    BY Constants DEF IInv, Control, Outcome, Accounts, InHand, TypeOK, setup, Jobs, Quiet, Workers, NoObject, CreateFails, main, pool, server
  <1>6. Bytes'
    BY Constants DEF IInv, Control, Outcome, Bytes, PartsRead, TooLargeExplained, TypeOK, setup, Jobs, NoObject, CreateFails, main, pool, server
  <1> QED BY <1>1, <1>2, <1>3, <1>4, <1>5, <1>6 DEF IInv

LEMMA ReadCanceledStep ==
  ASSUME IInv, ReadCanceled, UNCHANGED setup
  PROVE  IInv'
  <1>1. TypeOK'
    BY Constants DEF IInv, Control, TypeOK, setup, Jobs, Errors, Ends, NoObject, Workers, ReadCanceled, Break, main, pool, server
  <1>2. Chosen'
    BY DEF IInv, Chosen, setup
  <1>3. Control'
    BY Constants DEF IInv, Control, TypeOK, setup, Jobs, Quiet, Workers, ReadCanceled, Break, main, pool, server
  <1>4. Outcome'
    BY Constants DEF IInv, Control, Outcome, TypeOK, setup, Jobs, NoObject, Errors, ReadCanceled, Break, main, pool, server
  <1>5. Accounts'
    BY Constants DEF IInv, Control, Outcome, Accounts, InHand, TypeOK, setup, Jobs, Quiet, Workers, NoObject, ReadCanceled, Break, main, pool, server
  <1>6. Bytes'
    BY Constants DEF IInv, Control, Outcome, Bytes, PartsRead, TooLargeExplained, TypeOK, setup, Jobs, NoObject, ReadCanceled, Break, main, pool, server
  <1> QED BY <1>1, <1>2, <1>3, <1>4, <1>5, <1>6 DEF IInv

LEMMA ReadTooLargeStep ==
  ASSUME IInv, ReadTooLarge, UNCHANGED setup
  PROVE  IInv'
  <1>1. TypeOK'
    BY Constants DEF IInv, Control, TypeOK, setup, Jobs, Errors, Ends, NoObject, Workers, ReadTooLarge, Break, main, pool, server
  <1>2. Chosen'
    BY DEF IInv, Chosen, setup
  <1>3. Control'
    BY Constants DEF IInv, Control, TypeOK, setup, Jobs, Quiet, Workers, ReadTooLarge, Break, main, pool, server
  <1>4. Outcome'
    BY Constants DEF IInv, Control, Outcome, TypeOK, setup, Jobs, NoObject, Errors, ReadTooLarge, Break, main, pool, server
  <1>5. Accounts'
    BY Constants DEF IInv, Control, Outcome, Accounts, InHand, TypeOK, setup, Jobs, Quiet, Workers, NoObject, ReadTooLarge, Break, main, pool, server
  <1>6. Bytes'
    <2>1. /\ pc = "reading" /\ next = MaxParts + 1 /\ readErr' = "tooLarge" /\ pc' = "joining"
          /\ UNCHANGED <<held, object, setup>>
      BY Constants DEF ReadTooLarge, Break, IInv, TypeOK, server
    <2>2. /\ req.length > (MaxParts - 1) * partSize
          /\ held.left > 0 => held.left = req.length - MaxParts * partSize
      BY <2>1, Constants DEF IInv, Bytes, PartsRead
    <2>3. req.length > (MaxParts - 1) * Asked(req.partSize, cfg.partSize)
      <3> DEFINE asked == Asked(req.partSize, cfg.partSize)
      <3>1. asked \in Nat /\ asked <= partSize /\ partSize \in Nat /\ MaxParts - 1 \in Nat
        BY SetupFacts, Constants
      <3> HIDE DEF asked
      <3>2. (MaxParts - 1) * asked <= (MaxParts - 1) * partSize
        BY <3>1, Monotone
      <3>3. (MaxParts - 1) * asked \in Int /\ (MaxParts - 1) * partSize \in Int
        BY <3>1
      <3>4. req.length > (MaxParts - 1) * asked
        BY <2>2, <3>2, <3>3, SetupFacts
      <3> QED BY <3>4 DEF asked
    <2>4. ASSUME req.length = req.size, req.size <= MaxParts * MaxPartSize, held.left > 0
          PROVE  FALSE
      <3>1. MaxParts * partSize \in Nat
        BY SetupFacts, Constants
      <3>2. req.size \in Nat \ {0} /\ req.size > MaxParts * partSize
        BY <2>2, <2>4, <3>1, SetupFacts
      <3>3. req.size <= MaxParts * partSize
        BY <2>4, <3>2, SetupFacts, ObjectFits DEF IInv, Chosen
      <3> QED BY <3>1, <3>2, <3>3
    <2>5. TooLargeExplained'
      BY <2>1, <2>3, <2>4, SetupFacts DEF TooLargeExplained, setup
    <2> QED BY <2>1, <2>5 DEF Bytes, IInv, Outcome
  <1> QED BY <1>1, <1>2, <1>3, <1>4, <1>5, <1>6 DEF IInv

LEMMA ReadPartStep ==
  ASSUME IInv, ReadPart, UNCHANGED setup
  PROVE  IInv'
  <1>1. TypeOK'
    BY Constants DEF IInv, Control, TypeOK, setup, Jobs, Errors, Ends, NoObject, Workers, ReadPart, main, pool, server
  <1>2. Chosen'
    BY DEF IInv, Chosen, setup
  <1>3. Control'
    BY Constants DEF IInv, Control, TypeOK, setup, Jobs, Quiet, Workers, ReadPart, main, pool, server
  <1>4. Outcome'
    BY Constants DEF IInv, Control, Outcome, TypeOK, setup, Jobs, NoObject, Errors, ReadPart, main, pool, server
  <1>5. Accounts'
    BY Constants DEF IInv, Control, Outcome, Accounts, InHand, TypeOK, setup, Jobs, Quiet, Workers, NoObject, ReadPart, main, pool, server
  <1>6. Bytes'
    <2>1. /\ pc = "reading" /\ pc' = "sending" /\ PartsRead' = next /\ PartsRead = next - 1
          /\ held.left > 0
          /\ held'.left = 0 \/ (held.left >= partSize /\ held'.left = held.left - partSize)
          /\ UNCHANGED <<object, readErr, next, setup>>
      BY DEF ReadPart, PartsRead, server
    <2>2. held.left = req.length - (next - 1) * partSize
      BY <2>1 DEF IInv, Bytes
    <2>3. next * partSize = (next - 1) * partSize + partSize /\ (next - 1) * partSize \in Int
      BY SetupFacts, Constants
    <2>4. req.length > (next - 1) * partSize /\ (held'.left > 0 => held'.left = req.length - next * partSize)
      BY <2>1, <2>2, <2>3, SetupFacts
    <2>5. TooLargeExplained' /\ object = NoObject
      BY <2>1 DEF IInv, Control, Outcome, Bytes, TooLargeExplained
    <2> QED BY <2>1, <2>4, <2>5 DEF Bytes, setup
  <1> QED BY <1>1, <1>2, <1>3, <1>4, <1>5, <1>6 DEF IInv

LEMMA ReadNothingStep ==
  ASSUME IInv, ReadNothing, UNCHANGED setup
  PROVE  IInv'
  <1>1. TypeOK'
    BY Constants DEF IInv, Control, TypeOK, setup, Jobs, Errors, Ends, NoObject, Workers, ReadNothing, main, pool, server
  <1>2. Chosen'
    BY DEF IInv, Chosen, setup
  <1>3. Control'
    BY Constants DEF IInv, Control, TypeOK, setup, Jobs, Quiet, Workers, ReadNothing, main, pool, server
  <1>4. Outcome'
    BY Constants DEF IInv, Control, Outcome, TypeOK, setup, Jobs, NoObject, Errors, ReadNothing, main, pool, server
  <1>5. Accounts'
    BY Constants DEF IInv, Control, Outcome, Accounts, InHand, TypeOK, setup, Jobs, Quiet, Workers, NoObject, ReadNothing, main, pool, server
  <1>6. Bytes'
    BY Constants DEF IInv, Control, Outcome, Bytes, PartsRead, TooLargeExplained, TypeOK, setup, Jobs, NoObject, ReadNothing, main, pool, server
  <1> QED BY <1>1, <1>2, <1>3, <1>4, <1>5, <1>6 DEF IInv

LEMMA ReadEOFStep ==
  ASSUME IInv, ReadEOF, UNCHANGED setup
  PROVE  IInv'
  <1>1. TypeOK'
    BY Constants DEF IInv, Control, TypeOK, setup, Jobs, Errors, Ends, NoObject, Workers, ReadEOF, Break, main, pool, server
  <1>2. Chosen'
    BY DEF IInv, Chosen, setup
  <1>3. Control'
    BY Constants DEF IInv, Control, TypeOK, setup, Jobs, Quiet, Workers, ReadEOF, Break, main, pool, server
  <1>4. Outcome'
    BY Constants DEF IInv, Control, Outcome, TypeOK, setup, Jobs, NoObject, Errors, ReadEOF, Break, main, pool, server
  <1>5. Accounts'
    BY Constants DEF IInv, Control, Outcome, Accounts, InHand, TypeOK, setup, Jobs, Quiet, Workers, NoObject, ReadEOF, Break, main, pool, server
  <1>6. Bytes'
    BY Constants DEF IInv, Control, Outcome, Bytes, PartsRead, TooLargeExplained, TypeOK, setup, Jobs, NoObject, ReadEOF, Break, main, pool, server
  <1> QED BY <1>1, <1>2, <1>3, <1>4, <1>5, <1>6 DEF IInv

LEMMA ReadFailsStep ==
  ASSUME IInv, ReadFails, UNCHANGED setup
  PROVE  IInv'
  <1>1. TypeOK'
    BY Constants DEF IInv, Control, TypeOK, setup, Jobs, Errors, Ends, NoObject, Workers, ReadFails, Break, main, pool, server
  <1>2. Chosen'
    BY DEF IInv, Chosen, setup
  <1>3. Control'
    BY Constants DEF IInv, Control, TypeOK, setup, Jobs, Quiet, Workers, ReadFails, Break, main, pool, server
  <1>4. Outcome'
    BY Constants DEF IInv, Control, Outcome, TypeOK, setup, Jobs, NoObject, Errors, ReadFails, Break, main, pool, server
  <1>5. Accounts'
    BY Constants DEF IInv, Control, Outcome, Accounts, InHand, TypeOK, setup, Jobs, Quiet, Workers, NoObject, ReadFails, Break, main, pool, server
  <1>6. Bytes'
    BY Constants DEF IInv, Control, Outcome, Bytes, PartsRead, TooLargeExplained, TypeOK, setup, Jobs, NoObject, ReadFails, Break, main, pool, server
  <1> QED BY <1>1, <1>2, <1>3, <1>4, <1>5, <1>6 DEF IInv

\* What AfterSend does to the loop.
LEMMA AfterSendFacts ==
  ASSUME IInv, pc = "sending", NEW err \in {"none", "canceled"}, AfterSend(err)
  PROVE  /\ held.part = next /\ next \in Jobs
         /\ held' = [part |-> 0, end |-> held.end, left |-> held.left]
         /\ \/ pc' = "joining" /\ readErr' = "read" /\ cancelled' = TRUE /\ next' = next
            \/ /\ pc' = "reading" /\ next' = next + 1 /\ cancelled' = cancelled
               /\ readErr' = IF err = "none" THEN readErr ELSE err
  <1>1. held \in [part: Jobs \cup {0}, end: Ends, left: Nat] /\ next \in 1..(MaxParts + 1)
    BY DEF IInv, TypeOK
  <1>2. held.part = next
    BY DEF IInv, Control
  <1>3. next \in Jobs
    BY <1>1, <1>2
  <1>4. held' = [part |-> 0, end |-> held.end, left |-> held.left]
    BY <1>1 DEF AfterSend
  <1>5. CASE held.end = "failed"
    BY <1>2, <1>3, <1>4, <1>5 DEF AfterSend, Break
  <1>6. CASE held.end # "failed"
    BY <1>2, <1>3, <1>4, <1>6 DEF AfterSend
  <1> QED BY <1>5, <1>6

LEMMA SendStep ==
  ASSUME IInv, Send, UNCHANGED setup
  PROVE  IInv'
  <1>0. /\ held.part = next /\ next \in Jobs /\ pc = "sending"
        /\ held' = [part |-> 0, end |-> held.end, left |-> held.left]
        /\ \/ pc' = "joining" /\ readErr' = "read" /\ cancelled' = TRUE /\ next' = next
           \/ /\ pc' = "reading" /\ next' = next + 1 /\ cancelled' = cancelled
              /\ readErr' = readErr
    BY AfterSendFacts DEF Send
  <1>1. TypeOK'
    <2>1. /\ next' \in 1..(MaxParts + 1) /\ held' \in [part: Jobs \cup {0}, end: Ends, left: Nat]
          /\ pc' \in {"joining", "reading"} /\ readErr' \in Errors /\ cancelled' \in BOOLEAN
      <3>1. readErr \in Errors /\ cancelled \in BOOLEAN
        BY DEF IInv, TypeOK
      <3>2. held' \in [part: Jobs \cup {0}, end: Ends, left: Nat]
        BY <1>0, SetupFacts
      <3>3. next' \in 1..(MaxParts + 1)
        BY <1>0, SetupFacts, Constants DEF Jobs
      <3> QED BY <1>0, <3>1, <3>2, <3>3 DEF Errors
    <2>2. queue' \in Seq(Jobs) /\ Len(queue') <= concurrency
      <3>1. queue \in Seq(Jobs) /\ Len(queue) <= concurrency
        BY DEF IInv, TypeOK
      <3>2. queue' = Append(queue, next) /\ Len(queue) < concurrency /\ next \in Jobs
        BY <1>0 DEF Send
      <3>3. concurrency \in Nat /\ concurrency' = concurrency
        BY SetupFacts DEF setup
      <3> QED BY <3>1, <3>2, <3>3
    <2> QED BY <2>1, <2>2 DEF Send, IInv, TypeOK, setup, pool, server, Workers
  <1>2. Chosen'
    BY DEF IInv, Chosen, setup
  <1>3. Control'
    BY Constants DEF IInv, Control, TypeOK, setup, Jobs, Quiet, Workers, Send, AfterSend, Break, main, pool, server
  <1>4. Outcome'
    BY Constants DEF IInv, Control, Outcome, TypeOK, setup, Jobs, NoObject, Errors, Send, AfterSend, Break, main, pool, server
  <1>5. Accounts'
    <2>1. /\ pc = "sending" /\ next \in Jobs /\ queue' = Append(queue, next)
          /\ \/ readErr' = "read" /\ cancelled' = TRUE
             \/ readErr' = readErr /\ next' = next + 1 /\ cancelled' = cancelled
          /\ pc' # "answering"
          /\ UNCHANGED <<parts, worker, object, setup>>
      BY AfterSendFacts DEF Send, pool, server
    <2>2. object = NoObject /\ queue \in Seq(Jobs)
      BY <2>1 DEF IInv, Outcome, TypeOK
    <2>3. \A n \in Jobs : InHand(n)' <=> InHand(n) \/ n = next
      BY <2>1, <2>2 DEF InHand, Workers, setup
    <2>4. \A n \in Jobs : n \in Int /\ next \in Int
      BY <2>1 DEF Jobs
    <2>5. /\ readErr = "none" => \A n \in Jobs : InHand(n) => n < next
          /\ ~cancelled => \A n \in Jobs : n < next => InHand(n)
      BY DEF IInv, Accounts
    <2>6. readErr' = "none" => \A n \in Jobs : InHand(n)' => n < next'
      BY <2>1, <2>3, <2>4, <2>5
    <2>7. ~cancelled' => \A n \in Jobs : n < next' => InHand(n)'
      BY <2>1, <2>3, <2>4, <2>5
    <2> QED BY <2>1, <2>2, <2>6, <2>7 DEF Accounts
  <1>6. Bytes'
    <2>1. /\ PartsRead = next /\ held'.left = held.left
          /\ \/ pc' = "joining" /\ readErr' = "read"
             \/ pc' = "reading" /\ PartsRead' = next /\ readErr' = readErr
          /\ UNCHANGED <<object, setup>>
      <3>1. PartsRead = next /\ next \in Int
        BY <1>0, SetupFacts DEF PartsRead
      <3>2. pc' = "reading" => PartsRead' = next
        BY <1>0, <3>1 DEF PartsRead
      <3> QED BY <1>0, <3>1, <3>2 DEF Send, server
    <2>2. TooLargeExplained' /\ object = NoObject
      BY <1>0, <2>1 DEF IInv, Control, Outcome, Bytes, TooLargeExplained
    <2> QED BY <1>0, <2>1, <2>2 DEF IInv, Bytes, setup
  <1> QED BY <1>1, <1>2, <1>3, <1>4, <1>5, <1>6 DEF IInv

LEMMA SendCanceledStep ==
  ASSUME IInv, SendCanceled, UNCHANGED setup
  PROVE  IInv'
  <1>0. /\ held.part = next /\ next \in Jobs /\ pc = "sending"
        /\ held' = [part |-> 0, end |-> held.end, left |-> held.left]
        /\ \/ pc' = "joining" /\ readErr' = "read" /\ cancelled' = TRUE /\ next' = next
           \/ /\ pc' = "reading" /\ next' = next + 1 /\ cancelled' = cancelled
              /\ readErr' = "canceled"
    BY AfterSendFacts DEF SendCanceled
  <1>1. TypeOK'
    <2>1. /\ next' \in 1..(MaxParts + 1) /\ held' \in [part: Jobs \cup {0}, end: Ends, left: Nat]
          /\ pc' \in {"joining", "reading"} /\ readErr' \in Errors /\ cancelled' \in BOOLEAN
      <3>1. readErr \in Errors /\ cancelled \in BOOLEAN
        BY DEF IInv, TypeOK
      <3>2. held' \in [part: Jobs \cup {0}, end: Ends, left: Nat]
        BY <1>0, SetupFacts
      <3>3. next' \in 1..(MaxParts + 1)
        BY <1>0, SetupFacts, Constants DEF Jobs
      <3> QED BY <1>0, <3>1, <3>2, <3>3 DEF Errors
    <2>2. queue' \in Seq(Jobs) /\ Len(queue') <= concurrency
      <3>1. queue \in Seq(Jobs) /\ Len(queue) <= concurrency
        BY DEF IInv, TypeOK
      <3>2. queue' = queue /\ concurrency' = concurrency
        BY DEF SendCanceled, setup
      <3> QED BY <3>1, <3>2
    <2> QED BY <2>1, <2>2 DEF SendCanceled, IInv, TypeOK, setup, pool, server, Workers
  <1>2. Chosen'
    BY DEF IInv, Chosen, setup
  <1>3. Control'
    BY Constants DEF IInv, Control, TypeOK, setup, Jobs, Quiet, Workers, SendCanceled, AfterSend, Break, main, pool, server
  <1>4. Outcome'
    BY Constants DEF IInv, Control, Outcome, TypeOK, setup, Jobs, NoObject, Errors, SendCanceled, AfterSend, Break, main, pool, server
  <1>5. Accounts'
    BY Constants DEF IInv, Control, Outcome, Accounts, InHand, TypeOK, setup, Jobs, Quiet, Workers, NoObject, SendCanceled, AfterSend, Break, main, pool, server
  <1>6. Bytes'
    <2>1. /\ PartsRead = next /\ held'.left = held.left
          /\ \/ pc' = "joining" /\ readErr' = "read"
             \/ pc' = "reading" /\ PartsRead' = next /\ readErr' = "canceled"
          /\ UNCHANGED <<object, setup>>
      <3>1. PartsRead = next /\ next \in Int
        BY <1>0, SetupFacts DEF PartsRead
      <3>2. pc' = "reading" => PartsRead' = next
        BY <1>0, <3>1 DEF PartsRead
      <3> QED BY <1>0, <3>1, <3>2 DEF SendCanceled, server
    <2>2. TooLargeExplained' /\ object = NoObject
      BY <1>0, <2>1 DEF IInv, Control, Outcome, Bytes, TooLargeExplained
    <2> QED BY <1>0, <2>1, <2>2 DEF IInv, Bytes, setup
  <1> QED BY <1>1, <1>2, <1>3, <1>4, <1>5, <1>6 DEF IInv

LEMMA JoinStep ==
  ASSUME IInv, Join, UNCHANGED setup
  PROVE  IInv'
  <1>1. TypeOK'
    BY Constants DEF IInv, Control, TypeOK, setup, Jobs, Errors, Ends, NoObject, Workers, Join, main, pool, server
  <1>2. Chosen'
    BY DEF IInv, Chosen, setup
  <1>3. Control'
    BY Constants DEF IInv, Control, TypeOK, setup, Jobs, Quiet, Workers, Join, main, pool, server
  <1>4. Outcome'
    BY Constants DEF IInv, Control, Outcome, TypeOK, setup, Jobs, NoObject, Errors, Join, main, pool, server
  <1>5. Accounts'
    BY Constants DEF IInv, Control, Outcome, Accounts, InHand, TypeOK, setup, Jobs, Quiet, Workers, NoObject, Join, main, pool, server
  <1>6. Bytes'
    BY Constants DEF IInv, Control, Outcome, Bytes, PartsRead, TooLargeExplained, TypeOK, setup, Jobs, NoObject, Join, main, pool, server
  <1> QED BY <1>1, <1>2, <1>3, <1>4, <1>5, <1>6 DEF IInv

LEMMA CompleteSendStep ==
  ASSUME IInv, CompleteSend, UNCHANGED setup
  PROVE  IInv'
  <1>1. TypeOK'
    BY Constants DEF IInv, Control, TypeOK, setup, Jobs, Errors, Ends, NoObject, Workers, CompleteSend, Fail, main, pool, server
  <1>2. Chosen'
    BY DEF IInv, Chosen, setup
  <1>3. Control'
    BY Constants DEF IInv, Control, TypeOK, setup, Jobs, Quiet, Workers, CompleteSend, Fail, main, pool, server
  <1>4. Outcome'
    BY Constants DEF IInv, Control, Outcome, TypeOK, setup, Jobs, NoObject, Errors, CompleteSend, Fail, main, pool, server
  <1>5. Accounts'
    <2>1. /\ pc = "completing" /\ queue = << >> /\ \A w \in Workers : worker[w] = 0
          /\ parts \subseteq Jobs /\ readErr = "none"
      BY DEF CompleteSend, IInv, TypeOK, Control, Quiet
    <2>2. ASSUME ~cancelled PROVE parts = 1..(next - 1)
      <3>1. \A n \in Jobs : InHand(n) <=> n \in parts
        BY <2>1 DEF InHand, Jobs
      <3>2. \A n \in Jobs : n \in parts <=> n < next
        BY <2>1, <2>2, <3>1, SetupFacts, Constants DEF IInv, Accounts, Jobs
      <3>3. parts \subseteq Jobs /\ 1..(next - 1) \subseteq Jobs
        BY <2>1, SetupFacts, Constants DEF Jobs
      <3>4. \A n \in Jobs : n < next <=> n \in 1..(next - 1)
        BY SetupFacts, Constants DEF Jobs
      <3> QED BY <3>2, <3>3, <3>4
    <2>3. pc' = "answering" => ~cancelled
      BY DEF CompleteSend, Fail
    <2> QED BY <2>2, <2>3 DEF CompleteSend, IInv, Accounts, InHand, Workers, setup, pool, server
  <1>6. Bytes'
    BY Constants DEF IInv, Control, Outcome, Bytes, PartsRead, TooLargeExplained, TypeOK, setup, Jobs, NoObject, CompleteSend, Fail, main, pool, server
  <1> QED BY <1>1, <1>2, <1>3, <1>4, <1>5, <1>6 DEF IInv

LEMMA CompleteDoneStep ==
  ASSUME IInv, CompleteDone, UNCHANGED setup
  PROVE  IInv'
  <1>1. TypeOK'
    BY Constants DEF IInv, Control, TypeOK, setup, Jobs, Errors, Ends, NoObject, Workers, CompleteDone, main, pool, server
  <1>2. Chosen'
    BY DEF IInv, Chosen, setup
  <1>3. Control'
    BY Constants DEF IInv, Control, TypeOK, setup, Jobs, Quiet, Workers, CompleteDone, main, pool, server
  <1>4. Outcome'
    BY Constants DEF IInv, Control, Outcome, TypeOK, setup, Jobs, NoObject, Errors, CompleteDone, main, pool, server
  <1>5. Accounts'
    BY Constants DEF IInv, Control, Outcome, Accounts, InHand, TypeOK, setup, Jobs, Quiet, Workers, NoObject, CompleteDone, main, pool, server
  <1>6. Bytes'
    BY Constants DEF IInv, Control, Outcome, Bytes, PartsRead, TooLargeExplained, TypeOK, setup, Jobs, NoObject, CompleteDone, main, pool, server
  <1> QED BY <1>1, <1>2, <1>3, <1>4, <1>5, <1>6 DEF IInv

LEMMA CompleteFailsStep ==
  ASSUME IInv, CompleteFails, UNCHANGED setup
  PROVE  IInv'
  <1>1. TypeOK'
    <2>1. attempt' \in 1..MaxAttempts /\ pc' \in {"aborting", "completing"} /\ result' \in Errors
      BY Constants DEF CompleteFails, Fail, IInv, TypeOK, Errors
    <2>2. upload' \in {"open", "none", "gone"} /\ (object' = NoObject \/ object' \subseteq Jobs)
      BY DEF CompleteFails, IInv, TypeOK
    <2> QED BY <2>1, <2>2 DEF CompleteFails, IInv, TypeOK, setup, pool, Workers
  <1>2. Chosen'
    BY DEF IInv, Chosen, setup
  <1>3. Control'
    BY Constants DEF IInv, Control, TypeOK, setup, Jobs, Quiet, Workers, CompleteFails, Fail, main, pool, server
  <1>4. Outcome'
    BY Constants DEF IInv, Control, Outcome, TypeOK, setup, Jobs, NoObject, Errors, CompleteFails, Fail, main, pool, server
  <1>5. Accounts'
    BY Constants DEF IInv, Control, Outcome, Accounts, InHand, TypeOK, setup, Jobs, Quiet, Workers, NoObject, CompleteFails, Fail, main, pool, server
  <1>6. Bytes'
    BY Constants DEF IInv, Control, Outcome, Bytes, PartsRead, TooLargeExplained, TypeOK, setup, Jobs, NoObject, CompleteFails, Fail, main, pool, server
  <1> QED BY <1>1, <1>2, <1>3, <1>4, <1>5, <1>6 DEF IInv

LEMMA AbortStep ==
  ASSUME IInv, Abort, UNCHANGED setup
  PROVE  IInv'
  <1>1. TypeOK'
    BY Constants DEF IInv, Control, TypeOK, setup, Jobs, Errors, Ends, NoObject, Workers, Abort, main, pool, server
  <1>2. Chosen'
    BY DEF IInv, Chosen, setup
  <1>3. Control'
    BY Constants DEF IInv, Control, TypeOK, setup, Jobs, Quiet, Workers, Abort, main, pool, server
  <1>4. Outcome'
    BY Constants DEF IInv, Control, Outcome, TypeOK, setup, Jobs, NoObject, Errors, Abort, main, pool, server
  <1>5. Accounts'
    BY Constants DEF IInv, Control, Outcome, Accounts, InHand, TypeOK, setup, Jobs, Quiet, Workers, NoObject, Abort, main, pool, server
  <1>6. Bytes'
    BY Constants DEF IInv, Control, Outcome, Bytes, PartsRead, TooLargeExplained, TypeOK, setup, Jobs, NoObject, Abort, main, pool, server
  <1> QED BY <1>1, <1>2, <1>3, <1>4, <1>5, <1>6 DEF IInv

LEMMA AbortFailsStep ==
  ASSUME IInv, AbortFails, UNCHANGED setup
  PROVE  IInv'
  <1>1. TypeOK'
    BY Constants DEF IInv, Control, TypeOK, setup, Jobs, Errors, Ends, NoObject, Workers, AbortFails, main, pool, server
  <1>2. Chosen'
    BY DEF IInv, Chosen, setup
  <1>3. Control'
    BY Constants DEF IInv, Control, TypeOK, setup, Jobs, Quiet, Workers, AbortFails, main, pool, server
  <1>4. Outcome'
    BY Constants DEF IInv, Control, Outcome, TypeOK, setup, Jobs, NoObject, Errors, AbortFails, main, pool, server
  <1>5. Accounts'
    BY Constants DEF IInv, Control, Outcome, Accounts, InHand, TypeOK, setup, Jobs, Quiet, Workers, NoObject, AbortFails, main, pool, server
  <1>6. Bytes'
    BY Constants DEF IInv, Control, Outcome, Bytes, PartsRead, TooLargeExplained, TypeOK, setup, Jobs, NoObject, AbortFails, main, pool, server
  <1> QED BY <1>1, <1>2, <1>3, <1>4, <1>5, <1>6 DEF IInv

LEMMA AbortEmptyStep ==
  ASSUME IInv, AbortEmpty, UNCHANGED setup
  PROVE  IInv'
  <1>1. TypeOK'
    BY Constants DEF IInv, Control, TypeOK, setup, Jobs, Errors, Ends, NoObject, Workers, AbortEmpty, main, pool, server
  <1>2. Chosen'
    BY DEF IInv, Chosen, setup
  <1>3. Control'
    BY Constants DEF IInv, Control, TypeOK, setup, Jobs, Quiet, Workers, AbortEmpty, main, pool, server
  <1>4. Outcome'
    BY Constants DEF IInv, Control, Outcome, TypeOK, setup, Jobs, NoObject, Errors, AbortEmpty, main, pool, server
  <1>5. Accounts'
    BY Constants DEF IInv, Control, Outcome, Accounts, InHand, TypeOK, setup, Jobs, Quiet, Workers, NoObject, AbortEmpty, main, pool, server
  <1>6. Bytes'
    BY Constants DEF IInv, Control, Outcome, Bytes, PartsRead, TooLargeExplained, TypeOK, setup, Jobs, NoObject, AbortEmpty, main, pool, server
  <1> QED BY <1>1, <1>2, <1>3, <1>4, <1>5, <1>6 DEF IInv

LEMMA PutStep ==
  ASSUME IInv, Put, UNCHANGED setup
  PROVE  IInv'
  <1>1. TypeOK'
    BY Constants DEF IInv, Control, TypeOK, setup, Jobs, Errors, Ends, NoObject, Workers, Put, main, pool, server
  <1>2. Chosen'
    BY DEF IInv, Chosen, setup
  <1>3. Control'
    BY Constants DEF IInv, Control, TypeOK, setup, Jobs, Quiet, Workers, Put, main, pool, server
  <1>4. Outcome'
    BY Constants DEF IInv, Control, Outcome, TypeOK, setup, Jobs, NoObject, Errors, Put, main, pool, server
  <1>5. Accounts'
    BY Constants DEF IInv, Control, Outcome, Accounts, InHand, TypeOK, setup, Jobs, Quiet, Workers, NoObject, Put, main, pool, server
  <1>6. Bytes'
    BY Constants DEF IInv, Control, Outcome, Bytes, PartsRead, TooLargeExplained, TypeOK, setup, Jobs, NoObject, Put, main, pool, server
  <1> QED BY <1>1, <1>2, <1>3, <1>4, <1>5, <1>6 DEF IInv

LEMMA PutFailsStep ==
  ASSUME IInv, PutFails, UNCHANGED setup
  PROVE  IInv'
  <1>1. TypeOK'
    BY Constants DEF IInv, Control, TypeOK, setup, Jobs, Errors, Ends, NoObject, Workers, PutFails, main, pool, server
  <1>2. Chosen'
    BY DEF IInv, Chosen, setup
  <1>3. Control'
    BY Constants DEF IInv, Control, TypeOK, setup, Jobs, Quiet, Workers, PutFails, main, pool, server
  <1>4. Outcome'
    BY Constants DEF IInv, Control, Outcome, TypeOK, setup, Jobs, NoObject, Errors, PutFails, main, pool, server
  <1>5. Accounts'
    BY Constants DEF IInv, Control, Outcome, Accounts, InHand, TypeOK, setup, Jobs, Quiet, Workers, NoObject, PutFails, main, pool, server
  <1>6. Bytes'
    BY Constants DEF IInv, Control, Outcome, Bytes, PartsRead, TooLargeExplained, TypeOK, setup, Jobs, NoObject, PutFails, main, pool, server
  <1> QED BY <1>1, <1>2, <1>3, <1>4, <1>5, <1>6 DEF IInv

LEMMA CancelStep ==
  ASSUME IInv, Cancel, UNCHANGED setup
  PROVE  IInv'
  <1>1. TypeOK'
    BY Constants DEF IInv, Control, TypeOK, setup, Jobs, Errors, Ends, NoObject, Workers, Cancel, main, pool, server
  <1>2. Chosen'
    BY DEF IInv, Chosen, setup
  <1>3. Control'
    BY Constants DEF IInv, Control, TypeOK, setup, Jobs, Quiet, Workers, Cancel, main, pool, server
  <1>4. Outcome'
    BY Constants DEF IInv, Control, Outcome, TypeOK, setup, Jobs, NoObject, Errors, Cancel, main, pool, server
  <1>5. Accounts'
    BY Constants DEF IInv, Control, Outcome, Accounts, InHand, TypeOK, setup, Jobs, Quiet, Workers, NoObject, Cancel, main, pool, server
  <1>6. Bytes'
    BY Constants DEF IInv, Control, Outcome, Bytes, PartsRead, TooLargeExplained, TypeOK, setup, Jobs, NoObject, Cancel, main, pool, server
  <1> QED BY <1>1, <1>2, <1>3, <1>4, <1>5, <1>6 DEF IInv

\* Only between the first part and the last join does a worker have a part.
LEMMA WorkersBusy ==
  ASSUME IInv, ~Quiet
  PROVE  pc \in {"reading", "sending", "joining"} /\ object = NoObject
  BY DEF IInv, Control, Outcome

\* A step of a worker touches neither the calling goroutine nor the store.
LEMMA WorkerStep ==
  ASSUME IInv, ~Quiet, UNCHANGED <<main, server, setup>>, cancelled => cancelled',
         queue' \in Seq(Jobs) /\ Len(queue') <= concurrency,
         worker' \in [Workers -> Jobs \cup {0}], parts' \subseteq Jobs,
         workerErr' \in Errors, cancelled' \in BOOLEAN,
         workerErr' # workerErr => cancelled',
         \A n \in Jobs : InHand(n)' => InHand(n),
         ~cancelled' => \A n \in Jobs : InHand(n) => InHand(n)'
  PROVE  IInv'
  <1>1. TypeOK'
    BY DEF IInv, TypeOK, main, server, setup, Workers
  <1>2. Chosen'
    BY DEF IInv, Chosen, setup
  <1>3. Control'
    BY WorkersBusy DEF IInv, Control, main
  <1>4. Outcome'
    BY WorkersBusy DEF IInv, Outcome, main, server
  <1>5. Accounts'
    <2>1. \A n \in Jobs : InHand(n)' => InHand(n)
      OBVIOUS
    <2>2. ~cancelled' => \A n \in Jobs : InHand(n) => InHand(n)'
      OBVIOUS
    <2>3. /\ pc' # "answering" /\ object' = NoObject
          /\ readErr' = readErr /\ next' = next /\ (cancelled => cancelled')
      BY WorkersBusy DEF main, server
    <2>4. /\ readErr = "none" => \A n \in Jobs : InHand(n) => n < next
          /\ ~cancelled => \A n \in Jobs : n < next => InHand(n)
      BY DEF IInv, Accounts
    <2>5. readErr' = "none" => \A n \in Jobs : InHand(n)' => n < next'
      BY <2>1, <2>3, <2>4
    <2>6. ~cancelled' => \A n \in Jobs : n < next' => InHand(n)'
      BY <2>2, <2>3, <2>4
    <2> QED BY <2>3, <2>5, <2>6 DEF Accounts
  <1>6. Bytes'
    BY DEF IInv, Bytes, PartsRead, TooLargeExplained, main, server, setup
  <1> QED BY <1>1, <1>2, <1>3, <1>4, <1>5, <1>6 DEF IInv

LEMMA TakeStep ==
  ASSUME IInv, NEW w, Take(w), UNCHANGED setup
  PROVE  IInv'
  <1>1. /\ queue \in Seq(Jobs) /\ queue # << >> /\ Len(queue) <= concurrency
        /\ worker \in [Workers -> Jobs \cup {0}] /\ worker[w] = 0 /\ w \in Workers
        /\ concurrency \in Nat
    BY SetupFacts DEF Take, IInv, TypeOK
  <1>2. /\ queue' = Tail(queue) /\ UNCHANGED <<parts, workerErr, cancelled>>
        /\ worker' = [worker EXCEPT ![w] = IF cancelled THEN 0 ELSE Head(queue)]
        /\ UNCHANGED <<main, server, setup>>
    BY DEF Take
  <1>3. /\ Head(queue) \in Jobs /\ queue' \in Seq(Jobs) /\ Len(queue') = Len(queue) - 1
        /\ Head(queue) = queue[1] /\ Len(queue) \in Nat \ {0}
        /\ \A k \in 1..Len(queue') : queue'[k] = queue[k + 1]
    BY <1>1, <1>2
  <1>4. worker' \in [Workers -> Jobs \cup {0}]
    BY <1>1, <1>2, <1>3
  <1>5. ASSUME NEW n \in Jobs, InHand(n)' PROVE InHand(n)
    <2>1. CASE n \in parts'
      BY <2>1, <1>2 DEF InHand
    <2>2. CASE \E k \in 1..Len(queue') : queue'[k] = n
      BY <2>2, <1>3 DEF InHand
    <2>3. CASE \E v \in Workers : worker'[v] = n
      <3>1. PICK v \in Workers : worker'[v] = n
        BY <2>3
      <3>2. n # 0
        BY DEF Jobs
      <3>3. worker[v] = n \/ queue[1] = n
        BY <1>1, <1>2, <1>3, <3>1, <3>2
      <3> QED BY <1>3, <3>3 DEF InHand
    <2> QED BY <1>5, <1>2, <2>1, <2>2, <2>3 DEF InHand, Workers, setup
  <1>6. ASSUME ~cancelled', NEW n \in Jobs, InHand(n) PROVE InHand(n)'
    <2>0. n # 0 /\ ~cancelled /\ Workers' = Workers
      BY <1>2, <1>6 DEF Jobs, Workers, setup
    <2>1. CASE n \in parts
      BY <2>1, <1>2 DEF InHand
    <2>2. ASSUME NEW k \in 1..Len(queue), queue[k] = n PROVE InHand(n)'
      <3>1. CASE k = 1
        <4>1. worker'[w] = n
          BY <1>1, <1>2, <1>3, <2>0, <2>2, <3>1
        <4> QED BY <4>1, <2>0, <1>1 DEF InHand
      <3>2. CASE k # 1
        <4>1. k - 1 \in 1..Len(queue') /\ queue'[k - 1] = n
          BY <1>3, <2>2, <3>2
        <4> QED BY <4>1 DEF InHand
      <3> QED BY <3>1, <3>2
    <2>3. ASSUME NEW v \in Workers, worker[v] = n PROVE InHand(n)'
      <3>1. worker'[v] = n
        BY <1>1, <1>2, <2>0, <2>3
      <3> QED BY <2>0, <3>1 DEF InHand
    <2> QED BY <1>6, <2>1, <2>2, <2>3 DEF InHand
  <1>7. ~Quiet /\ workerErr' \in Errors /\ cancelled' \in BOOLEAN /\ parts' \subseteq Jobs
    BY <1>1, <1>2 DEF Quiet, IInv, TypeOK
  <1>8. Len(queue') <= concurrency
    BY <1>1, <1>3
  <1> QED BY <1>2, <1>3, <1>4, <1>5, <1>6, <1>7, <1>8, WorkerStep

LEMMA PartDoneStep ==
  ASSUME IInv, NEW w, PartDone(w), UNCHANGED setup
  PROVE  IInv'
  <1>1. /\ worker \in [Workers -> Jobs \cup {0}] /\ w \in Workers /\ worker[w] \in Jobs
        /\ parts \subseteq Jobs
    BY DEF PartDone, IInv, TypeOK
  <1>2. /\ parts' = parts \cup {worker[w]} /\ worker' = [worker EXCEPT ![w] = 0]
        /\ UNCHANGED <<queue, workerErr, cancelled, main, server, setup>>
    BY DEF PartDone
  <1>3. Workers' = Workers /\ 0 \notin Jobs
    BY <1>2 DEF Workers, setup, Jobs
  <1>4. ASSUME NEW n \in Jobs PROVE InHand(n)' <=> InHand(n)
    <2>1. (\E v \in Workers : worker[v] = n) <=> (n = worker[w] \/ \E v \in Workers : worker'[v] = n)
      BY <1>1, <1>2, <1>3
    <2> QED BY <1>2, <1>3, <2>1 DEF InHand
  <1>5. ~Quiet
    BY <1>1, <1>3 DEF Quiet
  <1>6. /\ queue' \in Seq(Jobs) /\ Len(queue') <= concurrency
        /\ workerErr' \in Errors /\ cancelled' \in BOOLEAN
    BY <1>2 DEF IInv, TypeOK
  <1>7. worker' \in [Workers -> Jobs \cup {0}] /\ parts' \subseteq Jobs
    BY <1>1, <1>2
  <1> QED BY <1>2, <1>4, <1>5, <1>6, <1>7, WorkerStep

LEMMA PartFailsStep ==
  ASSUME IInv, NEW w, PartFails(w), UNCHANGED setup
  PROVE  IInv'
  <1>1. /\ worker \in [Workers -> Jobs \cup {0}] /\ w \in Workers /\ worker[w] \in Jobs
    BY DEF PartFails, IInv, TypeOK
  <1>2. /\ worker' = [worker EXCEPT ![w] = 0] /\ cancelled' = TRUE
        /\ UNCHANGED <<queue, parts, main, server, setup>>
    BY DEF PartFails
  <1>3. Workers' = Workers /\ 0 \notin Jobs
    BY <1>2 DEF Workers, setup, Jobs
  <1>4. ASSUME NEW n \in Jobs, InHand(n)' PROVE InHand(n)
    <2>1. ASSUME NEW v \in Workers, worker'[v] = n PROVE worker[v] = n
      BY <1>1, <1>2, <1>3, <2>1
    <2> QED BY <1>2, <1>3, <1>4, <2>1 DEF InHand
  <1>5. ~Quiet
    BY <1>1, <1>3 DEF Quiet
  <1>6. /\ queue' \in Seq(Jobs) /\ Len(queue') <= concurrency /\ parts' \subseteq Jobs
        /\ workerErr' \in Errors /\ cancelled' \in BOOLEAN
    BY <1>2 DEF IInv, TypeOK, PartFails, Errors
  <1>7. worker' \in [Workers -> Jobs \cup {0}]
    BY <1>1, <1>2
  <1> QED BY <1>2, <1>4, <1>5, <1>6, <1>7, WorkerStep

-----------------------------------------------------------------------------

LEMMA InitIInv ==
  ASSUME Init
  PROVE  IInv
  <1>1. PICK c \in Configs : cfg = Normalize(c) /\ Validate(cfg)
    BY DEF Init
  <1>2. /\ c \in MultipartConfig /\ req \in Upload
    BY <1>1, ConstantsAssumption DEF Init
  <1>3. cfg \in MultipartConfig /\ cfg.maxMemory > 0
    BY <1>1, <1>2, PlanAssumption DEF Normalize, Default, MultipartConfig
  <1>4. /\ partSize = choosePartSize(req.size, req.partSize, cfg.partSize)
        /\ concurrency = chooseConcurrency(req.concurrency, cfg.concurrency, partSize, cfg.maxMemory)
    BY DEF Init
  <1>5. partSize \in MinPartSize..MaxPartSize
    BY <1>2, <1>3, <1>4, PartSizeInRange DEF Upload, MultipartConfig
  <1>6. partSize \in Nat \ {0}
    BY <1>5, Constants
  <1>7. concurrency \in 1..MaxConcurrency
    BY <1>2, <1>3, <1>4, <1>6, WorkersFitBudget DEF Upload, MultipartConfig
  <1>8. req.length \in Nat
    BY <1>2 DEF Upload
  <1>9. TypeOK
    <2>1. next \in 1..(MaxParts + 1) /\ attempt \in 1..MaxAttempts
      BY Constants DEF Init
    <2>2. held \in [part: Jobs \cup {0}, end: Ends, left: Nat]
      BY <1>8 DEF Init, Ends
    <2>3. queue \in Seq(Jobs) /\ Len(queue) <= concurrency
      BY <1>7 DEF Init
    <2>4. worker \in [Workers -> Jobs \cup {0}]
      BY DEF Init
    <2> QED BY <1>2, <1>3, <1>5, <1>7, <2>1, <2>2, <2>3, <2>4 DEF Init, TypeOK, Errors
  <1>10. Chosen
    BY <1>3, <1>4 DEF Chosen
  <1>11. Control /\ Outcome
    BY DEF Init, Control, Outcome, Quiet
  <1>12. Accounts
    <2>1. \A n \in Jobs : ~InHand(n) /\ ~(n < next)
      BY <1>7 DEF Init, InHand, Jobs
    <2> QED BY <2>1 DEF Accounts, Init
  <1>13. Bytes
    <2>1. PartsRead = 0 /\ held.left = req.length - PartsRead * partSize
      BY <1>6, <1>8 DEF Init, PartsRead
    <2> QED BY <2>1 DEF Init, Bytes, TooLargeExplained
  <1> QED BY <1>9, <1>10, <1>11, <1>12, <1>13 DEF IInv

LEMMA NextIInv ==
  ASSUME IInv, [Next]_vars
  PROVE  IInv'
  <1>1. CASE Main
    <2>1. CASE CreateNothing \/ Create \/ CreateFails
      BY <1>1, <2>1, CreateNothingStep, CreateStep, CreateFailsStep DEF Main
    <2>2. CASE \/ ReadCanceled \/ ReadTooLarge \/ ReadPart \/ ReadNothing \/ ReadEOF \/ ReadFails
      BY <1>1, <2>2, ReadCanceledStep, ReadTooLargeStep, ReadPartStep, ReadNothingStep,
         ReadEOFStep, ReadFailsStep DEF Main
    <2>3. CASE Send \/ SendCanceled \/ Join
      BY <1>1, <2>3, SendStep, SendCanceledStep, JoinStep DEF Main
    <2>4. CASE CompleteSend \/ CompleteDone \/ CompleteFails
      BY <1>1, <2>4, CompleteSendStep, CompleteDoneStep, CompleteFailsStep DEF Main
    <2>5. CASE Abort \/ AbortFails \/ AbortEmpty \/ Put \/ PutFails
      BY <1>1, <2>5, AbortStep, AbortFailsStep, AbortEmptyStep, PutStep, PutFailsStep DEF Main
    <2> QED BY <1>1, <2>1, <2>2, <2>3, <2>4, <2>5 DEF Main
  <1>2. CASE Cancel /\ UNCHANGED setup
    BY <1>2, CancelStep
  <1>3. ASSUME NEW w \in Workers, Worker(w) PROVE IInv'
    BY <1>3, TakeStep, PartDoneStep, PartFailsStep DEF Worker
  <1>4. CASE UNCHANGED vars
    <2>1. UNCHANGED <<setup, main, queue, pool, cancelled, server>>
      BY <1>4 DEF vars
    <2> QED BY <2>1 DEF setup, main, pool, server, IInv, TypeOK, Chosen, Control, Quiet, Outcome,
            Accounts, InHand, Bytes, PartsRead, TooLargeExplained, Workers
  <1> QED BY <1>1, <1>2, <1>3, <1>4 DEF Next

\* Every reachable state of an upload, of any configuration and any stream,
\* satisfies the inductive invariant.
THEOREM InductiveInvariant == Spec => []IInv
  BY InitIInv, NextIInv, PTL DEF Spec

\* The state of an upload is well typed: in particular, part numbers never
\* exceed MaxParts, and the channel never holds more jobs than workers.
THEOREM TypeCorrect == Spec => []TypeOK
  <1>1. IInv => TypeOK
    BY DEF IInv
  <1> QED BY <1>1, InductiveInvariant, PTL

\* Only a whole object ever appears: every part that was read, after the whole
\* stream was, and after no error of the reader or of a worker.
THEOREM OnlyWholeObjects == Spec => []ObjectWhole
  <1>1. IInv => ObjectWhole
    BY DEF IInv, Outcome, Accounts, Bytes, ObjectWhole
  <1> QED BY <1>1, InductiveInvariant, PTL

\* When the call returns no part is in progress, a success has its object, and
\* an upload is left open only if the request to create or to abort it failed.
THEOREM NothingIsLeftBehind == Spec => []NothingLeftBehind
  <1>1. IInv => NothingLeftBehind
    BY DEF IInv, Control, Outcome, Quiet, NothingLeftBehind
  <1> QED BY <1>1, InductiveInvariant, PTL

\* A stream is refused as too large for its number of parts only, and when its
\* length was declared and fits, not before it has been read to its end.
THEOREM TooLargeHasReason == Spec => []TooLargeExplained
  <1>1. IInv => TooLargeExplained
    BY DEF IInv, Bytes
  <1> QED BY <1>1, InductiveInvariant, PTL

\* The workers that are busy are no more than the workers.
LEMMA BusyWorkers ==
  ASSUME IInv
  PROVE  /\ Cardinality({w \in Workers : worker[w] \in Jobs}) \in Nat
         /\ Cardinality({w \in Workers : worker[w] \in Jobs}) <= concurrency
  <1>1. concurrency \in Nat \ {0}
    BY SetupFacts
  <1>2. IsFiniteSet(Workers) /\ Cardinality(Workers) = concurrency
    BY <1>1, FS_Interval DEF Workers
  <1>3. {w \in Workers : worker[w] \in Jobs} \in SUBSET Workers
    OBVIOUS
  <1>4. /\ IsFiniteSet({w \in Workers : worker[w] \in Jobs})
        /\ Cardinality({w \in Workers : worker[w] \in Jobs}) <= Cardinality(Workers)
    BY <1>2, <1>3, FS_Subset
  <1> QED BY <1>2, <1>4, FS_CardinalityType

\* The parts in memory take at most twice the budget and one part.
LEMMA MemoryOfIInv ==
  ASSUME IInv
  PROVE  MemoryBounded
  <1> DEFINE c == concurrency
             p == partSize
             m == cfg.maxMemory
             busy == Cardinality({w \in Workers : worker[w] \in Jobs})
  <1>1. c \in Nat \ {0} /\ p \in Nat \ {0} /\ m \in Nat \ {0}
    BY SetupFacts
  <1>2. c = 1 \/ c * p <= m
    BY <1>1, WorkersFitBudget DEF IInv, TypeOK, Chosen, Upload, MultipartConfig
  <1>3. Len(queue) \in Nat /\ Len(queue) <= c /\ busy \in Nat /\ busy <= c
    BY BusyWorkers DEF IInv, TypeOK
  <1>4. Held = Len(queue) + busy + (IF held.part # 0 THEN 1 ELSE 0)
    BY DEF Held
  <1> HIDE DEF c, p, m, busy
  <1>5. Held \in Nat /\ Held <= 2 * c + 1
    BY <1>1, <1>3, <1>4
  <1>6. p * Held <= p * (2 * c + 1)
    BY <1>1, <1>5, Monotone
  <1>7. p * Held = Held * p /\ p * (2 * c + 1) = 2 * (c * p) + p /\ c * p \in Nat
    BY <1>1, <1>5
  <1>8. c * p <= (IF m > p THEN m ELSE p)
    BY <1>1, <1>2
  <1>9. Held * p \in Nat
    BY <1>1, <1>5
  <1>10. Held * p <= 2 * (IF m > p THEN m ELSE p) + p
    BY <1>1, <1>6, <1>7, <1>8, <1>9
  <1> QED BY <1>10 DEF MemoryBounded, p, m

\* Whatever is requested and configured, the reader, the channel and the workers
\* never hold more than twice the memory budget, or two parts, and one part.
THEOREM MemoryIsBounded == Spec => []MemoryBounded
  BY MemoryOfIInv, InductiveInvariant, PTL
=============================================================================
