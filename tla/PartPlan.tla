------------------------------- MODULE PartPlan -------------------------------
(***************************************************************************)
(* How large the parts of a multipart upload are and how many workers      *)
(* upload them: choosePartSize and chooseConcurrency of multipart.go, and  *)
(* what Normalize and Validate of config.go demand of the multipart part   *)
(* of a configuration.  Sizes are int64 and wrap.                          *)
(***************************************************************************)
EXTENDS Integers

CONSTANTS
    MinPartSize, MaxPartSize,  \* minPartSize (5 MiB) and maxPartSize (5 GiB)
    MaxParts,                  \* maxParts (10000)
    MaxConcurrency,            \* 1000
    MaxInt,                    \* the largest int64
    DefaultConfig              \* DefaultConfig().Multipart

MultipartConfig == [partSize: Int, concurrency: Int, maxMemory: Int]

ASSUME PlanAssumption ==
    /\ MinPartSize \in Nat /\ MaxPartSize \in Nat
    /\ MaxParts \in Nat \ {0} /\ MaxConcurrency \in Nat \ {0} /\ MaxInt \in Nat
    /\ MaxParts <= MinPartSize /\ MinPartSize <= MaxPartSize
    /\ MaxParts * MaxPartSize + MaxParts <= MaxInt
    /\ MaxConcurrency * MaxPartSize <= MaxInt
    /\ DefaultConfig \in MultipartConfig /\ DefaultConfig.maxMemory > 0

-----------------------------------------------------------------------------

\* The int64 that n wraps to.
Int64(n) == ((n + MaxInt + 1) % (2 * (MaxInt + 1))) - (MaxInt + 1)

\* Division of an int64 by a positive one, which truncates toward zero.
Quotient(a, b) == IF a >= 0 THEN a \div b ELSE -((-a) \div b)

Clamp(n, low, high) == IF n < low THEN low ELSE IF n > high THEN high ELSE n

Default(n, default) == IF n <= 0 THEN default ELSE n

Normalize(c) ==
    [partSize    |-> Default(c.partSize, DefaultConfig.partSize),
     concurrency |-> Default(c.concurrency, DefaultConfig.concurrency),
     maxMemory   |-> Default(c.maxMemory, DefaultConfig.maxMemory)]

Validate(c) ==
    /\ c.partSize \in MinPartSize..MaxPartSize
    /\ c.concurrency \in 1..MaxConcurrency
    /\ c.maxMemory > 0 => Int64(c.partSize * c.concurrency) <= c.maxMemory

\* The part size that is asked for, before the size of the object is looked at.
Asked(requested, configured) ==
    Clamp(IF requested > 0 THEN requested ELSE configured, MinPartSize, MaxPartSize)

\* Mutant: the size is divided without rounding up.
NeededRoundedDown(objectSize) == Quotient(objectSize, MaxParts)

\* The size that each of MaxParts parts must have.
Needed(objectSize) == Quotient(Int64(objectSize + MaxParts - 1), MaxParts)

choosePartSize(objectSize, requested, configured) ==
    LET asked == Asked(requested, configured)
    IN  IF objectSize > 0 /\ asked < Needed(objectSize)
        THEN Clamp(Needed(objectSize), MinPartSize, MaxPartSize)
        ELSE asked

\* Mutant: the part size of the upload is not looked at.
chooseConcurrencyOfConfig(requested, configured, partSize, maxMemory) ==
    Clamp(IF requested > 0 THEN requested ELSE configured, 1, MaxConcurrency)

\* As many workers as are asked for, but no more than the budget has parts.
chooseConcurrency(requested, configured, partSize, maxMemory) ==
    LET asked   == Clamp(IF requested > 0 THEN requested ELSE configured, 1, MaxConcurrency)
        allowed == Clamp(Quotient(maxMemory, partSize), 1, MaxInt)
    IN  IF maxMemory > 0 /\ partSize > 0 /\ asked > allowed THEN allowed ELSE asked
=============================================================================
