------------------------- MODULE MetadataRepository -------------------------
(***************************************************************************)
(* What the interface MetadataRepository of internal/metadata promises to  *)
(* concurrent callers, with no index, no batches and no disk: every call   *)
(* takes effect at one point between its invocation and its response, with *)
(* the result the interface's comments give, and what a caller was told    *)
(* survives a crash.  GetByKey is left out: its two reads are not atomic.  *)
(***************************************************************************)
EXTENDS Integers

CONSTANTS
    Clients,     \* the callers
    Ids, Locs,   \* object IDs and (bucket, key) pairs
    NoRec,       \* no record under an ID
    MaxVer,      \* bound on Version
    Kinds,       \* the operations
    Requests(_)  \* the argument lists of an operation

Meta == [id: Ids, loc: Locs, ver: 1..MaxVer]

VARIABLES
    records,  \* the record of each ID, or NoRec
    allowed,  \* the records each ID may hold after a crash
    calls     \* the call each client is in

vars == <<records, allowed, calls>>

NoCall == [status |-> "idle", kind |-> "none", args |-> << >>,
           err |-> "none", m |-> NoRec, wrote |-> {}]

Pending(kind, args) ==
    [NoCall EXCEPT !.status = "pending", !.kind = kind, !.args = args]

Done(kind, err, m, wrote) ==
    [NoCall EXCEPT !.status = "done", !.kind = kind, !.err = err, !.m = m,
                   !.wrote = wrote]

Stored == {i \in Ids : records[i] # NoRec}
ArgIds(args) == {args[k].id : k \in DOMAIN args}

\* The error a call meets in the records as they are, "ok" if none.
Verdict(kind, args) ==
    CASE kind \in {"create", "createMany"} ->
            IF ArgIds(args) \cap Stored # {} THEN "exists" ELSE "ok"
      [] kind \in {"get", "exists"} ->
            IF args[1].id \in Stored THEN "ok" ELSE "notFound"
      [] kind = "update" ->
            IF args[1].id \notin Stored THEN "notFound"
            ELSE IF records[args[1].id].ver # args[1].ver THEN "conflict" ELSE "ok"
      [] OTHER -> "ok"

\* The records after a call that met no error.
After(kind, args) ==
    CASE kind \in {"create", "createMany"} ->
            [i \in Ids |-> IF i \in ArgIds(args)
                           THEN args[CHOOSE k \in DOMAIN args : args[k].id = i]
                           ELSE records[i]]
      [] kind = "update" ->
            [records EXCEPT ![args[1].id] = [args[1] EXCEPT !.ver = @ + 1]]
      [] kind \in {"delete", "deleteMany"} ->
            [i \in Ids |-> IF i \in ArgIds(args) THEN NoRec ELSE records[i]]
      [] OTHER -> records

-----------------------------------------------------------------------------

\* The call of c becomes one of S, all of the given status; the others stay.
Moves(c, status, S) ==
    /\ calls'[c].status = status
    /\ calls'[c] \in S
    /\ calls' = [calls EXCEPT ![c] = calls'[c]]

Invoke(c) ==
    /\ calls[c].status = "idle"
    /\ Moves(c, "pending", UNION {{Pending(kind, args) : args \in Requests(kind)} : kind \in Kinds})
    /\ UNCHANGED <<records, allowed>>

\* A call is turned away before it has an effect: the repository is closed,
\* the context is over, the argument is invalid, or the database failed.
Reject(c) ==
    /\ calls[c].status \in {"idle", "pending"}
    /\ Moves(c, "done", {Done(kind, err, NoRec, {}) :
                    kind \in IF calls[c].status = "idle" THEN Kinds ELSE {calls[c].kind},
                    err \in {"closed", "canceled", "invalid", "io"}})
    /\ UNCHANGED <<records, allowed>>

\* A batch of nothing.
Nothing(c) ==
    /\ calls[c].status = "idle"
    /\ Moves(c, "done", {Done(kind, "ok", NoRec, {}) : kind \in {k \in Kinds : << >> \in Requests(k)}})
    /\ UNCHANGED <<records, allowed>>

\* The call takes effect, all of it at once.
Perform(c) ==
    /\ calls[c].status = "pending"
    /\ LET kind == calls[c].kind
           args == calls[c].args
           err  == Verdict(kind, args)
       IN  /\ records' = IF err = "ok" THEN After(kind, args) ELSE records
           /\ LET wrote == {i \in Ids : records'[i] # records[i]}
                  m == IF kind \in {"get", "exists"} /\ err = "ok"
                       THEN records[args[1].id] ELSE NoRec
              IN  /\ allowed' = [i \in Ids |-> IF i \in wrote
                                               THEN allowed[i] \cup {records'[i]}
                                               ELSE allowed[i]]
                  /\ calls' = [calls EXCEPT ![c] = Done(kind, err, m, wrote)]

\* The effect may not survive a crash, and the caller will hear of an error.
Doubt(c) ==
    /\ calls[c].status = "done"
    /\ calls' = [calls EXCEPT ![c] = Done(@.kind, "io", NoRec, {})]
    /\ UNCHANGED <<records, allowed>>

\* The caller hears the result: what it wrote is settled.
Respond(c) ==
    /\ calls[c].status = "done"
    /\ calls' = [calls EXCEPT ![c] = NoCall]
    /\ allowed' = [i \in Ids |-> IF i \in calls[c].wrote
                                 THEN {records[i]} ELSE allowed[i]]
    /\ UNCHANGED records

\* A crash loses at most effects that nobody was told of, and settles them.
Crash ==
    /\ records' \in [Ids -> Meta \cup {NoRec}]
    /\ \A i \in Ids : records'[i] \in allowed[i]
    /\ allowed' = [i \in Ids |-> {records'[i]}]
    /\ calls' = [c \in Clients |-> NoCall]

Init ==
    /\ records = [i \in Ids |-> NoRec]
    /\ allowed = [i \in Ids |-> {NoRec}]
    /\ calls = [c \in Clients |-> NoCall]

Next ==
    \/ \E c \in Clients : \/ Invoke(c) \/ Reject(c) \/ Nothing(c)
                          \/ Perform(c) \/ Doubt(c) \/ Respond(c)
    \/ Crash

Spec == Init /\ [][Next]_vars
=============================================================================
