-------------------------- MODULE PebbleImplements --------------------------
(***************************************************************************)
(* The Pebble-backed repository implements the interface it is used        *)
(* through: a call takes effect where its batch becomes visible, or at the *)
(* read that decides a call without one.                                   *)
(***************************************************************************)
EXTENDS PebbleRepository

\* A call of client c has not taken effect yet.
Undecided(c) == \/ op[c].pc \in {"read", "fetch", "build", "commit", "probe", "panic"}
                \/ op[c].pc = "syncing" /\ op[c].kind = "health"

\* The arguments the caller passed: Update has incremented the Version of its
\* argument once its batch is built.
Passed(c) == IF op[c].kind = "update" /\ op[c].batch # EmptyBatch
             THEN <<[M(c) EXCEPT !.ver = @ - 1]>> ELSE op[c].args

Wrote(c) == {i \in Ids : op[c].batch.primary[i] # Keep}

Settled(c) == op[c].pc = "syncing" \/ op[c].res.err = "ok"

AbstractCall(c) ==
    CASE op[c].pc = "idle" ->
           [status |-> "idle", kind |-> "none", args |-> << >>,
            err |-> "none", m |-> NoRec, wrote |-> {}]
      [] Undecided(c) ->
           [status |-> "pending", kind |-> op[c].kind, args |-> Passed(c),
            err |-> "none", m |-> NoRec, wrote |-> {}]
      [] OTHER ->
           [status |-> "done", kind |-> op[c].kind, args |-> << >>,
            err |-> IF op[c].pc = "syncing" THEN "ok" ELSE op[c].res.err,
            m |-> op[c].res.m,
            wrote |-> IF Settled(c) THEN Wrote(c) ELSE {}]

Interface == INSTANCE MetadataRepository
    WITH records <- db.primary, calls <- [c \in Clients |-> AbstractCall(c)]

\* Under the discipline of Permitted and with WALSync, the calls of concurrent
\* clients are linearizable: every behaviour of the repository, with its reads
\* that come apart from its commits, its fsyncs, failures, Close and crashes,
\* is one of the interface's atomic calls.
ImplementsInterface == Interface!Spec
=============================================================================
