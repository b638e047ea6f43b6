---------------------- MODULE PebbleImplementsProofs ------------------------
(***************************************************************************)
(* What the callers of the Pebble-backed repository may rely on, if those  *)
(* that write follow the discipline of Permitted: versions rise by one,    *)
(* and, with Config.WALSync, no acknowledged write is lost and concurrent  *)
(* calls behave as the atomic ones of the interface.                       *)
(***************************************************************************)
EXTENDS PebbleRepositoryProofs, PebbleImplements

-----------------------------------------------------------------------------
(***************************************************************************)
(* What the discipline gives the records themselves.  A call holds its IDs *)
(* until its caller has the result (Apart, Held), not only until it        *)
(* commits, so nobody writes over a batch between its commit, its fsync    *)
(* and the return (Landed), and the record an Update read is still there   *)
(* when it commits (Advancing).                                            *)
(***************************************************************************)
Touches(c, i) == op[c].batch.primary[i] # Keep

Apart == \A c, d \in Clients : c # d /\ Writing(c) /\ Writing(d) =>
            ArgIds(op[c].args) \cap ArgIds(op[d].args) = {}

Held(c) == \A i \in Ids : Touches(c, i) => Writing(c) /\ i \in ArgIds(op[c].args)

Advancing(c) ==
    \A i \in Ids : Record(op[c].batch.primary[i]) /\ db.primary[i] # NoRec =>
        op[c].batch.primary[i].ver = db.primary[i].ver + 1

Landed(c) ==
    \A i \in Ids : Touches(c, i) =>
        /\ op[c].pc \in {"syncing", "return"} => db.primary[i] = op[c].batch.primary[i]
        /\ op[c].pc = "return" => disk.primary[i] = op[c].batch.primary[i]

WInv == /\ Apart
        /\ \A c \in Clients : Held(c) /\ (Active(c) => Advancing(c))

AInv == AckedStored /\ \A c \in Clients : Landed(c)

LEMMA EmptyTouches ==
  ASSUME NEW c \in Clients, op[c].batch = EmptyBatch
  PROVE  Held(c) /\ Advancing(c) /\ Landed(c) /\ \A i \in Ids : ~Touches(c, i)
  BY EmptyBatchFacts DEF Held, Advancing, Landed, Touches, Record

LEMMA EmptyTouchesNext ==
  ASSUME NEW c \in Clients, op'[c].batch = EmptyBatch
  PROVE  Held(c)' /\ Advancing(c)' /\ Landed(c)' /\ \A i \in Ids : ~Touches(c, i)'
  BY EmptyBatchFacts DEF Held, Advancing, Landed, Touches, Record

\* A step of c's own call that leaves the database alone.
LEMMA OwnWrites ==
  ASSUME WInv, NEW c \in Clients, db' = db,
         \A d \in Clients \ {c} : op'[d] = op[d],
         Writing(c)' => \A d \in Clients \ {c} : Writing(d) =>
                           ArgIds(op'[c].args) \cap ArgIds(op[d].args) = {},
         Held(c)', Active(c)' => Advancing(c)'
  PROVE  WInv'
  <1>1. \A d \in Clients \ {c} : (Writing(d)' <=> Writing(d)) /\ (Active(d)' <=> Active(d))
    BY DEF Writing, Active
  <1>2. Apart'
    <2> SUFFICES ASSUME NEW a \in Clients, NEW b \in Clients, a # b, Writing(a)', Writing(b)'
                 PROVE  ArgIds(op'[a].args) \cap ArgIds(op'[b].args) = {}
      BY DEF Apart
    <2>1. CASE a = c
      BY <1>1, <2>1
    <2>2. CASE b = c
      BY <1>1, <2>2
    <2>3. CASE a # c /\ b # c
      BY <1>1, <2>3 DEF WInv, Apart
    <2> QED BY <2>1, <2>2, <2>3
  <1>3. ASSUME NEW d \in Clients \ {c} PROVE Held(d)' /\ (Active(d)' => Advancing(d)')
    <2>1. Held(d) /\ (Active(d) => Advancing(d)) /\ op'[d] = op[d]
      BY DEF WInv
    <2> QED BY <1>1, <2>1 DEF Held, Advancing, Touches
  <1> QED BY <1>2, <1>3 DEF WInv

\* A call that keeps its arguments keeps its IDs from the others.
LEMMA SameIds ==
  ASSUME WInv, NEW c \in Clients, Writing(c)' => Writing(c),
         ArgIds(op'[c].args) \subseteq ArgIds(op[c].args)
  PROVE  Writing(c)' => \A d \in Clients \ {c} : Writing(d) =>
                           ArgIds(op'[c].args) \cap ArgIds(op[d].args) = {}
  BY DEF WInv, Apart

LEMMA NoArgs == ArgIds(<< >>) = {}
  BY DEF ArgIds

\* A call that ends, or is refused, holds nothing.
LEMMA OverWrites ==
  ASSUME WInv, NEW c \in Clients, db' = db,
         \A d \in Clients \ {c} : op'[d] = op[d],
         op'[c].args = << >>, op'[c].batch = EmptyBatch
  PROVE  WInv'
  BY OwnWrites, NoArgs, EmptyTouchesNext

LEMMA IdleFields == Idle.args = << >> /\ Idle.batch = EmptyBatch /\ Idle.pc = "idle" /\ Idle.kind = "none"
  BY DEF Idle

LEMMA LeaveWrites ==
  ASSUME IInv, WInv, NEW c \in Clients, NEW r, Leave(c, r), db' = db
  PROVE  WInv'
  <1>1. /\ op'[c].args = << >> /\ op'[c].batch = EmptyBatch
        /\ \A d \in Clients \ {c} : op'[d] = op[d]
    BY DEF Leave, IInv, TypeOK, Idle
  <1> QED BY <1>1, OverWrites

LEMMA CallWrites ==
  ASSUME Exclusive, IInv, WInv, NEW c \in Clients, NEW kind \in Kinds,
         NEW args \in Requests(kind), Call(c, kind, args)
  PROVE  WInv'
  <1>1. Permitted(c, kind, args) /\ Enter(c, kind, args, Entry(kind), "none")
    BY DEF Call
  <1>2. /\ db' = db
        /\ op'[c].kind = kind /\ op'[c].args = args /\ op'[c].batch = EmptyBatch
        /\ \A d \in Clients \ {c} : op'[d] = op[d]
    <2>1. op' = [op EXCEPT ![c] = [Idle EXCEPT !.kind = kind, !.args = args,
                                              !.pc = Entry(kind), !.res = Err("none")]]
      BY <1>1 DEF Enter
    <2> QED BY <1>1, <2>1 DEF Enter, IInv, TypeOK, Idle
  <1>3. Writing(c)' => \A d \in Clients \ {c} : Writing(d) =>
                          ArgIds(op'[c].args) \cap ArgIds(op[d].args) = {}
    BY <1>1, <1>2 DEF Permitted, Writing
  <1> QED BY <1>2, <1>3, OwnWrites, EmptyTouchesNext

\* A call that has built a batch of one record or one deletion.
LEMMA BuiltWrites ==
  ASSUME WInv, NEW c \in Clients, db' = db, Writing(c), Writing(c)',
         \A d \in Clients \ {c} : op'[d] = op[d],
         ArgIds(op'[c].args) = ArgIds(op[c].args),
         NEW i \in ArgIds(op[c].args), NEW x,
         \A j \in Ids : op'[c].batch.primary[j] = IF j = i THEN x ELSE op[c].batch.primary[j],
         Active(c),
         Record(x) /\ db.primary[i] # NoRec => x.ver = db.primary[i].ver + 1
  PROVE  WInv'
  <1>1. Held(c) /\ Advancing(c)
    BY DEF WInv
  <1>2. Held(c)'
    BY <1>1 DEF Held, Touches
  <1>3. Advancing(c)'
    BY <1>1 DEF Advancing
  <1> QED BY <1>2, <1>3, SameIds, OwnWrites

LEMMA CreateReadWrites ==
  ASSUME IInv, WInv, NEW c \in Clients, CreateRead(c)
  PROVE  WInv'
  <1>1. op[c].pc = "read" /\ op[c].kind = "create" /\ db' = db /\ TInv /\ op \in [Clients -> Op]
    BY DEF CreateRead, Calling, IInv, TInv, TypeOK
  <1>2. CASE db.primary[M(c).id] # NoRec
    BY <1>1, <1>2, LeaveWrites DEF CreateRead
  <1>3. CASE db.primary[M(c).id] = NoRec
    <2>1. /\ op'[c].kind = "create" /\ op'[c].args = op[c].args /\ op'[c].pc = "commit"
          /\ op'[c].batch = AddRecord(EmptyBatch, M(c))
          /\ \A d \in Clients \ {c} : op'[d] = op[d]
      BY <1>1, <1>3 DEF CreateRead, Op
    <2>2. M(c).id \in ArgIds(op[c].args) /\ M(c) \in Arg /\ M(c).id \in Ids /\ Active(c)
          /\ op[c].batch = EmptyBatch
      BY <1>1, BuildingFacts DEF Writes, TInv, Stage
    <2>3. \A j \in Ids : op'[c].batch.primary[j] = IF j = M(c).id THEN M(c) ELSE op[c].batch.primary[j]
      BY <2>1, <2>2, EmptyBatchType DEF AddRecord, Batch
    <2>4. Writing(c) /\ Writing(c)'
      BY <1>1, <2>1 DEF Writing, Writes
    <2> QED BY <1>1, <1>3, <2>1, <2>2, <2>3, <2>4, BuiltWrites
  <1> QED BY <1>2, <1>3

LEMMA ReplacedPrimary ==
  ASSUME NEW old, NEW m, m.id \in Ids
  PROVE  \A j \in Ids : ReplaceRecord(old, m).primary[j] = IF j = m.id THEN m ELSE Keep
  <1>1. ReplaceRecord(old, m).primary = [[i \in Ids |-> Keep] EXCEPT ![m.id] = m]
    BY DEF ReplaceRecord, EmptyBatch
  <1> QED BY <1>1

LEMMA UpdateReadWrites ==
  ASSUME IInv, WInv, NEW c \in Clients, UpdateRead(c)
  PROVE  WInv'
  <1> DEFINE old == db.primary[M(c).id]
             new == [M(c) EXCEPT !.ver = @ + 1]
             b == ReplaceRecord(old, new)
  <1>1. op[c].pc = "read" /\ op[c].kind = "update" /\ db' = db /\ TInv /\ op \in [Clients -> Op]
    BY DEF UpdateRead, Calling, IInv, TInv, TypeOK
  <1>2. CASE \E err \in {"notFound", "conflict"} : Leave(c, Err(err))
    BY <1>1, <1>2, LeaveWrites
  <1>3. CASE /\ old # NoRec /\ old.ver = M(c).ver
             /\ op' = [op EXCEPT ![c].pc = "commit", ![c].args = <<new>>, ![c].batch = b]
    <2>1. /\ op'[c].kind = "update" /\ op'[c].args = <<new>> /\ op'[c].batch = b
          /\ op'[c].pc = "commit"
          /\ \A d \in Clients \ {c} : op'[d] = op[d]
      BY <1>1, <1>3 DEF Op
    <2>2. M(c).id \in ArgIds(op[c].args) /\ M(c) \in Arg /\ M(c).id \in Ids /\ Active(c)
          /\ op[c].batch = EmptyBatch
      BY <1>1, BuildingFacts DEF Writes, TInv, Stage
    <2>3. M(c) = op[c].args[1] /\ DOMAIN op[c].args = {1}
      <3>1. op[c].args \in Seq(Arg) /\ Len(op[c].args) = 1
        BY <1>1 DEF TInv, Stage, Op
      <3> QED BY <1>1, <3>1, ReadingType
    <2>4. new.id = M(c).id /\ new.ver = M(c).ver + 1
      BY <2>2 DEF Arg
    <2> HIDE DEF new
    <2>5. ArgIds(op'[c].args) = ArgIds(op[c].args)
      BY <2>1, <2>3, <2>4 DEF ArgIds
    <2>6. \A j \in Ids : op'[c].batch.primary[j] = IF j = M(c).id THEN new ELSE op[c].batch.primary[j]
      BY <2>1, <2>2, <2>4, EmptyBatchFacts, ReplacedPrimary
    <2>7. Writing(c) /\ Writing(c)'
      BY <1>1, <2>1 DEF Writing, Writes
    <2> QED BY <1>1, <1>3, <2>1, <2>2, <2>4, <2>5, <2>6, <2>7, BuiltWrites, SMTT(30)
  <1> QED BY <1>2, <1>3 DEF UpdateRead

LEMMA DeleteReadWrites ==
  ASSUME IInv, WInv, NEW c \in Clients, DeleteRead(c)
  PROVE  WInv'
  <1> DEFINE old == db.primary[M(c).id]
  <1>1. op[c].pc = "read" /\ op[c].kind = "delete" /\ db' = db /\ TInv /\ op \in [Clients -> Op]
    BY DEF DeleteRead, Calling, IInv, TInv, TypeOK
  <1>2. CASE old = NoRec
    BY <1>1, <1>2, LeaveWrites DEF DeleteRead
  <1>3. CASE old # NoRec
    <2>1. /\ op'[c].kind = "delete" /\ op'[c].args = op[c].args /\ op'[c].pc = "commit"
          /\ op'[c].batch = AddDeletion(EmptyBatch, old)
          /\ \A d \in Clients \ {c} : op'[d] = op[d]
      BY <1>1, <1>3 DEF DeleteRead, Op
    <2>2. /\ M(c).id \in ArgIds(op[c].args) /\ M(c).id \in Ids /\ Active(c)
          /\ op[c].batch = EmptyBatch /\ old \in Meta /\ old.id = M(c).id
      BY <1>1, <1>3, BuildingFacts DEF Writes, TInv, Stage
    <2>3. \A j \in Ids : op'[c].batch.primary[j] = IF j = M(c).id THEN NoRec ELSE op[c].batch.primary[j]
      BY <2>1, <2>2, EmptyBatchType, AddDeletionFacts
    <2>4. Writing(c) /\ Writing(c)'
      BY <1>1, <2>1 DEF Writing, Writes
    <2> QED BY <1>1, <2>1, <2>2, <2>3, <2>4, BuiltWrites DEF Record
  <1> QED BY <1>2, <1>3

LEMMA DeleteManyReadWrites ==
  ASSUME IInv, WInv, NEW c \in Clients, DeleteManyRead(c)
  PROVE  WInv'
  <1> DEFINE old == db.primary[M(c).id]
  <1>1. op[c].pc = "read" /\ op[c].kind = "deleteMany" /\ db' = db /\ TInv /\ op \in [Clients -> Op]
    BY DEF DeleteManyRead, Calling, IInv, TInv, TypeOK
  <1>2. /\ op'[c].kind = "deleteMany" /\ op'[c].args = op[c].args /\ op'[c].pc \in {"read", "commit"}
        /\ op'[c].batch = IF old = NoRec THEN op[c].batch ELSE AddDeletion(op[c].batch, old)
        /\ \A d \in Clients \ {c} : op'[d] = op[d]
    BY <1>1 DEF DeleteManyRead, Op
  <1>3. /\ M(c).id \in ArgIds(op[c].args) /\ M(c).id \in Ids /\ Active(c)
        /\ old \in Meta \cup {NoRec} /\ (old # NoRec => old.id = M(c).id)
        /\ op[c].batch \in Batch
    BY <1>1, BuildingFacts DEF Writes, Op
  <1>4. Writing(c) /\ Writing(c)'
    BY <1>1, <1>2 DEF Writing, Writes
  <1>5. CASE old = NoRec
    <2>1. Held(c)' /\ Advancing(c)'
      BY <1>1, <1>2, <1>3, <1>4, <1>5 DEF WInv, Held, Advancing, Touches
    <2> QED BY <1>1, <1>2, <1>4, <2>1, SameIds, OwnWrites
  <1>6. CASE old # NoRec
    <2>1. \A j \in Ids : op'[c].batch.primary[j] = IF j = M(c).id THEN NoRec ELSE op[c].batch.primary[j]
      BY <1>2, <1>3, <1>6, AddDeletionFacts
    <2> QED BY <1>1, <1>2, <1>3, <1>4, <2>1, BuiltWrites DEF Record
  <1> QED BY <1>5, <1>6

LEMMA CreateManyBuildWrites ==
  ASSUME IInv, WInv, NEW c \in Clients, CreateManyBuild(c)
  PROVE  WInv'
  <1>1. op[c].pc = "build" /\ op[c].kind = "createMany" /\ db' = db /\ TInv /\ op \in [Clients -> Op]
    BY DEF CreateManyBuild, Calling, IInv, TInv, TypeOK
  <1>2. CASE ~Valid(M(c))
    BY <1>1, <1>2, LeaveWrites DEF CreateManyBuild
  <1>3. CASE Valid(M(c))
    <2>1. /\ op'[c].kind = "createMany" /\ op'[c].args = op[c].args /\ op'[c].pc \in {"build", "commit"}
          /\ op'[c].batch = AddRecord(op[c].batch, M(c))
          /\ \A d \in Clients \ {c} : op'[d] = op[d]
      BY <1>1, <1>3 DEF CreateManyBuild, Op
    <2>2. /\ Active(c) /\ Relies(c) /\ M(c).id \in ArgIds(op[c].args)
          /\ M(c).id \in Ids /\ M(c) \in Arg /\ op[c].batch \in Batch
      BY <1>1, BuildingFacts DEF Writes, Op
    <2>3. M(c) \in Meta
      BY <1>3, <2>2 DEF Valid, Arg, Meta
    <2>4. \A j \in Ids : op'[c].batch.primary[j] = IF j = M(c).id THEN M(c) ELSE op[c].batch.primary[j]
      BY <2>1, <2>2, <2>3, AddRecordFacts
    <2>5. db.primary[M(c).id] = NoRec
      BY <1>1, <2>2, ReadingType DEF Relies
    <2>6. Writing(c) /\ Writing(c)'
      BY <1>1, <2>1 DEF Writing, Writes
    <2> QED BY <1>1, <2>1, <2>2, <2>4, <2>5, <2>6, BuiltWrites
  <1> QED BY <1>2, <1>3

\* A commit writes IDs its call holds, so the batches of the others see no
\* change under the IDs they write.
LEMMA CommitApart ==
  ASSUME IInv, WInv, NEW c \in Clients, Commit(c), NEW d \in Clients, d # c,
         NEW i \in Ids, Touches(d, i)
  PROVE  db'.primary[i] = db.primary[i]
  <1>1. ~Touches(c, i)
    BY DEF WInv, Held, Apart
  <1>2. db' = Apply(db, op[c].batch) /\ db \in Database /\ op[c].batch \in Batch
    BY DEF Commit, IInv, TypeOK, Op
  <1> QED BY <1>1, <1>2, ApplyFacts DEF Touches

LEMMA CommitFacts ==
  ASSUME IInv, NEW c \in Clients, Commit(c)
  PROVE  /\ op'[c].pc = IF WALSync THEN "syncing" ELSE IF op[c].kind = "health" THEN "probe" ELSE "return"
         /\ op'[c].kind = op[c].kind /\ op'[c].args = op[c].args /\ op'[c].batch = op[c].batch
         /\ op'[c].next = op[c].next /\ (op'[c].pc # "return" => op'[c].res = op[c].res)
         /\ \A d \in Clients \ {c} : op'[d] = op[d]
         /\ op[c].pc = "commit" /\ disk' = disk
         /\ \A i \in Ids : db'.primary[i] = IF Touches(c, i) THEN op[c].batch.primary[i]
                                            ELSE db.primary[i]
  <1>1. op \in [Clients -> Op] /\ db \in Database /\ op[c] \in Op /\ op[c].batch \in Batch
    BY DEF IInv, TypeOK, Op
  <1>2. \A i \in Ids : db'.primary[i] = IF Touches(c, i) THEN op[c].batch.primary[i] ELSE db.primary[i]
    BY <1>1, ApplyFacts DEF Commit, Touches
  <1> QED BY <1>1, <1>2 DEF Commit, Committed, Op

LEMMA CommitWrites ==
  ASSUME IInv, WInv, NEW c \in Clients, Commit(c)
  PROVE  WInv'
  <1>1. /\ \A d \in Clients : (Writing(d)' <=> Writing(d)) /\ op'[d].args = op[d].args
                              /\ op'[d].batch = op[d].batch
        /\ ~Active(c)'
        /\ \A d \in Clients \ {c} : op'[d] = op[d]
    BY CommitFacts DEF Writing, Active
  <1>2. Apart'
    BY <1>1 DEF WInv, Apart
  <1>3. ASSUME NEW d \in Clients PROVE Held(d)'
    BY <1>1 DEF WInv, Held, Touches
  <1>4. ASSUME NEW d \in Clients, Active(d)' PROVE Advancing(d)'
    <2>1. d # c /\ Active(d) /\ op'[d] = op[d]
      BY <1>1, <1>4 DEF Active
    <2>2. Advancing(d)
      BY <2>1 DEF WInv
    <2>3. \A i \in Ids : Touches(d, i) => db'.primary[i] = db.primary[i]
      BY <2>1, CommitApart
    <2> QED BY <2>1, <2>2, <2>3 DEF Advancing, Touches, Record
  <1> QED BY <1>2, <1>3, <1>4 DEF WInv

LEMMA DurableFacts ==
  ASSUME IInv, Durable, NEW d \in Clients
  PROVE  /\ op'[d].args = op[d].args /\ op'[d].batch = op[d].batch /\ op'[d].kind = op[d].kind
         /\ op'[d].pc = IF op[d].pc = "syncing"
                        THEN IF op[d].kind = "health" THEN "probe" ELSE "return"
                        ELSE op[d].pc
         /\ op'[d].next = op[d].next
         /\ op'[d].res = IF op[d].pc = "syncing" /\ op[d].kind # "health"
                         THEN Err("ok") ELSE op[d].res
  <1>1. op[d] \in Op /\ op'[d] = IF op[d].pc = "syncing" THEN Committed(op[d]) ELSE op[d]
    BY DEF Durable, IInv, TypeOK
  <1> QED BY <1>1 DEF Committed, Op

LEMMA DurableWrites ==
  ASSUME IInv, WInv, Durable, db' = db
  PROVE  WInv'
  <1>1. \A d \in Clients : /\ op'[d].args = op[d].args /\ op'[d].batch = op[d].batch
                           /\ Writing(d)' <=> Writing(d)
                           /\ Active(d)' => Active(d)
    BY DurableFacts DEF Writing, Active
  <1>2. Apart'
    BY <1>1 DEF WInv, Apart
  <1>3. ASSUME NEW d \in Clients PROVE Held(d)' /\ (Active(d)' => Advancing(d)')
    BY <1>1 DEF WInv, Held, Advancing, Touches
  <1> QED BY <1>2, <1>3 DEF WInv

LEMMA IdleWrites ==
  ASSUME \A d \in Clients : op'[d] = Idle
  PROVE  WInv'
  <1>1. \A d \in Clients : Held(d)' /\ Advancing(d)' /\ ~Writing(d)'
    BY IdleFields, EmptyTouchesNext DEF Writing
  <1> QED BY <1>1 DEF WInv, Apart

LEMMA EnteredFacts ==
  ASSUME IInv, NEW c \in Clients, NEW kind, NEW args, NEW pc, NEW err,
         Enter(c, kind, args, pc, err)
  PROVE  /\ op'[c].pc = pc /\ op'[c].args = args /\ op'[c].batch = EmptyBatch
         /\ op'[c].kind = kind /\ op'[c].next = 1 /\ op'[c].res = Err(err) /\ op[c].pc = "idle"
         /\ UNCHANGED <<db, disk, allowed>>
         /\ \A d \in Clients \ {c} : op'[d] = op[d]
  BY DEF Enter, IInv, TypeOK, Idle

\* The steps that leave the arguments and the batch of a call alone.
LEMMA PassingFacts ==
  ASSUME IInv, NEW c \in Clients,
         \/ Panic(c)
         \/ IndexRead(c) /\ op' = [op EXCEPT ![c].pc = "fetch", ![c].seen = db.secondary[M(c).loc]]
  PROVE  /\ op'[c].pc \in {"panic", "fetch"} /\ op[c].pc # "idle"
         /\ op'[c].args = op[c].args /\ op'[c].batch = op[c].batch /\ op'[c].kind = op[c].kind
         /\ op'[c].next = op[c].next /\ op'[c].res = op[c].res
         /\ op[c].pc \in {"read", "fetch", "commit", "probe"}
         /\ UNCHANGED <<db, disk, allowed>>
         /\ \A d \in Clients \ {c} : op'[d] = op[d]
  <1>1. op \in [Clients -> Op]
    BY DEF IInv, TypeOK
  <1> QED BY <1>1 DEF Panic, IndexRead, Calling, Op

LEMMA PassingWrites ==
  ASSUME IInv, WInv, NEW c \in Clients,
         \/ Panic(c)
         \/ IndexRead(c) /\ op' = [op EXCEPT ![c].pc = "fetch", ![c].seen = db.secondary[M(c).loc]]
  PROVE  WInv'
  <1>1. (Writing(c)' <=> Writing(c)) /\ ~Active(c)'
    BY PassingFacts DEF Writing, Active
  <1>2. Held(c)'
    BY <1>1, PassingFacts DEF WInv, Held, Touches
  <1> QED BY <1>1, <1>2, PassingFacts, SameIds, OwnWrites

LEMMA ReturnWrites ==
  ASSUME IInv, WInv, NEW c \in Clients, Return(c)
  PROVE  WInv'
  <1>1. db' = db /\ op'[c] = Idle /\ \A d \in Clients \ {c} : op'[d] = op[d]
    BY DEF Return, IInv, TypeOK
  <1> QED BY <1>1, IdleFields, OverWrites

LEMMA InitWInv == Init => WInv
  <1> SUFFICES ASSUME Init PROVE WInv
    OBVIOUS
  <1>1. \A d \in Clients : op[d] = Idle
    BY DEF Init
  <1>2. \A d \in Clients : Held(d) /\ Advancing(d) /\ ~Writing(d)
    BY <1>1, IdleFields, EmptyTouches DEF Writing
  <1> QED BY <1>2 DEF WInv, Apart

LEMMA NextWInv ==
  ASSUME Exclusive, IInv, WInv, [Next]_vars
  PROVE  WInv'
  <1>1. ASSUME NEW c \in Clients, NEW kind \in Kinds, NEW args \in Requests(kind),
               CallRefused(c, kind, args) \/ CallEmpty(c, kind, args) \/ Call(c, kind, args)
        PROVE  WInv'
    <2>1. ASSUME NEW err, Enter(c, kind, << >>, "return", err) PROVE WInv'
      BY <2>1, EnteredFacts, OverWrites
    <2> QED BY <1>1, <2>1, CallWrites DEF CallRefused, CallEmpty
  <1>2. ASSUME NEW c \in Clients, Step(c) PROVE WInv'
    <2>1. CASE CreateRead(c)
      BY <2>1, CreateReadWrites
    <2>2. CASE GetRead(c) \/ FetchRead(c) \/ AccessFails(c) \/ ProbeRead(c)
      BY <2>2, LeaveWrites DEF GetRead, FetchRead, AccessFails, ProbeRead
    <2>3. CASE IndexRead(c)
      <3>1. CASE Leave(c, Err("notFound"))
        BY <2>3, <3>1, LeaveWrites DEF IndexRead
      <3> QED BY <2>3, <3>1, PassingWrites DEF IndexRead
    <2>4. CASE UpdateRead(c)
      BY <2>4, UpdateReadWrites
    <2>5. CASE DeleteRead(c)
      BY <2>5, DeleteReadWrites
    <2>6. CASE DeleteManyRead(c)
      BY <2>6, DeleteManyReadWrites
    <2>7. CASE CreateManyBuild(c)
      BY <2>7, CreateManyBuildWrites
    <2>8. CASE Commit(c)
      BY <2>8, CommitWrites
    <2>9. CASE Panic(c)
      BY <2>9, PassingWrites
    <2>10. CASE Return(c)
      BY <2>10, ReturnWrites
    <2> QED BY <1>2, <2>1, <2>2, <2>3, <2>4, <2>5, <2>6, <2>7, <2>8, <2>9, <2>10 DEF Step
  <1>3. CASE Sync \/ CloseEnd
    BY <1>3, DurableWrites DEF Sync, CloseEnd
  <1>4. CASE CloseBegin \/ UNCHANGED vars
    <2>1. db' = db /\ op' = op
      BY <1>4 DEF CloseBegin, vars
    <2> QED BY <2>1 DEF WInv, Apart, Held, Advancing, Touches, Writing, Active
  <1>5. CASE Restart
    BY <1>5, IdleWrites DEF Restart
  <1> QED BY <1>1, <1>2, <1>3, <1>4, <1>5 DEF Next

\* Only a commit or a restart changes the database.
LEMMA WhoWrites ==
  ASSUME [Next]_vars, db' # db
  PROVE  Restart \/ \E c \in Clients : Commit(c)
  <1>1. ASSUME NEW c \in Clients, NEW kind \in Kinds, NEW args \in Requests(kind),
               CallRefused(c, kind, args) \/ CallEmpty(c, kind, args) \/ Call(c, kind, args)
        PROVE  db' = db
    BY <1>1 DEF CallRefused, CallEmpty, Call, Enter
  <1>2. ASSUME NEW c \in Clients, Step(c), ~Commit(c) PROVE db' = db
    <2>1. CASE CreateRead(c) \/ GetRead(c) \/ IndexRead(c) \/ FetchRead(c) \/ UpdateRead(c)
      BY <2>1 DEF CreateRead, GetRead, IndexRead, FetchRead, UpdateRead
    <2>2. CASE DeleteRead(c) \/ DeleteManyRead(c) \/ CreateManyBuild(c)
      BY <2>2 DEF DeleteRead, DeleteManyRead, CreateManyBuild
    <2>3. CASE AccessFails(c) \/ ProbeRead(c) \/ Panic(c) \/ Return(c)
      BY <2>3 DEF AccessFails, ProbeRead, Panic, Return
    <2> QED BY <1>2, <2>1, <2>2, <2>3 DEF Step
  <1>3. CASE Sync \/ CloseBegin \/ CloseEnd \/ UNCHANGED vars
    BY <1>3 DEF Sync, CloseBegin, CloseEnd, vars
  <1> QED BY <1>1, <1>2, <1>3 DEF Next

\* If writers follow the discipline of Permitted, a step that replaces a record
\* raises its Version by exactly one, crashes aside: the Version that Update
\* compared with is still that of the stored record when its batch commits.
THEOREM VersionsRise ==
  ASSUME Exclusive
  PROVE  Spec => VersionAdvances
  <1> DEFINE Rises == \A i \in Ids :
        db.primary[i] # NoRec /\ db'.primary[i] \notin {NoRec, db.primary[i]}
        => db'.primary[i].ver = db.primary[i].ver + 1
  <1>1. IInv /\ WInv /\ [Next]_vars => IInv' /\ WInv'
    BY NextIInv, NextWInv
  <1>2. IInv /\ WInv /\ [Next]_vars => [Restart \/ Rises]_vars
    <2> SUFFICES ASSUME IInv, WInv, [Next]_vars, ~Restart PROVE Rises
      OBVIOUS
    <2>1. CASE db' = db
      BY <2>1
    <2>2. ASSUME NEW c \in Clients, Commit(c) PROVE Rises
      <3>1. CASE Writes(op[c].kind)
        <4>1. Advancing(c)
          BY <2>2, <3>1, CommitFacts DEF WInv, Active
        <4> SUFFICES ASSUME NEW i \in Ids, db.primary[i] # NoRec,
                            db'.primary[i] \notin {NoRec, db.primary[i]}
                     PROVE  db'.primary[i].ver = db.primary[i].ver + 1
          OBVIOUS
        <4>2. Touches(c, i) /\ db'.primary[i] = op[c].batch.primary[i]
          BY <2>2, CommitFacts
        <4> QED BY <4>1, <4>2 DEF Advancing, Record, Touches
      <3>2. CASE ~Writes(op[c].kind)
        <4>1. \A i \in Ids : ~Touches(c, i)
          BY <3>2 DEF WInv, Held, Writing
        <4> QED BY <2>2, <4>1, CommitFacts
      <3> QED BY <3>1, <3>2
    <2> QED BY <2>1, <2>2, WhoWrites
  <1> QED BY InitIInv, InitWInv, <1>1, <1>2, PTL DEF Spec, VersionAdvances

-----------------------------------------------------------------------------
(***************************************************************************)
(* With WALSync a call returns only when its batch is on disk, and by      *)
(* Apart nobody has written its IDs since: what the caller is told of them *)
(* is what they hold.                                                      *)
(***************************************************************************)

\* A step of c's own call that leaves the database alone and does not end a
\* call that has something in its batch.
LEMMA OwnAcks ==
  ASSUME AInv, NEW c \in Clients, UNCHANGED <<db, disk, allowed>>,
         \A d \in Clients \ {c} : op'[d] = op[d],
         op'[c].pc \in {"syncing", "return"} => op'[c].batch = EmptyBatch
  PROVE  AInv'
  <1>1. AckedStored'
    BY DEF AInv, AckedStored
  <1>2. Landed(c)'
    BY EmptyTouchesNext DEF Landed
  <1>3. \A d \in Clients \ {c} : Landed(d)'
    BY DEF AInv, Landed, Touches
  <1> QED BY <1>1, <1>2, <1>3 DEF AInv

LEMMA LeaveAcks ==
  ASSUME IInv, AInv, NEW c \in Clients, NEW r, Leave(c, r), UNCHANGED <<db, disk, allowed>>
  PROVE  AInv'
  <1>1. op'[c].batch = EmptyBatch /\ \A d \in Clients \ {c} : op'[d] = op[d]
    BY DEF Leave, IInv, TypeOK, Idle
  <1> QED BY <1>1, OwnAcks

\* A read or a loop iteration that goes on with the call.
LEMMA GoesOn ==
  ASSUME IInv, NEW c \in Clients,
         CreateRead(c) \/ UpdateRead(c) \/ DeleteRead(c) \/ DeleteManyRead(c) \/ CreateManyBuild(c)
  PROVE  /\ UNCHANGED <<db, disk, allowed>>
         /\ \/ \E r : Leave(c, r)
            \/ /\ op'[c].pc \in {"read", "build", "commit"}
               /\ \A d \in Clients \ {c} : op'[d] = op[d]
  <1>1. op \in [Clients -> Op]
    BY DEF IInv, TypeOK
  <1>2. CASE CreateRead(c)
    BY <1>1, <1>2 DEF CreateRead, Op
  <1>3. CASE UpdateRead(c)
    BY <1>1, <1>3 DEF UpdateRead, Op
  <1>4. CASE DeleteRead(c)
    BY <1>1, <1>4 DEF DeleteRead, Op
  <1>5. CASE DeleteManyRead(c)
    BY <1>1, <1>5 DEF DeleteManyRead, Op
  <1>6. CASE CreateManyBuild(c)
    BY <1>1, <1>6 DEF CreateManyBuild, Op
  <1> QED BY <1>2, <1>3, <1>4, <1>5, <1>6

LEMMA CommitAcks ==
  ASSUME WALSync, IInv, WInv, AInv, NEW c \in Clients, Commit(c)
  PROVE  AInv'
  <1>1. /\ db.primary \in [Ids -> Meta \cup {NoRec}]
        /\ allowed' = [i \in Ids |-> IF Touches(c, i) THEN allowed[i] \cup {op[c].batch.primary[i]}
                                     ELSE allowed[i]]
    BY DEF Commit, Touches, IInv, TypeOK, Database
  <1>2. AckedStored'
    BY <1>1, CommitFacts DEF AInv, AckedStored
  <1>3. Landed(c)'
    BY CommitFacts DEF Landed, Touches
  <1>4. ASSUME NEW d \in Clients \ {c} PROVE Landed(d)'
    <2>1. \A i \in Ids : Touches(d, i) => db'.primary[i] = db.primary[i]
      BY CommitApart
    <2> QED BY <2>1, CommitFacts DEF AInv, Landed, Touches
  <1> QED BY <1>2, <1>3, <1>4 DEF AInv

LEMMA DurableAcks ==
  ASSUME IInv, AInv, Durable, db' = db, allowed' = allowed
  PROVE  AInv'
  <1>1. disk' = db
    BY DEF Durable
  <1>2. AckedStored'
    BY <1>1 DEF AInv, AckedStored
  <1>3. ASSUME NEW d \in Clients PROVE Landed(d)'
    BY <1>1, DurableFacts DEF AInv, Landed, Touches
  <1> QED BY <1>2, <1>3 DEF AInv

LEMMA ReturnAcks ==
  ASSUME AInv, IInv, NEW c \in Clients, Return(c)
  PROVE  AInv'
  <1>1. /\ UNCHANGED <<db, disk>> /\ op'[c] = Idle /\ op[c].pc = "return"
        /\ \A d \in Clients \ {c} : op'[d] = op[d]
    BY DEF Return, IInv, TypeOK
  <1> DEFINE x(i) == op[c].batch.primary[i]
  <1>2. \A i \in Ids : allowed'[i] \in {allowed[i], IF Touches(c, i) THEN {x(i)} ELSE allowed[i]}
    BY DEF Return, Touches
  <1>3. AckedStored'
    <2> SUFFICES ASSUME NEW i \in Ids PROVE db.primary[i] \in allowed'[i] /\ disk.primary[i] \in allowed'[i]
      BY <1>1 DEF AckedStored
    <2>1. CASE allowed'[i] = allowed[i]
      BY <2>1 DEF AInv, AckedStored
    <2>2. CASE Touches(c, i) /\ allowed'[i] = {x(i)}
      BY <1>1, <2>2 DEF AInv, Landed
    <2> QED BY <1>2, <2>1, <2>2
  <1>4. Landed(c)'
    BY <1>1, IdleFields DEF Landed
  <1>5. \A d \in Clients \ {c} : Landed(d)'
    BY <1>1 DEF AInv, Landed, Touches
  <1> QED BY <1>3, <1>4, <1>5 DEF AInv

LEMMA RestartAcks ==
  ASSUME Restart
  PROVE  AInv'
  <1>1. AckedStored'
    BY DEF Restart, AckedStored
  <1>2. \A d \in Clients : Landed(d)'
    BY IdleFields, EmptyTouchesNext DEF Restart
  <1> QED BY <1>1, <1>2 DEF AInv

LEMMA InitAInv == Init => AInv
  <1> SUFFICES ASSUME Init PROVE AInv
    OBVIOUS
  <1>1. AckedStored
    BY DEF Init, AckedStored, EmptyDatabase
  <1>2. \A d \in Clients : Landed(d)
    BY IdleFields, EmptyTouches DEF Init
  <1> QED BY <1>1, <1>2 DEF AInv

LEMMA NextAInv ==
  ASSUME WALSync, IInv, WInv, AInv, [Next]_vars
  PROVE  AInv'
  <1>1. ASSUME NEW c \in Clients, NEW kind \in Kinds, NEW args \in Requests(kind),
               CallRefused(c, kind, args) \/ CallEmpty(c, kind, args) \/ Call(c, kind, args)
        PROVE  AInv'
    <2>1. ASSUME NEW a, NEW pc, NEW err, Enter(c, kind, a, pc, err) PROVE AInv'
      BY <2>1, EnteredFacts, OwnAcks
    <2> QED BY <1>1, <2>1 DEF CallRefused, CallEmpty, Call
  <1>2. ASSUME NEW c \in Clients, Step(c) PROVE AInv'
    <2>1. CASE CreateRead(c) \/ UpdateRead(c) \/ DeleteRead(c) \/ DeleteManyRead(c) \/ CreateManyBuild(c)
      BY <2>1, GoesOn, LeaveAcks, OwnAcks
    <2>2. CASE GetRead(c) \/ FetchRead(c) \/ AccessFails(c) \/ ProbeRead(c)
      BY <2>2, LeaveAcks DEF GetRead, FetchRead, AccessFails, ProbeRead
    <2>3. CASE IndexRead(c)
      <3>1. CASE Leave(c, Err("notFound"))
        BY <2>3, <3>1, LeaveAcks DEF IndexRead
      <3> QED BY <2>3, <3>1, PassingFacts, OwnAcks DEF IndexRead
    <2>4. CASE Commit(c)
      BY <2>4, CommitAcks
    <2>5. CASE Panic(c)
      BY <2>5, PassingFacts, OwnAcks
    <2>6. CASE Return(c)
      BY <2>6, ReturnAcks
    <2> QED BY <1>2, <2>1, <2>2, <2>3, <2>4, <2>5, <2>6 DEF Step
  <1>3. CASE Sync \/ CloseEnd
    BY <1>3, DurableAcks DEF Sync, CloseEnd
  <1>4. CASE CloseBegin \/ UNCHANGED vars
    <2>1. UNCHANGED <<db, disk, op, allowed>>
      BY <1>4 DEF CloseBegin, vars
    <2> QED BY <2>1 DEF AInv, AckedStored, Landed, Touches
  <1>5. CASE Restart
    BY <1>5, RestartAcks
  <1> QED BY <1>1, <1>2, <1>3, <1>4, <1>5 DEF Next

\* With Config.WALSync and writers that follow the discipline of Permitted, an
\* ID holds, for readers and after a crash, only what its callers were told or
\* are still waiting to hear of: a write that returned nil is not lost.
THEOREM NothingAckedIsLost ==
  ASSUME Exclusive, WALSync
  PROVE  Spec => []AckedStored
  <1>1. IInv /\ WInv /\ AInv /\ [Next]_vars => IInv' /\ WInv' /\ AInv'
    BY NextIInv, NextWInv, NextAInv
  <1>2. AInv => AckedStored
    BY DEF AInv
  <1> QED BY InitIInv, InitWInv, InitAInv, <1>1, <1>2, PTL DEF Spec

-----------------------------------------------------------------------------
(***************************************************************************)
(* The refinement.  A call that writes takes effect at its commit; what    *)
(* the interface then does, from the arguments and the records as they     *)
(* are, has to be what the batch does, which was made of earlier reads.    *)
(* Effect says that it still is.                                           *)
(***************************************************************************)

\* The arguments the batch of c already reflects.
Through(c) == {k \in DOMAIN op[c].args : op[c].pc = "commit" \/ k < op[c].next}

Effect(c) ==
    /\ \A k \in DOMAIN op[c].args : op[c].args[k].id \in Ids
    /\ \A k \in Through(c) : op[c].batch.primary[op[c].args[k].id] =
          IF Places(op[c].kind) THEN op[c].args[k]
          ELSE IF db.primary[op[c].args[k].id] = NoRec THEN Keep ELSE NoRec
    /\ \A i \in Ids : Touches(c, i) => \E k \in Through(c) : op[c].args[k].id = i
    /\ op[c].pc = "commit" =>
          /\ op[c].kind \in {"create", "createMany"} =>
               \A k \in DOMAIN op[c].args : db.primary[op[c].args[k].id] = NoRec
          /\ op[c].kind \in {"create", "update", "delete"} =>
               op[c].next = 1 /\ DOMAIN op[c].args = {1}
          /\ op[c].kind = "update" =>
               /\ op[c].args \in Seq(Meta)
               /\ db.primary[M(c).id] # NoRec
               /\ db.primary[M(c).id].ver + 1 = M(c).ver

Underway(c) ==
    /\ op[c].pc # "idle" => op[c].kind \in Kinds
    /\ op[c].pc \in {"commit", "syncing"} => Writes(op[c].kind) \/ op[c].kind = "health"
    /\ op[c].pc = "probe" => op[c].kind = "health"
    /\ op[c].pc \notin {"idle", "return"} => op[c].res = Err("none")

EInv == \A c \in Clients : Underway(c) /\ (Active(c) => Effect(c))

\* A step of c's own call that leaves the database alone.
LEMMA OwnEffects ==
  ASSUME EInv, NEW c \in Clients, db' = db,
         \A d \in Clients \ {c} : op'[d] = op[d],
         Underway(c)', Active(c)' => Effect(c)'
  PROVE  EInv'
  <1>1. ASSUME NEW d \in Clients \ {c} PROVE Underway(d)' /\ (Active(d)' => Effect(d)')
    <2>1. Underway(d) /\ (Active(d) => Effect(d)) /\ op'[d] = op[d]
      BY DEF EInv
    <2>2. Underway(d)' /\ (Active(d)' <=> Active(d))
      BY <2>1 DEF Underway, Active
    <2>3. Effect(d) => Effect(d)'
      <3>1. Through(d)' = Through(d) /\ M(d)' = M(d) /\ \A i \in Ids : Touches(d, i)' <=> Touches(d, i)
        BY <2>1 DEF Through, M, Touches
      <3> QED BY <2>1, <3>1, SMTT(30) DEF Effect
    <2> QED BY <2>1, <2>2, <2>3
  <1> QED BY <1>1 DEF EInv

LEMMA LeaveEffects ==
  ASSUME IInv, EInv, NEW c \in Clients, NEW r, Leave(c, r), db' = db, op[c].pc # "idle"
  PROVE  EInv'
  <1>1. /\ op'[c].pc = "return" /\ op'[c].kind = op[c].kind
        /\ \A d \in Clients \ {c} : op'[d] = op[d]
    BY DEF Leave, IInv, TypeOK, Idle
  <1> QED BY <1>1, OwnEffects DEF EInv, Underway, Active

\* A read or loop iteration that goes on to the next one or to the commit.
LEMMA BuildEffects ==
  ASSUME EInv, NEW c \in Clients, db' = db, op[c].pc \in {"read", "build"},
         op'[c].pc \in {"read", "build", "commit"}, Writes(op[c].kind),
         op'[c].kind = op[c].kind, op'[c].res = op[c].res,
         \A d \in Clients \ {c} : op'[d] = op[d],
         Effect(c)'
  PROVE  EInv'
  BY OwnEffects DEF EInv, Underway

\* A call about a single ID, at its read.
LEMMA SingleFacts ==
  ASSUME TInv, NEW c \in Clients, op[c].pc = "read", op[c].kind \notin {"deleteMany"}
  PROVE  /\ op[c].next = 1 /\ DOMAIN op[c].args = {1} /\ M(c) = op[c].args[1]
         /\ op[c].batch = EmptyBatch
         /\ op[c].args = << M(c) >>
         /\ M(c) \in Arg
  <1>1. op[c].args \in Seq(Arg) /\ Len(op[c].args) = 1 /\ op[c].next = 1 /\ op[c].batch = EmptyBatch
    BY DEF TInv, TypeOK, Stage, Op
  <1> QED BY <1>1 DEF M

LEMMA CreateReadEffects ==
  ASSUME IInv, EInv, NEW c \in Clients, CreateRead(c)
  PROVE  EInv'
  <1>1. op[c].pc = "read" /\ op[c].kind = "create" /\ db' = db /\ TInv /\ op \in [Clients -> Op]
    BY DEF CreateRead, Calling, IInv, TInv, TypeOK
  <1>2. CASE db.primary[M(c).id] # NoRec
    BY <1>1, <1>2, LeaveEffects DEF CreateRead
  <1>3. CASE db.primary[M(c).id] = NoRec
    <2>1. /\ op'[c].kind = "create" /\ op'[c].args = op[c].args /\ op'[c].pc = "commit"
          /\ op'[c].next = op[c].next /\ op'[c].res = op[c].res
          /\ op'[c].batch = AddRecord(EmptyBatch, M(c))
          /\ \A d \in Clients \ {c} : op'[d] = op[d]
      BY <1>1, <1>3 DEF CreateRead, Op
    <2>2. /\ M(c).id \in Ids /\ M(c) \in Arg
          /\ op[c].next = 1 /\ DOMAIN op[c].args = {1} /\ M(c) = op[c].args[1]
      BY <1>1, BuildingFacts, SingleFacts DEF Writes
    <2>3. \A j \in Ids : op'[c].batch.primary[j] = IF j = M(c).id THEN M(c) ELSE Keep
      BY <2>1, <2>2, EmptyBatchType, EmptyBatchFacts DEF AddRecord, Batch
    <2>4. Effect(c)'
      BY <1>1, <1>3, <2>1, <2>2, <2>3 DEF Effect, Through, Touches, Places
    <2> QED BY <1>1, <2>1, <2>4, BuildEffects DEF Writes
  <1> QED BY <1>2, <1>3

LEMMA UpdateReadEffects ==
  ASSUME IInv, EInv, NEW c \in Clients, UpdateRead(c)
  PROVE  EInv'
  <1> DEFINE old == db.primary[M(c).id]
             new == [M(c) EXCEPT !.ver = @ + 1]
             b == ReplaceRecord(old, new)
  <1>1. op[c].pc = "read" /\ op[c].kind = "update" /\ db' = db /\ TInv /\ op \in [Clients -> Op]
    BY DEF UpdateRead, Calling, IInv, TInv, TypeOK
  <1>2. CASE \E err \in {"notFound", "conflict"} : Leave(c, Err(err))
    BY <1>1, <1>2, LeaveEffects
  <1>3. CASE /\ old # NoRec /\ old.ver = M(c).ver
             /\ op' = [op EXCEPT ![c].pc = "commit", ![c].args = <<new>>, ![c].batch = b]
    <2>1. /\ op'[c].kind = "update" /\ op'[c].args = <<new>> /\ op'[c].batch = b
          /\ op'[c].pc = "commit" /\ op'[c].next = op[c].next /\ op'[c].res = op[c].res
          /\ \A d \in Clients \ {c} : op'[d] = op[d]
      BY <1>1, <1>3 DEF Op
    <2>2. /\ M(c).id \in Ids /\ M(c) \in Arg
          /\ op[c].next = 1 /\ DOMAIN op[c].args = {1} /\ M(c) = op[c].args[1]
      BY <1>1, BuildingFacts, SingleFacts DEF Writes
    <2>3. new \in Meta /\ new.id = M(c).id /\ new.ver = M(c).ver + 1
      <3>1. M(c).ver \in Vers /\ M(c).ver < MaxVer /\ M(c).loc \in Locs
        BY <1>1, <2>2 DEF TInv, Stage, Arg
      <3> QED BY <2>2, <3>1, ConstantsAssumption DEF Meta, Arg, Vers
    <2> HIDE DEF new
    <2>4. DOMAIN op'[c].args = {1} /\ op'[c].args[1] = new /\ op'[c].args \in Seq(Meta)
      BY <2>1, <2>3
    <2>5. \A j \in Ids : op'[c].batch.primary[j] = IF j = M(c).id THEN new ELSE Keep
      BY <2>1, <2>2, <2>3, ReplacedPrimary
    <2>6. M(c)' = new
      BY <2>1, <2>2, <2>4 DEF M
    <2>7. Effect(c)'
      <3>1. Through(c)' = {1}
        BY <2>1, <2>4 DEF Through
      <3>2. \A i \in Ids : Touches(c, i)' => i = M(c).id
        BY <2>5 DEF Touches
      <3>3. db.primary[M(c).id].ver + 1 = new.ver
        BY <1>3, <2>3
      <3>4. \A k \in DOMAIN op'[c].args : op'[c].args[k] = new
        BY <2>4
      <3>5. op'[c].batch.primary[M(c).id] = new /\ Places(op'[c].kind)
        BY <2>1, <2>2, <2>5 DEF Places
      <3>6. db'.primary[new.id] # NoRec /\ db'.primary[new.id].ver + 1 = new.ver
        BY <1>1, <1>3, <2>3, <3>3
      <3> HIDE DEF old
      <3> QED BY <2>1, <2>2, <2>3, <2>4, <2>6, <3>1, <3>2, <3>4, <3>5, <3>6 DEF Effect
    <2> QED BY <1>1, <2>1, <2>7, BuildEffects DEF Writes
  <1> QED BY <1>2, <1>3 DEF UpdateRead

LEMMA DeleteReadEffects ==
  ASSUME IInv, EInv, NEW c \in Clients, DeleteRead(c)
  PROVE  EInv'
  <1> DEFINE old == db.primary[M(c).id]
  <1>1. op[c].pc = "read" /\ op[c].kind = "delete" /\ db' = db /\ TInv /\ op \in [Clients -> Op]
    BY DEF DeleteRead, Calling, IInv, TInv, TypeOK
  <1>2. CASE old = NoRec
    BY <1>1, <1>2, LeaveEffects DEF DeleteRead
  <1>3. CASE old # NoRec
    <2>1. /\ op'[c].kind = "delete" /\ op'[c].args = op[c].args /\ op'[c].pc = "commit"
          /\ op'[c].next = op[c].next /\ op'[c].res = op[c].res
          /\ op'[c].batch = AddDeletion(EmptyBatch, old)
          /\ \A d \in Clients \ {c} : op'[d] = op[d]
      BY <1>1, <1>3 DEF DeleteRead, Op
    <2>2. /\ M(c).id \in Ids /\ old \in Meta /\ old.id = M(c).id
          /\ op[c].next = 1 /\ DOMAIN op[c].args = {1} /\ M(c) = op[c].args[1]
      BY <1>1, <1>3, BuildingFacts, SingleFacts DEF Writes
    <2>3. \A j \in Ids : op'[c].batch.primary[j] = IF j = M(c).id THEN NoRec ELSE Keep
      BY <2>1, <2>2, EmptyBatchType, EmptyBatchFacts, AddDeletionFacts, SMTT(30)
    <2>4. Through(c)' = {1} /\ \A i \in Ids : Touches(c, i)' => i = M(c).id
      BY <2>1, <2>2, <2>3 DEF Through, Touches
    <2>5. Effect(c)'
      <3>1. \A k \in DOMAIN op'[c].args : op'[c].args[k] = M(c)
        BY <2>1, <2>2
      <3>2. op'[c].batch.primary[M(c).id] = NoRec /\ db'.primary[M(c).id] # NoRec
        BY <1>1, <1>3, <2>2, <2>3
      <3>3. ~Places(op'[c].kind)
        BY <2>1 DEF Places
      <3>4. \A k \in Through(c)' : k \in DOMAIN op'[c].args
        BY DEF Through
      <3> HIDE DEF old
      <3> QED BY <2>1, <2>2, <2>4, <3>1, <3>2, <3>3, <3>4 DEF Effect
    <2> QED BY <1>1, <2>1, <2>5, BuildEffects DEF Writes
  <1> QED BY <1>2, <1>3

\* One more iteration of a loop.
LEMMA OneMore ==
  ASSUME NEW c \in Clients, op[c] \in Op, op[c].next \in DOMAIN op[c].args,
         op[c].pc # "commit", op'[c].args = op[c].args,
         op'[c].pc = "commit" <=> op[c].next = Len(op[c].args),
         op'[c].next = IF op[c].next = Len(op[c].args) THEN op[c].next ELSE op[c].next + 1
  PROVE  Through(c)' = Through(c) \cup {op[c].next}
  <1>1. op[c].args \in Seq(Arg) /\ DOMAIN op[c].args = 1..Len(op[c].args) /\ Len(op[c].args) \in Nat
    BY DEF Op
  <1> QED BY <1>1 DEF Through

LEMMA DeleteManyReadEffects ==
  ASSUME IInv, EInv, NEW c \in Clients, DeleteManyRead(c)
  PROVE  EInv'
  <1> DEFINE old == db.primary[M(c).id]
             b == op[c].batch
  <1>1. op[c].pc = "read" /\ op[c].kind = "deleteMany" /\ db' = db /\ TInv /\ op \in [Clients -> Op]
    BY DEF DeleteManyRead, Calling, IInv, TInv, TypeOK
  <1>2. /\ op'[c].kind = "deleteMany" /\ op'[c].args = op[c].args /\ op'[c].res = op[c].res
        /\ op'[c].pc = IF op[c].next = Len(op[c].args) THEN "commit" ELSE "read"
        /\ op'[c].next = IF op[c].next = Len(op[c].args) THEN op[c].next ELSE op[c].next + 1
        /\ op'[c].batch = IF old = NoRec THEN b ELSE AddDeletion(b, old)
        /\ \A d \in Clients \ {c} : op'[d] = op[d]
    BY <1>1 DEF DeleteManyRead, Op
  <1>3. /\ M(c).id \in Ids /\ Active(c)
        /\ old \in Meta \cup {NoRec} /\ (old # NoRec => old.id = M(c).id)
        /\ b \in Batch /\ op[c] \in Op
    BY <1>1, BuildingFacts DEF Writes, Op
  <1>4. M(c) = op[c].args[op[c].next] /\ op[c].next \in DOMAIN op[c].args
    BY <1>1, ReadingType
  <1>5. Through(c)' = Through(c) \cup {op[c].next} /\ Through(c) \subseteq DOMAIN op[c].args
    BY <1>1, <1>2, <1>3, <1>4, OneMore DEF Through
  <1>6. Effect(c)
    BY <1>3 DEF EInv
  <1>7. \A j \in Ids : op'[c].batch.primary[j] =
           IF j = M(c).id THEN IF old = NoRec THEN Keep ELSE NoRec ELSE b.primary[j]
    <2>1. CASE old = NoRec
      <3>1. b.primary[M(c).id] = Keep
        BY <1>1, <1>3, <1>6, <2>1 DEF Effect, Touches, Places
      <3> QED BY <1>2, <2>1, <3>1
    <2>2. CASE old # NoRec
      BY <1>2, <1>3, <2>2, AddDeletionFacts
    <2> QED BY <2>1, <2>2
  <1>8. Effect(c)'
    <2>1. \A k \in DOMAIN op[c].args : op[c].args[k].id \in Ids
      BY <1>6 DEF Effect
    <2>2. \A k \in Through(c)' : op'[c].batch.primary[op[c].args[k].id] =
             IF db.primary[op[c].args[k].id] = NoRec THEN Keep ELSE NoRec
      BY <1>1, <1>4, <1>5, <1>6, <1>7, <2>1 DEF Effect, Places
    <2>3. \A i \in Ids : Touches(c, i)' => \E k \in Through(c)' : op[c].args[k].id = i
      BY <1>4, <1>5, <1>6, <1>7, SMTT(30) DEF Effect, Touches
    <2> QED BY <1>1, <1>2, <2>1, <2>2, <2>3 DEF Effect, Places
  <1> QED BY <1>1, <1>2, <1>8, BuildEffects DEF Writes

LEMMA CreateManyBuildEffects ==
  ASSUME IInv, EInv, NEW c \in Clients, CreateManyBuild(c)
  PROVE  EInv'
  <1> DEFINE b == op[c].batch
  <1>1. op[c].pc = "build" /\ op[c].kind = "createMany" /\ db' = db /\ TInv /\ op \in [Clients -> Op]
    BY DEF CreateManyBuild, Calling, IInv, TInv, TypeOK
  <1>2. CASE ~Valid(M(c))
    BY <1>1, <1>2, LeaveEffects DEF CreateManyBuild
  <1>3. CASE Valid(M(c))
    <2>1. /\ op'[c].kind = "createMany" /\ op'[c].args = op[c].args /\ op'[c].res = op[c].res
          /\ op'[c].pc = IF op[c].next = Len(op[c].args) THEN "commit" ELSE "build"
          /\ op'[c].next = IF op[c].next = Len(op[c].args) THEN op[c].next ELSE op[c].next + 1
          /\ op'[c].batch = AddRecord(b, M(c))
          /\ \A d \in Clients \ {c} : op'[d] = op[d]
      BY <1>1, <1>3 DEF CreateManyBuild, Op
    <2>2. /\ Active(c) /\ Relies(c) /\ M(c).id \in Ids /\ M(c) \in Arg
          /\ op[c] \in Op /\ b \in Batch
      BY <1>1, BuildingFacts DEF Writes, Op
    <2>3. M(c) = op[c].args[op[c].next] /\ op[c].next \in DOMAIN op[c].args
      BY <1>1, ReadingType
    <2>4. M(c) \in Meta
      BY <1>3, <2>2 DEF Valid, Arg, Meta
    <2>5. \A j \in Ids : op'[c].batch.primary[j] = IF j = M(c).id THEN M(c) ELSE b.primary[j]
      BY <2>1, <2>2, <2>4, AddRecordFacts
    <2>6. Through(c)' = Through(c) \cup {op[c].next} /\ Through(c) \subseteq DOMAIN op[c].args
      BY <1>1, <2>1, <2>2, <2>3, OneMore DEF Through
    <2>7. Effect(c)
      BY <2>2 DEF EInv
    <2>8. \A k \in DOMAIN op[c].args : /\ op[c].args[k].id \in Ids
                                       /\ db.primary[op[c].args[k].id] = NoRec
                                       /\ k # op[c].next => op[c].args[k].id # M(c).id
      BY <1>1, <2>2, <2>3 DEF Relies
    <2>9. \A k \in Through(c)' : op'[c].batch.primary[op[c].args[k].id] = op[c].args[k]
      BY <1>1, <2>3, <2>5, <2>6, <2>7, <2>8 DEF Effect, Places
    <2>10. \A i \in Ids : Touches(c, i)' => \E k \in Through(c)' : op[c].args[k].id = i
      BY <2>3, <2>5, <2>6, <2>7, SMTT(30) DEF Effect, Touches
    <2>11. Effect(c)'
      BY <1>1, <2>1, <2>8, <2>9, <2>10 DEF Effect, Places
    <2> QED BY <1>1, <2>1, <2>11, BuildEffects DEF Writes
  <1> QED BY <1>2, <1>3

LEMMA CommitEffects ==
  ASSUME IInv, WInv, EInv, NEW c \in Clients, Commit(c)
  PROVE  EInv'
  <1>1. Underway(c)' /\ ~Active(c)'
    <2>1. op[c].pc = "commit" /\ Underway(c)
      BY CommitFacts DEF EInv
    <2> QED BY <2>1, CommitFacts DEF Underway, Active
  <1>2. ASSUME NEW d \in Clients \ {c}, Active(d)' PROVE Effect(d)'
    <2>1. op'[d] = op[d] /\ Active(d) /\ Effect(d)
      BY <1>2, CommitFacts DEF Active, EInv
    <2>2. Through(d)' = Through(d) /\ M(d)' = M(d) /\ \A i \in Ids : Touches(d, i)' <=> Touches(d, i)
      BY <2>1 DEF Through, M, Touches
    <2>3. \A k \in DOMAIN op[d].args : db'.primary[op[d].args[k].id] = db.primary[op[d].args[k].id]
      <3> SUFFICES ASSUME NEW k \in DOMAIN op[d].args
                   PROVE  db'.primary[op[d].args[k].id] = db.primary[op[d].args[k].id]
        OBVIOUS
      <3>1. op[d].args[k].id \in Ids \cap ArgIds(op[d].args)
        BY <2>1 DEF Effect, ArgIds
      <3>2. ~Touches(c, op[d].args[k].id)
        BY <2>1, <3>1 DEF WInv, Held, Apart, Active, Writing
      <3> QED BY <3>1, <3>2, CommitFacts
    <2>4. Through(d) \subseteq DOMAIN op[d].args
      BY DEF Through
    <2>5. op[d].pc = "commit" /\ op[d].kind = "update" => db'.primary[M(d).id] = db.primary[M(d).id]
      BY <2>1, <2>3 DEF Effect, M
    <2> QED BY <2>1, <2>2, <2>3, <2>4, <2>5 DEF Effect
  <1>3. ASSUME NEW d \in Clients \ {c} PROVE Underway(d)'
    BY CommitFacts DEF EInv, Underway
  <1> QED BY <1>1, <1>2, <1>3 DEF EInv

LEMMA DurableEffects ==
  ASSUME IInv, EInv, Durable, db' = db
  PROVE  EInv'
  <1>1. ASSUME NEW d \in Clients PROVE Underway(d)'
    BY DurableFacts DEF EInv, Underway
  <1>2. ASSUME NEW d \in Clients, Active(d)' PROVE Effect(d)'
    <2>1. Active(d) /\ op'[d] = op[d]
      <3>1. op[d].pc # "syncing"
        BY <1>2, DurableFacts DEF Active
      <3> QED BY <1>2, <3>1 DEF Durable, Active
    <2>2. Through(d)' = Through(d) /\ M(d)' = M(d) /\ \A i \in Ids : Touches(d, i)' <=> Touches(d, i)
      BY <2>1 DEF Through, M, Touches
    <2> QED BY <2>1, <2>2 DEF EInv, Effect
  <1> QED BY <1>1, <1>2 DEF EInv

LEMMA IdleEffects ==
  ASSUME \A d \in Clients : op'[d] = Idle
  PROVE  EInv'
  BY IdleFields DEF EInv, Underway, Active

LEMMA OverEffects ==
  ASSUME EInv, NEW c \in Clients, db' = db,
         \A d \in Clients \ {c} : op'[d] = op[d],
         \/ op'[c].pc = "idle"
         \/ op'[c].pc = "return" /\ op'[c].kind \in Kinds
  PROVE  EInv'
  BY OwnEffects DEF Underway, Active

LEMMA CallEffects ==
  ASSUME IInv, EInv, NEW c \in Clients, NEW kind \in Kinds,
         NEW args \in Requests(kind), Call(c, kind, args)
  PROVE  EInv'
  <1>1. Enter(c, kind, args, Entry(kind), "none") /\ kind \in AllKinds
    BY ConstantsAssumption DEF Call
  <1>2. /\ db' = db /\ op'[c].kind = kind /\ op'[c].args = args /\ op'[c].batch = EmptyBatch
        /\ op'[c].pc = Entry(kind) /\ op'[c].next = 1 /\ op'[c].res = Err("none")
        /\ \A d \in Clients \ {c} : op'[d] = op[d]
    BY <1>1, EnteredFacts
  <1>3. Underway(c)'
    BY <1>2 DEF Underway, Entry
  <1>4. ASSUME Active(c)' PROVE Effect(c)'
    <2>1. Writes(kind) /\ op'[c].pc # "commit"
      BY <1>2, <1>4 DEF Active, Entry, Writes
    <2>2. \A k \in DOMAIN args : args[k].id \in Ids
      BY <1>1, <2>1, RequestType DEF Writes
    <2>3. args \in Seq(Arg)
      BY <1>1, RequestType
    <2>4. Through(c)' = {}
      BY <1>2, <2>1, <2>3 DEF Through
    <2>5. \A i \in Ids : ~Touches(c, i)'
      BY <1>2, EmptyTouchesNext
    <2> QED BY <1>2, <2>1, <2>2, <2>4, <2>5 DEF Effect
  <1> QED BY <1>2, <1>3, <1>4, OwnEffects

LEMMA PassingEffects ==
  ASSUME IInv, EInv, NEW c \in Clients,
         \/ Panic(c)
         \/ IndexRead(c) /\ op' = [op EXCEPT ![c].pc = "fetch", ![c].seen = db.secondary[M(c).loc]]
  PROVE  EInv'
  <1>1. Underway(c)' /\ ~Active(c)'
    BY PassingFacts DEF EInv, Underway, Active
  <1> QED BY <1>1, PassingFacts, OwnEffects

LEMMA InitEInv == Init => EInv
  <1> SUFFICES ASSUME Init PROVE EInv
    OBVIOUS
  <1>1. \A d \in Clients : op[d] = Idle
    BY DEF Init
  <1> QED BY <1>1, IdleFields DEF EInv, Underway, Active

LEMMA NextEInv ==
  ASSUME IInv, WInv, EInv, [Next]_vars
  PROVE  EInv'
  <1>1. ASSUME NEW c \in Clients, NEW kind \in Kinds, NEW args \in Requests(kind),
               CallRefused(c, kind, args) \/ CallEmpty(c, kind, args) \/ Call(c, kind, args)
        PROVE  EInv'
    <2>1. ASSUME NEW a, NEW err, Enter(c, kind, a, "return", err) PROVE EInv'
      BY <2>1, EnteredFacts, OverEffects
    <2> QED BY <1>1, <2>1, CallEffects DEF CallRefused, CallEmpty
  <1>2. ASSUME NEW c \in Clients, Step(c) PROVE EInv'
    <2>1. CASE CreateRead(c)
      BY <2>1, CreateReadEffects
    <2>2. CASE GetRead(c) \/ FetchRead(c) \/ AccessFails(c) \/ ProbeRead(c)
      BY <2>2, LeaveEffects DEF GetRead, FetchRead, AccessFails, ProbeRead, Calling
    <2>3. CASE IndexRead(c)
      <3>1. CASE Leave(c, Err("notFound"))
        BY <2>3, <3>1, LeaveEffects DEF IndexRead, Calling
      <3> QED BY <2>3, <3>1, PassingEffects DEF IndexRead
    <2>4. CASE UpdateRead(c)
      BY <2>4, UpdateReadEffects
    <2>5. CASE DeleteRead(c)
      BY <2>5, DeleteReadEffects
    <2>6. CASE DeleteManyRead(c)
      BY <2>6, DeleteManyReadEffects
    <2>7. CASE CreateManyBuild(c)
      BY <2>7, CreateManyBuildEffects
    <2>8. CASE Commit(c)
      BY <2>8, CommitEffects
    <2>9. CASE Panic(c)
      BY <2>9, PassingEffects
    <2>10. CASE Return(c)
      <3>1. db' = db /\ op'[c] = Idle /\ \A d \in Clients \ {c} : op'[d] = op[d]
        BY <2>10 DEF Return, IInv, TypeOK
      <3> QED BY <3>1, IdleFields, OverEffects
    <2> QED BY <1>2, <2>1, <2>2, <2>3, <2>4, <2>5, <2>6, <2>7, <2>8, <2>9, <2>10 DEF Step
  <1>3. CASE Sync \/ CloseEnd
    BY <1>3, DurableEffects DEF Sync, CloseEnd
  <1>4. CASE CloseBegin \/ UNCHANGED vars
    <2>1. db' = db /\ op' = op
      BY <1>4 DEF CloseBegin, vars
    <2>2. ASSUME NEW d \in Clients PROVE Underway(d)' /\ (Active(d)' => Effect(d)')
      <3>1. Underway(d)' /\ (Active(d)' <=> Active(d))
        BY <2>1 DEF EInv, Underway, Active
      <3>2. Through(d)' = Through(d) /\ M(d)' = M(d) /\ \A i \in Ids : Touches(d, i)' <=> Touches(d, i)
        BY <2>1 DEF Through, M, Touches
      <3> QED BY <2>1, <3>1, <3>2 DEF EInv, Effect
    <2> QED BY <2>2 DEF EInv
  <1>5. CASE Restart
    BY <1>5, IdleEffects DEF Restart
  <1> QED BY <1>1, <1>2, <1>3, <1>4, <1>5 DEF Next

-----------------------------------------------------------------------------
(* The steps, as the interface sees them. *)

View == [c \in Clients |-> AbstractCall(c)]

LEMMA PendingRecord ==
  ASSUME NEW kind, NEW args
  PROVE  Interface!Pending(kind, args) =
           [status |-> "pending", kind |-> kind, args |-> args,
            err |-> "none", m |-> NoRec, wrote |-> {}]
  <1> DEFINE nobody == << >>
             none == "none"
             idle == "idle"
             pending == "pending"
             nothing == {}
  <1>1. Interface!NoCall = [status |-> idle, kind |-> none, args |-> nobody,
                            err |-> none, m |-> NoRec, wrote |-> nothing]
    BY Zenon DEF Interface!NoCall
  <1>2. Interface!Pending(kind, args) =
          [Interface!NoCall EXCEPT !.status = pending, !.kind = kind, !.args = args]
    BY Zenon DEF Interface!Pending
  <1> HIDE DEF nobody, none, idle, pending, nothing
  <1>3. Interface!Pending(kind, args) =
          [status |-> pending, kind |-> kind, args |-> args, err |-> none, m |-> NoRec, wrote |-> nothing]
    BY <1>1, <1>2
  <1> QED BY <1>3, Zenon DEF none, pending, nothing

LEMMA DoneRecord ==
  ASSUME NEW kind, NEW err, NEW m, NEW wrote
  PROVE  Interface!Done(kind, err, m, wrote) =
           [status |-> "done", kind |-> kind, args |-> << >>,
            err |-> err, m |-> m, wrote |-> wrote]
  <1> DEFINE nobody == << >>
             nothing == {}
             none == "none"
             idle == "idle"
             done == "done"
  <1>1. Interface!NoCall = [status |-> idle, kind |-> none, args |-> nobody,
                            err |-> none, m |-> NoRec, wrote |-> nothing]
    BY Zenon DEF Interface!NoCall
  <1>2. Interface!Done(kind, err, m, wrote) =
          [Interface!NoCall EXCEPT !.status = done, !.kind = kind, !.err = err, !.m = m, !.wrote = wrote]
    BY Zenon DEF Interface!Done
  <1> HIDE DEF nobody, nothing, none, idle, done
  <1>3. Interface!Done(kind, err, m, wrote) =
          [status |-> done, kind |-> kind, args |-> nobody, err |-> err, m |-> m, wrote |-> wrote]
    BY <1>1, <1>2
  <1> QED BY <1>3, Zenon DEF nobody, done

\* A call as the interface sees it, by its program counter.
ViewOf(c) ==
    /\ op[c].pc = "idle" => AbstractCall(c) = Interface!NoCall
    /\ Undecided(c) => AbstractCall(c) = Interface!Pending(op[c].kind, Passed(c))
    /\ op[c].pc = "syncing" /\ op[c].kind # "health" =>
         AbstractCall(c) = Interface!Done(op[c].kind, "ok", op[c].res.m, Wrote(c))
    /\ op[c].pc = "return" =>
         AbstractCall(c) = Interface!Done(op[c].kind, op[c].res.err, op[c].res.m,
                                          IF op[c].res.err = "ok" THEN Wrote(c) ELSE {})

LEMMA Views ==
  ASSUME NEW c \in Clients
  PROVE  ViewOf(c)
  <1>1. ASSUME op[c].pc = "idle" PROVE AbstractCall(c) = Interface!NoCall
    <2>1. ~Undecided(c)
      BY <1>1 DEF Undecided
    <2> QED BY <1>1, <2>1 DEF AbstractCall, Interface!NoCall
  <1>2. ASSUME Undecided(c) PROVE AbstractCall(c) = Interface!Pending(op[c].kind, Passed(c))
    <2>1. op[c].pc # "idle"
      BY <1>2 DEF Undecided
    <2> QED BY <1>2, <2>1, PendingRecord DEF AbstractCall
  <1>3. ASSUME op[c].pc = "syncing", op[c].kind # "health"
        PROVE  AbstractCall(c) = Interface!Done(op[c].kind, "ok", op[c].res.m, Wrote(c))
    <2>1. ~Undecided(c) /\ Settled(c)
      BY <1>3 DEF Undecided, Settled
    <2>2. AbstractCall(c) = [status |-> "done", kind |-> op[c].kind, args |-> << >>,
                             err |-> "ok", m |-> op[c].res.m, wrote |-> Wrote(c)]
      BY <1>3, <2>1 DEF AbstractCall
    <2> QED BY <2>2, DoneRecord
  <1>4. ASSUME op[c].pc = "return"
        PROVE  AbstractCall(c) = Interface!Done(op[c].kind, op[c].res.err, op[c].res.m,
                                                IF op[c].res.err = "ok" THEN Wrote(c) ELSE {})
    <2>1. ~Undecided(c) /\ (Settled(c) <=> op[c].res.err = "ok")
      BY <1>4 DEF Undecided, Settled
    <2>2. AbstractCall(c) = [status |-> "done", kind |-> op[c].kind, args |-> << >>,
                             err |-> op[c].res.err, m |-> op[c].res.m,
                             wrote |-> IF op[c].res.err = "ok" THEN Wrote(c) ELSE {}]
      BY <1>4, <2>1 DEF AbstractCall
    <2> QED BY <2>2, DoneRecord
  <1> QED BY <1>1, <1>2, <1>3, <1>4 DEF ViewOf

LEMMA ViewsNext ==
  ASSUME NEW c \in Clients
  PROVE  ViewOf(c)'
  BY Views, PTL

LEMMA SameCall ==
  ASSUME NEW d \in Clients, op'[d] = op[d]
  PROVE  AbstractCall(d)' = AbstractCall(d)
  BY DEF AbstractCall, Undecided, Passed, Wrote, Settled, M

LEMMA EmptyWrote ==
  ASSUME NEW c \in Clients
  PROVE  /\ op[c].batch = EmptyBatch => Wrote(c) = {}
         /\ op'[c].batch = EmptyBatch => Wrote(c)' = {}
  BY EmptyBatchFacts DEF Wrote

LEMMA OneMoves ==
  ASSUME NEW c \in Clients, \A d \in Clients \ {c} : op'[d] = op[d]
  PROVE  View' = [View EXCEPT ![c] = AbstractCall(c)']
  <1>1. \A d \in Clients \ {c} : AbstractCall(d)' = AbstractCall(d)
    BY SameCall
  <1> QED BY <1>1 DEF View

LEMMA StatusFacts ==
  ASSUME NEW kind, NEW args, NEW err, NEW m, NEW wrote
  PROVE  /\ Interface!NoCall.status = "idle"
         /\ Interface!Pending(kind, args).status = "pending"
         /\ Interface!Pending(kind, args).kind = kind
         /\ Interface!Pending(kind, args).args = args
         /\ Interface!Done(kind, err, m, wrote).status = "done"
         /\ Interface!Done(kind, err, m, wrote).kind = kind
         /\ Interface!Done(kind, err, m, wrote).wrote = wrote
  BY DEF Interface!NoCall, Interface!Pending, Interface!Done

LEMMA InvokeRefines ==
  ASSUME NEW c \in Clients, \A d \in Clients \ {c} : op'[d] = op[d],
         UNCHANGED <<db.primary, allowed>>,
         NEW kind \in Kinds, NEW args \in Requests(kind),
         AbstractCall(c) = Interface!NoCall, AbstractCall(c)' = Interface!Pending(kind, args)
  PROVE  Interface!Invoke(c)
  <1>1. View' = [View EXCEPT ![c] = View'[c]] /\ View'[c] = AbstractCall(c)' /\ View[c] = AbstractCall(c)
    BY OneMoves DEF View
  <1> QED BY <1>1, StatusFacts DEF Interface!Invoke, Interface!Moves, View

LEMMA NothingRefines ==
  ASSUME NEW c \in Clients, \A d \in Clients \ {c} : op'[d] = op[d],
         UNCHANGED <<db.primary, allowed>>,
         NEW kind \in Kinds, << >> \in Requests(kind),
         AbstractCall(c) = Interface!NoCall, AbstractCall(c)' = Interface!Done(kind, "ok", NoRec, {})
  PROVE  Interface!Nothing(c)
  <1>1. View' = [View EXCEPT ![c] = View'[c]] /\ View'[c] = AbstractCall(c)' /\ View[c] = AbstractCall(c)
    BY OneMoves DEF View
  <1> QED BY <1>1, StatusFacts DEF Interface!Nothing, Interface!Moves, View

LEMMA RejectRefines ==
  ASSUME NEW c \in Clients, \A d \in Clients \ {c} : op'[d] = op[d],
         UNCHANGED <<db.primary, allowed>>,
         NEW kind, NEW args, NEW err \in {"closed", "canceled", "invalid", "io"},
         \/ AbstractCall(c) = Interface!NoCall /\ kind \in Kinds
         \/ AbstractCall(c) = Interface!Pending(kind, args),
         AbstractCall(c)' = Interface!Done(kind, err, NoRec, {})
  PROVE  Interface!Reject(c)
  <1>1. View' = [View EXCEPT ![c] = View'[c]] /\ View'[c] = AbstractCall(c)' /\ View[c] = AbstractCall(c)
    BY OneMoves DEF View
  <1> QED BY <1>1, StatusFacts DEF Interface!Reject, Interface!Moves, View

LEMMA DoubtRefines ==
  ASSUME NEW c \in Clients, \A d \in Clients \ {c} : op'[d] = op[d],
         UNCHANGED <<db.primary, allowed>>,
         NEW kind, NEW err, NEW m, NEW wrote,
         AbstractCall(c) = Interface!Done(kind, err, m, wrote),
         AbstractCall(c)' = Interface!Done(kind, "io", NoRec, {})
  PROVE  Interface!Doubt(c)
  <1>1. View' = [View EXCEPT ![c] = View'[c]] /\ View'[c] = AbstractCall(c)' /\ View[c] = AbstractCall(c)
    BY OneMoves DEF View
  <1>2. View[c].status = "done" /\ View[c].kind = kind
    BY <1>1, StatusFacts
  <1>3. View' = [View EXCEPT ![c] = Interface!Done(View[c].kind, "io", NoRec, {})]
    BY <1>1, <1>2
  <1> QED BY <1>2, <1>3 DEF Interface!Doubt, View

LEMMA RespondRefines ==
  ASSUME NEW c \in Clients, \A d \in Clients \ {c} : op'[d] = op[d],
         db'.primary = db.primary,
         NEW kind, NEW err, NEW m, NEW wrote,
         AbstractCall(c) = Interface!Done(kind, err, m, wrote),
         AbstractCall(c)' = Interface!NoCall,
         allowed' = [i \in Ids |-> IF i \in wrote THEN {db.primary[i]} ELSE allowed[i]]
  PROVE  Interface!Respond(c)
  <1>1. View' = [View EXCEPT ![c] = View'[c]] /\ View'[c] = AbstractCall(c)' /\ View[c] = AbstractCall(c)
    BY OneMoves DEF View
  <1> QED BY <1>1, StatusFacts DEF Interface!Respond, View

LEMMA PerformRefines ==
  ASSUME NEW c \in Clients, \A d \in Clients \ {c} : op'[d] = op[d],
         NEW kind, NEW args, NEW err, NEW m, NEW wrote,
         AbstractCall(c) = Interface!Pending(kind, args),
         AbstractCall(c)' = Interface!Done(kind, err, m, wrote),
         err = Interface!Verdict(kind, args),
         db'.primary = IF err = "ok" THEN Interface!After(kind, args) ELSE db.primary,
         wrote = {i \in Ids : db'.primary[i] # db.primary[i]},
         m = IF kind \in {"get", "exists"} /\ err = "ok" THEN db.primary[args[1].id] ELSE NoRec,
         allowed' = [i \in Ids |-> IF i \in wrote THEN allowed[i] \cup {db'.primary[i]} ELSE allowed[i]]
  PROVE  Interface!Perform(c)
  <1>1. View' = [View EXCEPT ![c] = View'[c]] /\ View'[c] = AbstractCall(c)' /\ View[c] = AbstractCall(c)
    BY OneMoves DEF View
  <1>2. View[c].status = "pending" /\ View[c].kind = kind /\ View[c].args = args
    BY <1>1, StatusFacts
  <1>3. View' = [View EXCEPT ![c] = Interface!Done(kind, err, m, wrote)]
    BY <1>1
  <1> QED BY <1>2, <1>3 DEF Interface!Perform, View

\* A read that decides a call: it takes effect there, on nothing.
LEMMA PerformsNothing ==
  ASSUME IInv, NEW c \in Clients, \A d \in Clients \ {c} : op'[d] = op[d],
         UNCHANGED <<db, allowed>>,
         NEW kind, NEW args, NEW err, NEW m,
         AbstractCall(c) = Interface!Pending(kind, args),
         AbstractCall(c)' = Interface!Done(kind, err, m, {}),
         err = Interface!Verdict(kind, args),
         err = "ok" => Interface!After(kind, args) = db.primary,
         m = IF kind \in {"get", "exists"} /\ err = "ok" THEN db.primary[args[1].id] ELSE NoRec
  PROVE  Interface!Perform(c)
  <1>1. allowed = [i \in Ids |-> allowed[i]]
    BY DEF IInv, TypeOK
  <1>2. {i \in Ids : db'.primary[i] # db.primary[i]} = {}
    OBVIOUS
  <1> QED BY <1>1, <1>2, PerformRefines

\* A call of client c that leaves, as the interface sees it before and after.
LEMMA LeaveView ==
  ASSUME IInv, NEW c \in Clients, NEW r, Leave(c, r)
  PROVE  /\ AbstractCall(c)' = Interface!Done(op[c].kind, r.err, r.m, {})
         /\ \A d \in Clients \ {c} : op'[d] = op[d]
  <1>1. /\ op'[c].pc = "return" /\ op'[c].kind = op[c].kind /\ op'[c].res = r
        /\ op'[c].batch = EmptyBatch
        /\ \A d \in Clients \ {c} : op'[d] = op[d]
    BY DEF Leave, IInv, TypeOK, Idle
  <1>2. Wrote(c)' = {}
    BY <1>1, EmptyWrote
  <1> QED BY <1>1, <1>2, ViewsNext DEF ViewOf

LEMMA ReadView ==
  ASSUME IInv, NEW c \in Clients, op[c].pc = "read" \/ op[c].pc = "build"
  PROVE  AbstractCall(c) = Interface!Pending(op[c].kind, op[c].args)
  <1>1. Undecided(c)
    BY DEF Undecided
  <1>2. Passed(c) = op[c].args
    BY DEF Passed, IInv, Stage
  <1> QED BY <1>1, <1>2, Views DEF ViewOf

LEMMA SingleArg ==
  ASSUME IInv, NEW c \in Clients, op[c].pc = "read", op[c].kind # "deleteMany"
  PROVE  /\ op[c].args = << M(c) >> /\ op[c].args[1] = M(c)
         /\ Interface!ArgIds(op[c].args) = {M(c).id}
         /\ (op[c].kind # "getByKey" => M(c).id \in Ids)
  <1>1. TInv
    BY DEF IInv, TInv
  <1>2. op[c].args = << M(c) >> /\ DOMAIN op[c].args = {1} /\ op[c].args[1] = M(c)
    BY <1>1, SingleFacts
  <1>3. Interface!ArgIds(op[c].args) = {M(c).id}
    BY <1>2 DEF Interface!ArgIds
  <1>4. op[c].kind # "getByKey" => M(c).id \in Ids
    BY <1>1, <1>2 DEF TInv, Stage
  <1> QED BY <1>2, <1>3, <1>4

LEMMA CreateReadRefines ==
  ASSUME IInv, NEW c \in Clients, CreateRead(c), db.primary[M(c).id] # NoRec
  PROVE  Interface!Perform(c)
  <1>1. /\ op[c].pc = "read" /\ op[c].kind = "create" /\ Leave(c, Err("exists"))
        /\ UNCHANGED <<db, allowed>>
    BY DEF CreateRead, Calling
  <1>2. Interface!Verdict("create", op[c].args) = "exists"
    BY <1>1, SingleArg DEF Interface!Verdict, Interface!Stored
  <1>3. Err("exists").err = "exists" /\ Err("exists").m = NoRec
    BY DEF Err, Result
  <1> QED BY <1>1, <1>2, <1>3, ReadView, LeaveView, PerformsNothing

LEMMA GetReadRefines ==
  ASSUME IInv, NEW c \in Clients, GetRead(c)
  PROVE  Interface!Perform(c)
  <1> DEFINE m == db.primary[M(c).id]
             r == IF m = NoRec THEN Err("notFound") ELSE Result("ok", m)
  <1>1. /\ op[c].pc = "read" /\ op[c].kind \in {"get", "exists"} /\ Leave(c, r)
        /\ UNCHANGED <<db, allowed>>
    BY DEF GetRead, Calling
  <1>2. Interface!Verdict(op[c].kind, op[c].args) = IF m = NoRec THEN "notFound" ELSE "ok"
    BY <1>1, SingleArg DEF Interface!Verdict, Interface!Stored
  <1>3. r.err = (IF m = NoRec THEN "notFound" ELSE "ok") /\ r.m = m
    BY DEF Err, Result
  <1>4. op[c].kind \in {"get", "exists"} => Interface!After(op[c].kind, op[c].args) = db.primary
    BY DEF Interface!After
  <1>5. op[c].args[1].id = M(c).id
    BY <1>1, SingleArg
  <1> HIDE DEF r
  <1> QED BY <1>1, <1>2, <1>3, <1>4, <1>5, ReadView, LeaveView, PerformsNothing

LEMMA UpdateReadRefines ==
  ASSUME IInv, NEW c \in Clients, UpdateRead(c), NEW err \in {"notFound", "conflict"},
         Leave(c, Err(err)),
         err = "notFound" <=> db.primary[M(c).id] = NoRec,
         err = "conflict" => db.primary[M(c).id].ver # M(c).ver
  PROVE  Interface!Perform(c)
  <1>1. op[c].pc = "read" /\ op[c].kind = "update" /\ UNCHANGED <<db, allowed>>
    BY DEF UpdateRead, Calling
  <1>2. Interface!Verdict("update", op[c].args) = err
    BY <1>1, SingleArg DEF Interface!Verdict, Interface!Stored
  <1>3. Err(err).err = err /\ Err(err).m = NoRec
    BY DEF Err, Result
  <1> QED BY <1>1, <1>2, <1>3, ReadView, LeaveView, PerformsNothing

LEMMA DeleteReadRefines ==
  ASSUME IInv, NEW c \in Clients, DeleteRead(c), db.primary[M(c).id] = NoRec
  PROVE  Interface!Perform(c)
  <1>1. /\ op[c].pc = "read" /\ op[c].kind = "delete" /\ Leave(c, Err("ok"))
        /\ UNCHANGED <<db, allowed>>
    BY DEF DeleteRead, Calling
  <1>2. Interface!Verdict("delete", op[c].args) = "ok"
    BY DEF Interface!Verdict
  <1>3. db.primary = [i \in Ids |-> db.primary[i]]
    BY DEF IInv, TypeOK, Database
  <1>4. Interface!After("delete", op[c].args) = db.primary
    BY <1>1, <1>3, SingleArg DEF Interface!After
  <1>5. Err("ok").err = "ok" /\ Err("ok").m = NoRec
    BY DEF Err, Result
  <1> QED BY <1>1, <1>2, <1>4, <1>5, ReadView, LeaveView, PerformsNothing

LEMMA ProbeReadRefines ==
  ASSUME IInv, EInv, NEW c \in Clients, ProbeRead(c)
  PROVE  Interface!Perform(c)
  <1>1. /\ op[c].pc = "probe" /\ op[c].kind = "health" /\ Leave(c, Err("ok"))
        /\ UNCHANGED <<db, allowed>>
    BY DEF ProbeRead, EInv, Underway
  <1>2. AbstractCall(c) = Interface!Pending("health", Passed(c))
    BY <1>1, Views DEF ViewOf, Undecided
  <1>3. /\ Interface!Verdict("health", Passed(c)) = "ok"
        /\ Interface!After("health", Passed(c)) = db.primary
    BY DEF Interface!Verdict, Interface!After
  <1>4. Err("ok").err = "ok" /\ Err("ok").m = NoRec
    BY DEF Err, Result
  <1> QED BY <1>1, <1>2, <1>3, <1>4, LeaveView, PerformsNothing

LEMMA AccessFailsRefines ==
  ASSUME IInv, EInv, NEW c \in Clients, AccessFails(c)
  PROVE  Interface!Reject(c) \/ Interface!Doubt(c)
  <1>1. /\ Leave(c, Err("io")) /\ UNCHANGED <<db, allowed>>
        /\ op[c].pc \in {"read", "fetch", "commit", "syncing", "probe"}
    BY DEF AccessFails
  <1>2. /\ AbstractCall(c)' = Interface!Done(op[c].kind, "io", NoRec, {})
        /\ \A d \in Clients \ {c} : op'[d] = op[d]
    <2>1. Err("io").err = "io" /\ Err("io").m = NoRec
      BY DEF Err, Result
    <2> QED BY <1>1, <2>1, LeaveView
  <1>3. CASE Undecided(c)
    <2>1. AbstractCall(c) = Interface!Pending(op[c].kind, Passed(c))
      BY <1>3, Views DEF ViewOf
    <2> QED BY <1>1, <1>2, <2>1, RejectRefines
  <1>4. CASE ~Undecided(c)
    <2>1. op[c].pc = "syncing" /\ op[c].kind # "health"
      BY <1>1, <1>4 DEF Undecided
    <2>2. AbstractCall(c) = Interface!Done(op[c].kind, "ok", op[c].res.m, Wrote(c))
      BY <2>1, Views DEF ViewOf
    <2> QED BY <1>1, <1>2, <2>2, DoubtRefines
  <1> QED BY <1>3, <1>4

LEMMA EntersRefines ==
  ASSUME IInv, NEW c \in Clients, NEW kind \in Kinds, NEW args \in Requests(kind),
         CallRefused(c, kind, args) \/ CallEmpty(c, kind, args) \/ Call(c, kind, args)
  PROVE  Interface!Reject(c) \/ Interface!Nothing(c) \/ Interface!Invoke(c)
  <1>1. ASSUME NEW a, NEW err, Enter(c, kind, a, "return", err)
        PROVE  /\ AbstractCall(c) = Interface!NoCall
               /\ AbstractCall(c)' = Interface!Done(kind, err, NoRec, {})
    <2>1. /\ op[c].pc = "idle" /\ op'[c].pc = "return" /\ op'[c].kind = kind
          /\ op'[c].res = Err(err) /\ op'[c].batch = EmptyBatch
      BY <1>1, EnteredFacts
    <2>2. Err(err).err = err /\ Err(err).m = NoRec /\ Wrote(c)' = {}
      BY <2>1, EmptyWrote DEF Err, Result
    <2> QED BY <2>1, <2>2, Views, ViewsNext DEF ViewOf
  <1>2. ASSUME NEW err, err \in Refusals(kind, args), Enter(c, kind, << >>, "return", err)
        PROVE  Interface!Reject(c)
    <2>1. err \in {"closed", "canceled", "invalid"}
      BY <1>2 DEF Refusals
    <2> QED BY <1>1, <1>2, <2>1, EnteredFacts, RejectRefines
  <1>3. CASE CallEmpty(c, kind, args)
    <2>1. args = << >> /\ Enter(c, kind, args, "return", "ok")
      BY <1>3 DEF CallEmpty
    <2> QED BY <1>1, <2>1, EnteredFacts, NothingRefines
  <1>4. CASE Call(c, kind, args)
    <2>1. Enter(c, kind, args, Entry(kind), "none")
      BY <1>4 DEF Call
    <2>2. /\ op[c].pc = "idle" /\ op'[c].pc = Entry(kind) /\ op'[c].kind = kind
          /\ op'[c].args = args /\ op'[c].batch = EmptyBatch
          /\ UNCHANGED <<db, allowed>>
          /\ \A d \in Clients \ {c} : op'[d] = op[d]
      BY <2>1, EnteredFacts
    <2>3. Undecided(c)' /\ Passed(c)' = args
      BY <2>2 DEF Undecided, Passed, Entry
    <2>4. AbstractCall(c) = Interface!NoCall /\ AbstractCall(c)' = Interface!Pending(kind, args)
      BY <2>2, <2>3, Views, ViewsNext DEF ViewOf
    <2> QED BY <2>2, <2>4, InvokeRefines
  <1> QED BY <1>2, <1>3, <1>4 DEF CallRefused

\* A step of c that the interface does not see.
LEMMA Unseen ==
  ASSUME NEW c \in Clients, \A d \in Clients \ {c} : op'[d] = op[d],
         UNCHANGED <<db.primary, allowed>>, AbstractCall(c)' = AbstractCall(c)
  PROVE  UNCHANGED Interface!vars
  <1>1. View' = View
    BY SameCall DEF View
  <1> QED BY <1>1 DEF Interface!vars, View

\* A read or loop iteration that goes on with the call.
LEMMA GoesOnUnseen ==
  ASSUME IInv, NEW c \in Clients,
         CreateRead(c) \/ DeleteRead(c) \/ DeleteManyRead(c) \/ CreateManyBuild(c),
         \A r : ~Leave(c, r)
  PROVE  UNCHANGED Interface!vars
  <1>1. /\ op[c].pc \in {"read", "build"} /\ op[c].kind # "update"
        /\ op'[c].pc \in {"read", "build", "commit"}
        /\ op'[c].kind = op[c].kind /\ op'[c].args = op[c].args
        /\ UNCHANGED <<db, allowed>> /\ \A d \in Clients \ {c} : op'[d] = op[d]
    <2>1. op \in [Clients -> Op]
      BY DEF IInv, TypeOK
    <2>2. CASE CreateRead(c)
      BY <2>1, <2>2 DEF CreateRead, Calling, Op
    <2>3. CASE DeleteRead(c)
      BY <2>1, <2>3 DEF DeleteRead, Calling, Op
    <2>4. CASE DeleteManyRead(c)
      BY <2>1, <2>4 DEF DeleteManyRead, Calling, Op
    <2>5. CASE CreateManyBuild(c)
      BY <2>1, <2>5 DEF CreateManyBuild, Calling, Op
    <2> QED BY <2>2, <2>3, <2>4, <2>5
  <1>2. /\ Undecided(c)' /\ Passed(c)' = op[c].args
    BY <1>1 DEF Undecided, Passed
  <1>3. AbstractCall(c)' = AbstractCall(c)
    BY <1>1, <1>2, ReadView, ViewsNext DEF ViewOf
  <1> QED BY <1>1, <1>3, Unseen

LEMMA UpdateGoesOnUnseen ==
  ASSUME IInv, NEW c \in Clients, UpdateRead(c), \A r : ~Leave(c, r)
  PROVE  UNCHANGED Interface!vars
  <1> DEFINE old == db.primary[M(c).id]
             new == [M(c) EXCEPT !.ver = @ + 1]
  <1>1. op[c].pc = "read" /\ op[c].kind = "update" /\ TInv /\ op \in [Clients -> Op]
        /\ UNCHANGED <<db, allowed>>
    BY DEF UpdateRead, Calling, IInv, TInv, TypeOK
  <1>2. op' = [op EXCEPT ![c].pc = "commit", ![c].args = <<new>>, ![c].batch = ReplaceRecord(old, new)]
        /\ old # NoRec
    BY DEF UpdateRead
  <1>3. /\ op'[c].kind = "update" /\ op'[c].args = <<new>> /\ op'[c].pc = "commit"
        /\ op'[c].next = op[c].next /\ op'[c].batch = ReplaceRecord(old, new)
        /\ \A d \in Clients \ {c} : op'[d] = op[d]
    BY <1>1, <1>2 DEF Op
  <1>4. op[c].next = 1 /\ M(c) \in Arg /\ op[c].args = << M(c) >> /\ M(c).id \in Ids
    BY <1>1, SingleFacts, SingleArg
  <1>5. new.id = M(c).id /\ [new EXCEPT !.ver = @ - 1] = M(c)
    <2> DEFINE R == [id : Ids \cup {NoId}, loc : Locs \cup {NoLoc}, ver : Int]
               back == [new EXCEPT !.ver = @ - 1]
    <2>1. M(c) \in R
      BY <1>4 DEF Arg, Vers
    <2>2. new \in R /\ new.id = M(c).id /\ new.loc = M(c).loc /\ new.ver = M(c).ver + 1
      BY <2>1
    <2> HIDE DEF new
    <2>3. back \in R /\ back.id = M(c).id /\ back.loc = M(c).loc /\ back.ver = M(c).ver
      BY <2>1, <2>2
    <2> HIDE DEF back
    <2>4. back = M(c)
      BY <2>1, <2>3
    <2> QED BY <2>2, <2>4 DEF back
  <1> HIDE DEF new
  <1>6. op'[c].batch # EmptyBatch
    <2>1. op'[c].batch.primary[M(c).id] = new
      BY <1>3, <1>4, <1>5, ReplacedPrimary
    <2>2. new # Keep
      <3>1. M(c).ver < MaxVer /\ M(c).loc \in Locs
        BY <1>1, <1>4, SingleFacts DEF TInv, Stage
      <3>2. new \in Meta
        BY <1>4, <3>1, ConstantsAssumption DEF new, Meta, Arg, Vers
      <3> QED BY <3>2, ConstantFacts
    <2> QED BY <1>4, <2>1, <2>2, EmptyBatchFacts
  <1>7. M(c)' = new
    BY <1>3, <1>4 DEF M
  <1>8. Undecided(c)' /\ Passed(c)' = op[c].args
    BY <1>3, <1>4, <1>5, <1>6, <1>7 DEF Undecided, Passed
  <1>9. AbstractCall(c)' = AbstractCall(c)
    BY <1>1, <1>3, <1>8, ReadView, ViewsNext DEF ViewOf
  <1> QED BY <1>1, <1>3, <1>9, Unseen

LEMMA PanicUnseen ==
  ASSUME IInv, NEW c \in Clients, Panic(c)
  PROVE  UNCHANGED Interface!vars
  <1>1. /\ op[c].pc \in {"read", "fetch", "commit", "probe"} /\ op'[c].pc = "panic"
        /\ op'[c].kind = op[c].kind /\ op'[c].args = op[c].args /\ op'[c].batch = op[c].batch
        /\ op'[c].next = op[c].next
        /\ UNCHANGED <<db, allowed>> /\ \A d \in Clients \ {c} : op'[d] = op[d]
    <2>1. op \in [Clients -> Op]
      BY DEF IInv, TypeOK
    <2> QED BY <2>1 DEF Panic, Op
  <1>2. Undecided(c) /\ Undecided(c)' /\ Passed(c)' = Passed(c)
    BY <1>1 DEF Undecided, Passed, M
  <1>3. AbstractCall(c)' = AbstractCall(c)
    BY <1>1, <1>2, Views, ViewsNext DEF ViewOf
  <1> QED BY <1>1, <1>3, Unseen

LEMMA DurableUnseen ==
  ASSUME IInv, EInv, Durable, UNCHANGED <<db, allowed>>
  PROVE  UNCHANGED Interface!vars
  <1>1. ASSUME NEW d \in Clients PROVE AbstractCall(d)' = AbstractCall(d)
    <2>1. CASE op[d].pc # "syncing"
      <3>1. op'[d] = op[d]
        BY <2>1 DEF Durable
      <3> QED BY <3>1, SameCall
    <2>2. CASE op[d].pc = "syncing" /\ op[d].kind = "health"
      <3>1. Undecided(d) /\ Undecided(d)' /\ Passed(d)' = Passed(d) /\ op'[d].kind = op[d].kind
        BY <2>2, DurableFacts DEF Undecided, Passed, M
      <3> QED BY <3>1, Views, ViewsNext DEF ViewOf
    <2>3. CASE op[d].pc = "syncing" /\ op[d].kind # "health"
      <3>1. /\ op'[d].pc = "return" /\ op'[d].kind = op[d].kind /\ op'[d].res = Err("ok")
            /\ Wrote(d)' = Wrote(d)
        BY <2>3, DurableFacts DEF Wrote
      <3>2. op[d].res = Err("none")
        BY <2>3 DEF EInv, Underway
      <3>3. Err("ok").err = "ok" /\ Err("ok").m = Err("none").m
        BY DEF Err, Result
      <3> QED BY <2>3, <3>1, <3>2, <3>3, Views, ViewsNext DEF ViewOf
    <2> QED BY <2>1, <2>2, <2>3
  <1>2. View' = View
    BY <1>1 DEF View
  <1> QED BY <1>2 DEF Interface!vars, View

LEMMA ReturnRefines ==
  ASSUME IInv, AInv, NEW c \in Clients, Return(c)
  PROVE  Interface!Respond(c)
  <1> DEFINE wrote == IF op[c].res.err = "ok" THEN Wrote(c) ELSE {}
  <1>1. /\ op[c].pc = "return" /\ op'[c] = Idle /\ UNCHANGED <<db, disk>>
        /\ \A d \in Clients \ {c} : op'[d] = op[d]
    BY DEF Return, IInv, TypeOK
  <1>2. AbstractCall(c) = Interface!Done(op[c].kind, op[c].res.err, op[c].res.m, wrote)
    BY <1>1, Views DEF ViewOf
  <1>3. AbstractCall(c)' = Interface!NoCall
    BY <1>1, IdleFields, ViewsNext DEF ViewOf
  <1>4. allowed' = [i \in Ids |-> IF i \in wrote THEN {db.primary[i]} ELSE allowed[i]]
    <2>1. \A i \in Wrote(c) : op[c].batch.primary[i] = db.primary[i]
      BY <1>1 DEF AInv, Landed, Touches, Wrote
    <2>2. \A i \in Ids : i \in wrote <=> op[c].res.err = "ok" /\ op[c].batch.primary[i] # Keep
      BY DEF Wrote
    <2> HIDE DEF wrote
    <2>3. \A i \in Ids : i \in wrote => op[c].batch.primary[i] = db.primary[i]
      BY <2>1, <2>2 DEF Wrote
    <2> QED BY <2>2, <2>3 DEF Return
  <1> HIDE DEF wrote
  <1> QED BY <1>1, <1>2, <1>3, <1>4, RespondRefines

LEMMA RestartRefines ==
  ASSUME IInv, AInv, Restart
  PROVE  Interface!Crash
  <1>1. View' = [c \in Clients |-> Interface!NoCall]
    <2>1. \A c \in Clients : op'[c] = Idle
      BY DEF Restart
    <2>2. \A c \in Clients : AbstractCall(c)' = Interface!NoCall
      BY <2>1, IdleFields, ViewsNext DEF ViewOf
    <2> QED BY <2>2 DEF View
  <1>2. db'.primary = disk.primary /\ allowed' = [i \in Ids |-> {db'.primary[i]}]
    BY DEF Restart
  <1>3. disk.primary \in [Ids -> Interface!Meta \cup {NoRec}]
    BY DEF IInv, TypeOK, Database, Interface!Meta, Meta, Vers
  <1>4. \A i \in Ids : disk.primary[i] \in allowed[i]
    BY DEF AInv, AckedStored
  <1> QED BY <1>1, <1>2, <1>3, <1>4 DEF Interface!Crash, View

\* What a commit does to the records, by what the call has collected.
LEMMA CommitRecords ==
  ASSUME IInv, EInv, NEW c \in Clients, Commit(c), Writes(op[c].kind)
  PROVE  /\ op[c].args \in Seq(Arg)
         /\ \A k \in DOMAIN op[c].args : op[c].args[k].id \in Ids
         /\ db.primary = [i \in Ids |-> db.primary[i]] /\ db'.primary = [i \in Ids |-> db'.primary[i]]
         /\ \A i \in Ids \ ArgIds(op[c].args) : ~Touches(c, i) /\ db'.primary[i] = db.primary[i]
         /\ Places(op[c].kind) =>
              \A k \in DOMAIN op[c].args : /\ Touches(c, op[c].args[k].id)
                                           /\ db'.primary[op[c].args[k].id] = op[c].args[k]
         /\ ~Places(op[c].kind) =>
              \A k \in DOMAIN op[c].args :
                 /\ Touches(c, op[c].args[k].id) <=> db.primary[op[c].args[k].id] # NoRec
                 /\ db'.primary[op[c].args[k].id] = NoRec
  <1>1. op[c].pc = "commit" /\ Effect(c) /\ Through(c) = DOMAIN op[c].args
    BY CommitFacts DEF EInv, Active, Through
  <1>2. op[c].args \in Seq(Arg) /\ \A k \in DOMAIN op[c].args : op[c].args[k] \in Arg
    BY DEF IInv, TypeOK, Op
  <1>3. /\ db.primary = [i \in Ids |-> db.primary[i]]
        /\ db'.primary = [i \in Ids |-> db'.primary[i]]
    BY DEF IInv, TypeOK, Database, Commit, Apply
  <1>4. ASSUME NEW i \in Ids \ ArgIds(op[c].args)
        PROVE  ~Touches(c, i) /\ db'.primary[i] = db.primary[i]
    <2>1. ~Touches(c, i)
      BY <1>1 DEF Effect, ArgIds
    <2> QED BY <2>1, CommitFacts
  <1>5. ASSUME NEW k \in DOMAIN op[c].args
        PROVE  /\ Places(op[c].kind) =>
                    /\ Touches(c, op[c].args[k].id)
                    /\ db'.primary[op[c].args[k].id] = op[c].args[k]
               /\ ~Places(op[c].kind) =>
                    /\ Touches(c, op[c].args[k].id) <=> db.primary[op[c].args[k].id] # NoRec
                    /\ db'.primary[op[c].args[k].id] = NoRec
    <2> DEFINE i == op[c].args[k].id
    <2>1. i \in Ids
      BY <1>1 DEF Effect
    <2>2. op[c].batch.primary[i] = IF Places(op[c].kind) THEN op[c].args[k]
                                   ELSE IF db.primary[i] = NoRec THEN Keep ELSE NoRec
      BY <1>1 DEF Effect
    <2>3. db'.primary[i] = IF Touches(c, i) THEN op[c].batch.primary[i] ELSE db.primary[i]
      BY <2>1, CommitFacts
    <2>4. op[c].args[k] # Keep /\ NoRec # Keep
      BY <1>2, ConstantsAssumption
    <2> HIDE DEF i
    <2>5. /\ Places(op[c].kind) => Touches(c, i) /\ db'.primary[i] = op[c].args[k]
          /\ ~Places(op[c].kind) => (Touches(c, i) <=> db.primary[i] # NoRec) /\ db'.primary[i] = NoRec
      BY <2>2, <2>3, <2>4 DEF Touches
    <2> QED BY <2>5 DEF i
  <1>6. \A k \in DOMAIN op[c].args : op[c].args[k].id \in Ids
    BY <1>1 DEF Effect
  <1> QED BY <1>2, <1>3, <1>4, <1>5, <1>6

\* The effect of a commit is that of the interface's operation, on the records
\* as they are at that moment.
LEMMA CommitDoes ==
  ASSUME IInv, EInv, NEW c \in Clients, Commit(c), Writes(op[c].kind)
  PROVE  /\ Interface!Verdict(op[c].kind, Passed(c)) = "ok"
         /\ db'.primary = Interface!After(op[c].kind, Passed(c))
         /\ Wrote(c) = {i \in Ids : db'.primary[i] # db.primary[i]}
  <1> DEFINE args == op[c].args
  <1>1. op[c].pc = "commit" /\ Effect(c)
    BY CommitFacts DEF EInv, Active
  <1>2. Interface!ArgIds(args) = ArgIds(args)
    BY DEF Interface!ArgIds, ArgIds
  <1>6. \A k \in DOMAIN args : args[k] \in Arg /\ args[k] # NoRec
    <2>1. args \in Seq(Arg)
      BY CommitRecords
    <2> QED BY <2>1, ConstantsAssumption
  <1>7. \A i \in Ids \ ArgIds(args) : ~Touches(c, i) /\ db'.primary[i] = db.primary[i]
    BY CommitRecords
  <1>8. Places(op[c].kind) => \A k \in DOMAIN args : Touches(c, args[k].id) /\ db'.primary[args[k].id] = args[k]
    BY CommitRecords
  <1>9. ~Places(op[c].kind) => \A k \in DOMAIN args :
            (Touches(c, args[k].id) <=> db.primary[args[k].id] # NoRec) /\ db'.primary[args[k].id] = NoRec
    BY CommitRecords
  <1>3. CASE op[c].kind \in {"create", "createMany"}
    <2>1. Passed(c) = args /\ Places(op[c].kind)
      BY <1>3 DEF Passed, Places
    <2>2. \A k \in DOMAIN args : db.primary[args[k].id] = NoRec
      BY <1>1, <1>3 DEF Effect
    <2>3. Interface!Verdict(op[c].kind, args) = "ok"
      <3>1. ArgIds(args) \cap Interface!Stored = {}
        BY <2>2 DEF ArgIds, Interface!Stored
      <3> QED BY <1>2, <1>3, <3>1 DEF Interface!Verdict
    <2>4. \A i \in Ids : db'.primary[i] = IF i \in ArgIds(args)
                                          THEN args[CHOOSE k \in DOMAIN args : args[k].id = i]
                                          ELSE db.primary[i]
      <3> SUFFICES ASSUME NEW i \in Ids, i \in ArgIds(args)
                   PROVE  db'.primary[i] = args[CHOOSE k \in DOMAIN args : args[k].id = i]
        BY <1>7
      <3>1. \E k \in DOMAIN args : args[k].id = i
        BY DEF ArgIds
      <3> DEFINE k == CHOOSE j \in DOMAIN args : args[j].id = i
      <3>2. k \in DOMAIN args /\ args[k].id = i
        BY <3>1
      <3> HIDE DEF k
      <3>3. db'.primary[i] = args[k]
        BY <1>8, <2>1, <3>2
      <3> QED BY <3>3 DEF k
    <2>5. Interface!After(op[c].kind, args) =
             [i \in Ids |-> IF i \in ArgIds(args)
                            THEN args[CHOOSE k \in DOMAIN args : args[k].id = i]
                            ELSE db.primary[i]]
      BY <1>2, <1>3 DEF Interface!After
    <2>6. db'.primary = Interface!After(op[c].kind, args)
      <3>1. db'.primary = [i \in Ids |-> db'.primary[i]]
        BY CommitRecords
      <3> QED BY <2>4, <2>5, <3>1
    <2>7. ASSUME NEW i \in Ids PROVE Touches(c, i) <=> db'.primary[i] # db.primary[i]
      <3>1. CASE i \notin ArgIds(args)
        BY <1>7, <3>1
      <3>2. CASE i \in ArgIds(args)
        <4>1. PICK k \in DOMAIN args : args[k].id = i
          BY <3>2 DEF ArgIds
        <4> QED BY <1>6, <1>8, <2>1, <2>2, <4>1
      <3> QED BY <3>1, <3>2
    <2> QED BY <2>1, <2>3, <2>6, <2>7 DEF Wrote, Touches
  <1>4. CASE op[c].kind \in {"delete", "deleteMany"}
    <2>1. Passed(c) = args /\ ~Places(op[c].kind)
      BY <1>4 DEF Passed, Places
    <2>2. Interface!Verdict(op[c].kind, args) = "ok"
      BY <1>4 DEF Interface!Verdict
    <2>3. ASSUME NEW i \in Ids
          PROVE  /\ db'.primary[i] = IF i \in ArgIds(args) THEN NoRec ELSE db.primary[i]
                 /\ Touches(c, i) <=> db'.primary[i] # db.primary[i]
      <3>1. CASE i \notin ArgIds(args)
        BY <1>7, <3>1
      <3>2. CASE i \in ArgIds(args)
        <4>1. PICK k \in DOMAIN args : args[k].id = i
          BY <3>2 DEF ArgIds
        <4> QED BY <1>9, <2>1, <3>2, <4>1
      <3> QED BY <3>1, <3>2
    <2>4. Interface!After(op[c].kind, args) =
             [i \in Ids |-> IF i \in ArgIds(args) THEN NoRec ELSE db.primary[i]]
      BY <1>2, <1>4 DEF Interface!After
    <2>5. db'.primary = Interface!After(op[c].kind, args)
      <3>1. db'.primary = [i \in Ids |-> db'.primary[i]]
        BY CommitRecords
      <3> QED BY <2>3, <2>4, <3>1
    <2> QED BY <2>1, <2>2, <2>3, <2>5 DEF Wrote, Touches
  <1>5. CASE op[c].kind = "update"
    <2>1. /\ op[c].next = 1 /\ DOMAIN args = {1} /\ M(c) = args[1] /\ M(c) \in Meta
          /\ db.primary[M(c).id] # NoRec /\ db.primary[M(c).id].ver + 1 = M(c).ver
          /\ db.primary[M(c).id] \in Meta
      <3>1. op[c].next = 1 /\ DOMAIN args = {1} /\ args \in Seq(Meta) /\ M(c) = args[1]
        BY <1>1, <1>5 DEF Effect, M
      <3>2. M(c) \in Meta
        BY <3>1
      <3>3. db.primary[M(c).id] # NoRec /\ db.primary[M(c).id].ver + 1 = M(c).ver
        BY <1>1, <1>5 DEF Effect
      <3>4. db.primary[M(c).id] \in Meta
        BY <3>2, <3>3 DEF IInv, TypeOK, Database, Meta
      <3> QED BY <3>1, <3>2, <3>3, <3>4
    <2>2. Touches(c, M(c).id) /\ db'.primary[M(c).id] = M(c)
      BY <1>5, <1>8, <2>1 DEF Places
    <2>3. \A i \in Ids : i # M(c).id => ~Touches(c, i) /\ db'.primary[i] = db.primary[i]
      BY <1>7, <2>1 DEF ArgIds
    <2> DEFINE was == [M(c) EXCEPT !.ver = @ - 1]
    <2>4. Passed(c) = << was >>
      BY <1>5, <2>1, <2>2, EmptyBatchFacts DEF Passed, Touches, Meta
    <2>5. was.id = M(c).id /\ was.ver = db.primary[M(c).id].ver /\ [was EXCEPT !.ver = @ + 1] = M(c)
      <3> DEFINE R == [id : Ids, loc : Locs, ver : Int]
                 next == [was EXCEPT !.ver = @ + 1]
      <3>1. M(c) \in R /\ db.primary[M(c).id].ver \in Int
        BY <2>1 DEF Meta, Vers
      <3>2. was \in R /\ was.id = M(c).id /\ was.loc = M(c).loc /\ was.ver = M(c).ver - 1
        BY <3>1
      <3> HIDE DEF was
      <3>3. next \in R /\ next.id = M(c).id /\ next.loc = M(c).loc /\ next.ver = M(c).ver
        BY <3>1, <3>2
      <3> HIDE DEF next
      <3>4. next = M(c)
        BY <3>1, <3>3
      <3>5. was.ver = db.primary[M(c).id].ver
        BY <2>1, <3>1, <3>2
      <3> QED BY <3>2, <3>4, <3>5 DEF next
    <2> HIDE DEF was
    <2>6. M(c).id \in Ids /\ M(c).id \in Interface!Stored
      BY <2>1 DEF Meta, Interface!Stored
    <2>7. Interface!Verdict("update", << was >>) = "ok"
      BY <2>5, <2>6 DEF Interface!Verdict
    <2>8. Interface!After("update", << was >>) = [db.primary EXCEPT ![M(c).id] = M(c)]
      BY <2>5 DEF Interface!After
    <2>9. db'.primary = [db.primary EXCEPT ![M(c).id] = M(c)]
      <3>1. db.primary = [i \in Ids |-> db.primary[i]] /\ db'.primary = [i \in Ids |-> db'.primary[i]]
        BY CommitRecords
      <3> QED BY <2>2, <2>3, <3>1
    <2>10. db'.primary[M(c).id] # db.primary[M(c).id]
      BY <2>1, <2>2 DEF Meta, Vers
    <2> QED BY <1>5, <2>2, <2>3, <2>4, <2>7, <2>8, <2>9, <2>10 DEF Wrote, Touches
  <1> QED BY <1>3, <1>4, <1>5 DEF Writes

LEMMA CommitRefines ==
  ASSUME WALSync, IInv, EInv, NEW c \in Clients, Commit(c)
  PROVE  Interface!Perform(c) \/ UNCHANGED Interface!vars
  <1>1. /\ op'[c].pc = "syncing" /\ op[c].pc = "commit" /\ op'[c].kind = op[c].kind
        /\ op'[c].args = op[c].args /\ op'[c].batch = op[c].batch /\ op'[c].next = op[c].next
        /\ op'[c].res = op[c].res /\ op[c].res.m = NoRec
        /\ \A d \in Clients \ {c} : op'[d] = op[d]
    BY CommitFacts DEF EInv, Underway, Err, Result
  <1>2. Undecided(c) /\ AbstractCall(c) = Interface!Pending(op[c].kind, Passed(c))
    BY <1>1, Views DEF Undecided, ViewOf
  <1>3. allowed' = [i \in Ids |-> IF i \in Wrote(c) THEN allowed[i] \cup {op[c].batch.primary[i]}
                                  ELSE allowed[i]]
    BY DEF Commit, Wrote
  <1>4. CASE ~Writes(op[c].kind)
    <2>1. op[c].batch = EmptyBatch /\ op[c].kind = "health"
      BY <1>1, <1>4 DEF IInv, Stage, EInv, Underway
    <2>2. db' = db
      BY <2>1, ApplyEmpty DEF Commit, IInv, TypeOK
    <2>3. allowed' = allowed
      BY <1>3, <2>1, EmptyWrote DEF IInv, TypeOK
    <2>4. Undecided(c)' /\ Passed(c)' = Passed(c)
      BY <1>1, <2>1 DEF Undecided, Passed
    <2>5. AbstractCall(c)' = AbstractCall(c)
      BY <1>1, <1>2, <2>4, ViewsNext DEF ViewOf
    <2> QED BY <1>1, <2>2, <2>3, <2>5, Unseen
  <1>5. CASE Writes(op[c].kind)
    <2>1. op[c].kind \notin {"health", "get", "exists"}
      BY <1>5 DEF Writes
    <2>2. AbstractCall(c)' = Interface!Done(op[c].kind, "ok", NoRec, Wrote(c))
      <3>1. Wrote(c)' = Wrote(c)
        BY <1>1 DEF Wrote
      <3> QED BY <1>1, <2>1, <3>1, ViewsNext DEF ViewOf
    <2>3. \A i \in Wrote(c) : db'.primary[i] = op[c].batch.primary[i]
      BY CommitFacts DEF Wrote, Touches
    <2>4. allowed' = [i \in Ids |-> IF i \in Wrote(c) THEN allowed[i] \cup {db'.primary[i]} ELSE allowed[i]]
      BY <1>3, <2>3
    <2>5. /\ Interface!Verdict(op[c].kind, Passed(c)) = "ok"
          /\ db'.primary = Interface!After(op[c].kind, Passed(c))
          /\ Wrote(c) = {i \in Ids : db'.primary[i] # db.primary[i]}
      BY <1>5, CommitDoes
    <2> DEFINE kind == op[c].kind
               args == Passed(c)
               err == "ok"
               m == NoRec
               wrote == Wrote(c)
    <2>6. /\ AbstractCall(c) = Interface!Pending(kind, args)
          /\ AbstractCall(c)' = Interface!Done(kind, err, m, wrote)
          /\ err = Interface!Verdict(kind, args)
          /\ db'.primary = IF err = "ok" THEN Interface!After(kind, args) ELSE db.primary
          /\ wrote = {i \in Ids : db'.primary[i] # db.primary[i]}
          /\ allowed' = [i \in Ids |-> IF i \in wrote THEN allowed[i] \cup {db'.primary[i]} ELSE allowed[i]]
      BY <1>2, <2>2, <2>4, <2>5
    <2>7. m = IF kind \in {"get", "exists"} /\ err = "ok" THEN db.primary[args[1].id] ELSE NoRec
      BY <2>1
    <2>8. \A d \in Clients \ {c} : op'[d] = op[d]
      BY <1>1
    <2> HIDE DEF kind, args, err, m, wrote
    <2> QED BY <2>6, <2>7, <2>8, PerformRefines
  <1> QED BY <1>4, <1>5

LEMMA InitRefines == Init => Interface!Init
  <1> SUFFICES ASSUME Init PROVE Interface!Init
    OBVIOUS
  <1>1. db.primary = [i \in Ids |-> NoRec] /\ allowed = [i \in Ids |-> {NoRec}]
    BY DEF Init, EmptyDatabase
  <1>2. \A c \in Clients : AbstractCall(c) = Interface!NoCall
    BY IdleFields, Views DEF Init, ViewOf
  <1> QED BY <1>1, <1>2 DEF Interface!Init

LEMMA StepRefines ==
  ASSUME WALSync, "getByKey" \notin Kinds, IInv, AInv, EInv, [Next]_vars
  PROVE  Interface!Next \/ UNCHANGED Interface!vars
  <1>1. ASSUME NEW c \in Clients, NEW kind \in Kinds, NEW args \in Requests(kind),
               CallRefused(c, kind, args) \/ CallEmpty(c, kind, args) \/ Call(c, kind, args)
        PROVE  Interface!Next
    <2>1. Interface!Reject(c) \/ Interface!Nothing(c) \/ Interface!Invoke(c)
      BY <1>1, EntersRefines
    <2> QED BY <2>1 DEF Interface!Next
  <1>2. ASSUME NEW c \in Clients, Step(c)
        PROVE  Interface!Next \/ UNCHANGED Interface!vars
    <2>1. CASE Interface!Perform(c)
      BY <2>1 DEF Interface!Next
    <2>2. CASE CreateRead(c) \/ DeleteRead(c) \/ DeleteManyRead(c) \/ CreateManyBuild(c)
      <3>1. ASSUME NEW r, Leave(c, r)
            PROVE  Interface!Perform(c) \/ Interface!Reject(c)
        <4>1. op'[c].pc = "return"
          BY <3>1 DEF Leave, IInv, TypeOK, Idle
        <4>2. CASE CreateRead(c)
          <5>1. db.primary[M(c).id] # NoRec
            BY <4>1, <4>2 DEF CreateRead, IInv, TypeOK, Op
          <5> QED BY <4>2, <5>1, CreateReadRefines
        <4>3. CASE DeleteRead(c)
          <5>1. db.primary[M(c).id] = NoRec
            BY <4>1, <4>3 DEF DeleteRead, IInv, TypeOK, Op
          <5> QED BY <4>3, <5>1, DeleteReadRefines
        <4>4. CASE DeleteManyRead(c)
          BY <4>1, <4>4 DEF DeleteManyRead, IInv, TypeOK, Op
        <4>5. CASE CreateManyBuild(c)
          <5>1. Leave(c, Err("invalid")) /\ op[c].pc = "build" /\ UNCHANGED <<db, allowed>>
            BY <4>1, <4>5 DEF CreateManyBuild, Calling, IInv, TypeOK, Op
          <5>2. Err("invalid").err = "invalid" /\ Err("invalid").m = NoRec
            BY DEF Err, Result
          <5>3. /\ AbstractCall(c) = Interface!Pending(op[c].kind, op[c].args)
                /\ AbstractCall(c)' = Interface!Done(op[c].kind, "invalid", NoRec, {})
                /\ \A d \in Clients \ {c} : op'[d] = op[d]
            BY <5>1, <5>2, ReadView, LeaveView
          <5> QED BY <5>1, <5>3, RejectRefines
        <4> QED BY <2>2, <4>2, <4>3, <4>4, <4>5
      <3> QED BY <2>2, <3>1, GoesOnUnseen DEF Interface!Next
    <2>3. CASE UpdateRead(c)
      <3>1. CASE Leave(c, Err("notFound")) /\ db.primary[M(c).id] = NoRec
        BY <2>1, <2>3, <3>1, UpdateReadRefines
      <3>2. CASE /\ Leave(c, Err("conflict")) /\ db.primary[M(c).id] # NoRec
                 /\ db.primary[M(c).id].ver # M(c).ver
        BY <2>1, <2>3, <3>2, UpdateReadRefines
      <3>3. CASE /\ db.primary[M(c).id] # NoRec /\ db.primary[M(c).id].ver = M(c).ver
        <4>1. op'[c].pc = "commit"
          BY <2>3, <3>3 DEF UpdateRead, IInv, TypeOK, Op
        <4>2. ASSUME NEW r, Leave(c, r) PROVE FALSE
          BY <4>1, <4>2 DEF Leave, IInv, TypeOK, Idle
        <4> QED BY <2>3, <4>2, UpdateGoesOnUnseen
      <3> QED BY <2>3, <3>1, <3>2, <3>3 DEF UpdateRead
    <2>4. CASE GetRead(c)
      BY <2>1, <2>4, GetReadRefines
    <2>5. CASE IndexRead(c) \/ FetchRead(c)
      BY <2>5 DEF IndexRead, FetchRead, Calling, EInv, Underway
    <2>6. CASE Commit(c)
      BY <2>1, <2>6, CommitRefines
    <2>7. CASE AccessFails(c)
      BY <2>7, AccessFailsRefines DEF Interface!Next
    <2>8. CASE ProbeRead(c)
      BY <2>1, <2>8, ProbeReadRefines
    <2>9. CASE Panic(c)
      BY <2>9, PanicUnseen
    <2>10. CASE Return(c)
      BY <2>10, ReturnRefines DEF Interface!Next
    <2> QED BY <1>2, <2>2, <2>3, <2>4, <2>5, <2>6, <2>7, <2>8, <2>9, <2>10 DEF Step
  <1>3. CASE Sync \/ CloseEnd
    BY <1>3, DurableUnseen DEF Sync, CloseEnd
  <1>4. CASE CloseBegin \/ UNCHANGED vars
    <2>1. UNCHANGED <<db, allowed, op>>
      BY <1>4 DEF CloseBegin, vars
    <2>2. View' = View
      BY <2>1, SameCall DEF View
    <2> QED BY <2>1, <2>2 DEF Interface!vars, View
  <1>5. CASE Restart
    BY <1>5, RestartRefines DEF Interface!Next
  <1> QED BY <1>1, <1>2, <1>3, <1>4, <1>5 DEF Next

\* With Config.WALSync and writers that follow the discipline of Permitted, the
\* repository implements the interface: the calls of concurrent clients, other
\* than GetByKey, are linearizable, and what a caller was told survives a crash.
THEOREM RepositoryImplementsInterface ==
  ASSUME Exclusive, WALSync, "getByKey" \notin Kinds
  PROVE  Spec => ImplementsInterface
  <1>1. IInv /\ WInv /\ AInv /\ EInv /\ [Next]_vars => IInv' /\ WInv' /\ AInv' /\ EInv'
    BY NextIInv, NextWInv, NextAInv, NextEInv
  <1>2. IInv /\ AInv /\ EInv /\ [Next]_vars => [Interface!Next]_Interface!vars
    BY StepRefines
  <1>3. Init => Interface!Init
    BY InitRefines
  <1> QED BY InitIInv, InitWInv, InitAInv, InitEInv, <1>1, <1>2, <1>3, PTL
          DEF Spec, ImplementsInterface, Interface!Spec
=============================================================================
