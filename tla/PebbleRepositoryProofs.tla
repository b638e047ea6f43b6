----------------------- MODULE PebbleRepositoryProofs -----------------------
(***************************************************************************)
(* Proofs about the Pebble-backed repository, for every number of clients, *)
(* IDs and locations.  First the types, for any clients; then that the     *)
(* secondary index agrees with the primary records, if writers follow the  *)
(* discipline of Permitted.                                                *)
(***************************************************************************)
EXTENDS PebbleRepository, TLAPS

\* The part of the inductive invariant that needs no discipline of the clients.
TInv == TypeOK /\ \A c \in Clients : Stage(c)

LEMMA EmptyBatchType == EmptyBatch \in Batch
  BY DEF EmptyBatch, Batch

LEMMA ApplyType ==
  ASSUME NEW d \in Database, NEW b \in Batch
  PROVE  Apply(d, b) \in Database
  BY ConstantsAssumption DEF Apply, Database, Batch

LEMMA AddRecordType ==
  ASSUME NEW b \in Batch, NEW m \in Meta
  PROVE  AddRecord(b, m) \in Batch
  BY DEF AddRecord, Batch, Meta

LEMMA AddDeletionType ==
  ASSUME NEW b \in Batch, NEW m \in Meta
  PROVE  AddDeletion(b, m) \in Batch
  BY DEF AddDeletion, Batch, Meta

LEMMA ReplaceRecordType ==
  ASSUME NEW old \in Meta, NEW m \in Meta
  PROVE  ReplaceRecord(old, m) \in Batch
  BY EmptyBatchType DEF ReplaceRecord, EmptyBatch, Batch, Meta

LEMMA IdleType == Idle \in Op /\ Idle.pc = "idle" /\ Idle.kind = "none"
  BY EmptyBatchType DEF Idle, Op, PCs, Errors, Err, Result

\* A call that leaves with result r has a well-formed state that says nothing.
LEMMA LeaveType ==
  ASSUME TInv, NEW c \in Clients, NEW r \in [err: Errors, m: Meta \cup {NoRec}],
         Leave(c, r), UNCHANGED <<db, disk, closed, dbOpen, allowed>>
  PROVE  TInv'
  <1> DEFINE o == [Idle EXCEPT !.pc = "return", !.kind = op[c].kind, !.res = r]
  <1>1. o \in Op /\ o.pc = "return"
    BY IdleType DEF TInv, TypeOK, Op, PCs, Idle
  <1>2. op' = [op EXCEPT ![c] = o]
    BY DEF Leave
  <1>3. op' \in [Clients -> Op] /\ op'[c].pc = "return"
        /\ \A d \in Clients \ {c} : op'[d] = op[d]
    BY <1>1, <1>2 DEF TInv, TypeOK
  <1>4. TypeOK'
    BY <1>3 DEF TInv, TypeOK
  <1>5. ASSUME NEW d \in Clients PROVE Stage(d)'
    BY <1>3 DEF TInv, Stage
  <1> QED BY <1>4, <1>5 DEF TInv

\* Only the call of client c changes, to o.
LEMMA OneCallType ==
  ASSUME TInv, NEW c \in Clients, NEW o \in Op,
         op' = [op EXCEPT ![c] = o],
         o.pc \in {"read", "build"} => o.next \in DOMAIN o.args,
         UNCHANGED <<db, disk, closed, dbOpen, allowed>>
  PROVE  /\ TypeOK'
         /\ op'[c] = o
         /\ \A d \in Clients \ {c} : op'[d] = op[d] /\ Stage(d)'
  <1>1. op' \in [Clients -> Op] /\ op'[c] = o /\ \A d \in Clients \ {c} : op'[d] = op[d]
    BY DEF TInv, TypeOK
  <1>2. TypeOK'
    BY <1>1 DEF TInv, TypeOK
  <1>3. ASSUME NEW d \in Clients \ {c} PROVE Stage(d)'
    BY <1>1, <1>3 DEF TInv, Stage
  <1> QED BY <1>1, <1>2, <1>3

LEMMA ResultType ==
  /\ \A err \in Errors : Err(err) \in [err: Errors, m: Meta \cup {NoRec}]
  /\ \A err \in Errors, m \in Meta \cup {NoRec} :
        Result(err, m) \in [err: Errors, m: Meta \cup {NoRec}]
  BY DEF Err, Result

LEMMA Singleton ==
  ASSUME NEW S, NEW x \in S
  PROVE  /\ <<x>> \in Seq(S)
         /\ Len(<<x>>) = 1
         /\ DOMAIN <<x>> = {1}
         /\ <<x>>[1] = x
  OBVIOUS

\* The lists a client passes: what each operation may rely on.
LEMMA RequestType ==
  ASSUME NEW kind \in AllKinds, NEW args \in Requests(kind)
  PROVE  /\ args \in Seq(Arg)
         /\ kind \notin {"createMany", "deleteMany", "health"} => Len(args) = 1
         /\ kind # "getByKey" => \A k \in DOMAIN args : args[k].id \in Ids
         /\ kind = "getByKey" => args[1].loc \in Locs
         /\ kind = "update" => args[1].ver < MaxVer
  <1>1. \A i \in Ids : Named(i) \in Arg /\ Named(i).id = i
    BY ConstantsAssumption DEF Named, Arg, Vers
  <1>2. \A l \in Locs : Located(l) \in Arg /\ Located(l).loc = l
    BY ConstantsAssumption DEF Located, Arg, Vers
  <1>3. \A m \in NewRecords : m \in Arg /\ m.id \in Ids
    BY DEF NewRecords, Arg
  <1>4. ASSUME NEW S, NEW l \in Lists(S) PROVE l \in Seq(S) /\ \A k \in DOMAIN l : l[k] \in S
    BY <1>4 DEF Lists
  <1>5. CASE kind = "create"
    <2>1. PICK m \in NewRecords : args = <<m>>
      BY <1>5 DEF Requests
    <2> QED BY <1>5, <2>1, <1>3, Singleton
  <1>6. CASE kind = "update"
    <2>1. PICK m \in Arg : args = <<m>> /\ m.id # NoId /\ m.ver < MaxVer
      BY <1>6 DEF Requests
    <2>2. m.id \in Ids
      BY <2>1 DEF Arg
    <2> QED BY <1>6, <2>1, <2>2, Singleton
  <1>7. CASE kind = "createMany"
    <2>1. args \in Lists(NewRecords)
      BY <1>7 DEF Requests
    <2> QED BY <1>7, <2>1, <1>3, <1>4
  <1>8. CASE kind = "deleteMany"
    <2>1. args \in Lists({Named(i) : i \in Ids})
      BY <1>8 DEF Requests
    <2>2. \A m \in {Named(i) : i \in Ids} : m \in Arg /\ m.id \in Ids
      BY <1>1
    <2> QED BY <1>8, <2>1, <2>2, <1>4
  <1>9. CASE kind = "getByKey"
    <2>1. PICK l \in Locs : args = <<Located(l)>>
      BY <1>9 DEF Requests
    <2> QED BY <1>9, <2>1, <1>2, Singleton
  <1>10. CASE kind = "health"
    <2>1. args = << >>
      BY <1>10 DEF Requests
    <2> QED BY <1>10, <2>1
  <1>11. CASE kind \in {"get", "exists", "delete"}
    <2>1. PICK i \in Ids : args = <<Named(i)>>
      BY <1>11 DEF Requests
    <2> QED BY <1>11, <2>1, <1>1, Singleton
  <1> QED BY <1>5, <1>6, <1>7, <1>8, <1>9, <1>10, <1>11 DEF AllKinds

LEMMA EnterType ==
  ASSUME TInv, NEW c \in Clients, NEW kind \in Kinds, NEW args \in Seq(Arg),
         NEW pc \in PCs, NEW err \in Errors,
         Enter(c, kind, args, pc, err)
  PROVE  /\ op'[c].pc = pc /\ op'[c].kind = kind /\ op'[c].args = args
         /\ op'[c].next = 1 /\ op'[c].batch = EmptyBatch
         /\ \A d \in Clients \ {c} : op'[d] = op[d] /\ Stage(d)'
         /\ (pc \in {"read", "build"} => Len(args) > 0) => TypeOK'
  <1> DEFINE o == [Idle EXCEPT !.kind = kind, !.args = args, !.pc = pc, !.res = Err(err)]
  <1>1. /\ o \in Op /\ o.pc = pc /\ o.kind = kind /\ o.args = args
        /\ o.next = 1 /\ o.batch = EmptyBatch
    BY IdleType, ResultType, ConstantsAssumption DEF Op, Idle
  <1>2. op' = [op EXCEPT ![c] = o] /\ UNCHANGED <<db, disk, closed, dbOpen, allowed>>
    BY DEF Enter
  <1>3. op' \in [Clients -> Op] /\ op'[c] = o /\ \A d \in Clients \ {c} : op'[d] = op[d]
    BY <1>1, <1>2 DEF TInv, TypeOK
  <1>4. ASSUME NEW d \in Clients \ {c} PROVE Stage(d)'
    BY <1>3, <1>4 DEF TInv, Stage
  <1>5. (pc \in {"read", "build"} => Len(args) > 0) => TypeOK'
    BY <1>1, <1>2, <1>3 DEF TInv, TypeOK
  <1> QED BY <1>1, <1>3, <1>4, <1>5

LEMMA CallType ==
  ASSUME TInv, NEW c \in Clients, NEW kind \in Kinds, NEW args \in Requests(kind),
         \/ CallRefused(c, kind, args)
         \/ CallEmpty(c, kind, args)
         \/ Call(c, kind, args)
  PROVE  TInv'
  <1>1. kind \in AllKinds /\ args \in Seq(Arg)
    BY ConstantsAssumption, RequestType
  <1>2. /\ "return" \in PCs /\ "return" \notin {"read", "build"}
        /\ "ok" \in Errors /\ "none" \in Errors
    BY DEF PCs, Errors
  <1>3. CASE CallRefused(c, kind, args)
    <2>1. PICK err \in Refusals(kind, args) : Enter(c, kind, << >>, "return", err)
      BY <1>3 DEF CallRefused
    <2>2. err \in Errors
      BY DEF Refusals, Errors
    <2>a. << >> \in Seq(Arg)
      OBVIOUS
    <2>b. PICK none \in Seq(Arg) : Enter(c, kind, none, "return", err)
      BY <2>1, <2>a, Zenon
    <2>3. TypeOK' /\ (\A d \in Clients \ {c} : Stage(d)') /\ op'[c].pc = "return"
      BY <2>b, <2>2, <1>2, EnterType
    <2>4. Stage(c)'
      BY <2>3 DEF Stage
    <2> QED BY <2>3, <2>4 DEF TInv
  <1>4. CASE CallEmpty(c, kind, args)
    <2>1. TypeOK' /\ (\A d \in Clients \ {c} : Stage(d)') /\ op'[c].pc = "return"
      <3>1. Enter(c, kind, args, "return", "ok")
        BY <1>4 DEF CallEmpty
      <3> QED BY <3>1, <1>1, <1>2, EnterType
    <2>2. Stage(c)'
      BY <2>1 DEF Stage
    <2> QED BY <2>1, <2>2 DEF TInv
  <1>5. CASE Call(c, kind, args)
    <2>1. Enter(c, kind, args, Entry(kind), "none") /\ Refusals(kind, args) = {"canceled"}
          /\ (kind \in {"createMany", "deleteMany"} => args # << >>)
      BY <1>5 DEF Call
    <2>2. Entry(kind) \in {"read", "build", "commit"}
          /\ (Entry(kind) = "commit" <=> kind = "health")
          /\ (Entry(kind) = "build" <=> kind = "createMany")
      BY DEF Entry
    <2>3. kind # "health" => Len(args) > 0
      BY <1>1, <2>1, RequestType
    <2>4. Entry(kind) \in PCs /\ (Entry(kind) \in {"read", "build"} => Len(args) > 0)
      BY <2>2, <2>3 DEF PCs
    <2>5. /\ TypeOK' /\ (\A d \in Clients \ {c} : Stage(d)')
          /\ op'[c].pc = Entry(kind) /\ op'[c].kind = kind /\ op'[c].args = args
          /\ op'[c].next = 1 /\ op'[c].batch = EmptyBatch
      BY <1>1, <1>2, <2>1, <2>4, EnterType
    <2>6. kind \in {"create", "update"} => args[1].loc \in Locs
      <3>1. SUFFICES ASSUME kind \in {"create", "update"} PROVE args[1].loc \in Locs
        OBVIOUS
      <3>2. Len(args) = 1
        BY <3>1, <1>1, RequestType
      <3>3. 1 \in DOMAIN args /\ args[1] \in Arg
        BY <3>2, <1>1
      <3>4. Valid(args[1])
        BY <2>1, <3>1, <3>3 DEF Refusals
      <3> QED BY <3>3, <3>4 DEF Valid, Arg
    <2>7. EmptyBatch.primary = [i \in Ids |-> Keep] /\ EmptyBatch.secondary = [l \in Locs |-> Keep]
      BY DEF EmptyBatch
    <2>8. Stage(c)'
      BY <1>1, <2>2, <2>5, <2>6, <2>7, RequestType DEF Stage, Writes, AllKinds
    <2> QED BY <2>5, <2>8 DEF TInv
  <1> QED BY <1>3, <1>4, <1>5

\* The argument a loop or a read is about to use.
LEMMA ReadingType ==
  ASSUME TInv, NEW c \in Clients, op[c].pc \in {"read", "build"}
  PROVE  /\ op[c] \in Op
         /\ op[c].next \in DOMAIN op[c].args
         /\ M(c) = op[c].args[op[c].next] /\ M(c) \in Arg
         /\ op[c].kind # "getByKey" => M(c).id \in Ids
         /\ op[c].kind \in {"create", "update", "getByKey"} =>
               op[c].next = 1 /\ M(c).loc \in Locs /\ op[c].batch = EmptyBatch
  <1>1. op[c] \in Op /\ op[c].next \in DOMAIN op[c].args
    BY DEF TInv, TypeOK
  <1>2. M(c) = op[c].args[op[c].next] /\ M(c) \in Arg
    BY <1>1 DEF M, Op
  <1>3. op[c].kind # "getByKey" => M(c).id \in Ids
    BY <1>1, <1>2 DEF TInv, Stage
  <1>4. op[c].kind \in {"create", "update", "getByKey"} =>
               op[c].next = 1 /\ M(c).loc \in Locs /\ op[c].batch = EmptyBatch
    BY <1>1, <1>2 DEF TInv, Stage
  <1> QED BY <1>1, <1>2, <1>3, <1>4

LEMMA CreateReadType ==
  ASSUME TInv, NEW c \in Clients, CreateRead(c)
  PROVE  TInv'
  <1>1. /\ op[c].pc = "read" /\ op[c].kind = "create" /\ op[c] \in Op
        /\ UNCHANGED <<db, disk, closed, dbOpen, allowed>>
    BY DEF CreateRead, Calling, TInv, TypeOK
  <1>2. M(c) \in Meta
    BY <1>1, ReadingType DEF Meta, Arg
  <1>3. CASE Leave(c, Err("exists"))
    BY <1>1, <1>3, LeaveType, ResultType DEF Errors
  <1>4. CASE op' = [op EXCEPT ![c].pc = "commit",
                              ![c].batch = AddRecord(EmptyBatch, M(c))]
    <2> DEFINE o == [op[c] EXCEPT !.pc = "commit", !.batch = AddRecord(EmptyBatch, M(c))]
    <2>1. AddRecord(EmptyBatch, M(c)) \in Batch
      BY <1>2, EmptyBatchType, AddRecordType
    <2>2. o \in Op /\ o.pc = "commit" /\ o.kind = "create"
      BY <1>1, <2>1 DEF Op, PCs
    <2>3. op' = [op EXCEPT ![c] = o]
      BY <1>4 DEF TInv, TypeOK
    <2>4. TypeOK' /\ op'[c] = o /\ \A d \in Clients \ {c} : Stage(d)'
      BY <1>1, <2>2, <2>3, OneCallType
    <2>5. Stage(c)'
      BY <2>2, <2>4 DEF Stage, Writes
    <2> QED BY <2>4, <2>5 DEF TInv
  <1> QED BY <1>3, <1>4 DEF CreateRead

LEMMA GetReadType ==
  ASSUME TInv, NEW c \in Clients, GetRead(c)
  PROVE  TInv'
  <1>1. /\ op[c].pc = "read" /\ op[c].kind \in {"get", "exists"} /\ op[c] \in Op
        /\ UNCHANGED <<db, disk, closed, dbOpen, allowed>>
    BY DEF GetRead, Calling, TInv, TypeOK
  <1>2. db.primary[M(c).id] \in Meta \cup {NoRec}
    BY <1>1 DEF TInv, TypeOK, Stage, M, Op, Database
  <1> QED BY <1>1, <1>2, LeaveType, ResultType DEF GetRead, Errors

LEMMA IndexReadType ==
  ASSUME TInv, NEW c \in Clients, IndexRead(c)
  PROVE  TInv'
  <1> DEFINE i == db.secondary[M(c).loc]
  <1>1. /\ op[c].pc = "read" /\ op[c].kind = "getByKey" /\ op[c] \in Op
        /\ UNCHANGED <<db, disk, closed, dbOpen, allowed>>
    BY DEF IndexRead, Calling, TInv, TypeOK
  <1>2. i \in Ids \cup {NoId}
    BY <1>1 DEF TInv, TypeOK, Stage, M, Op, Database
  <1>3. CASE i = NoId
    BY <1>1, <1>3, LeaveType, ResultType DEF IndexRead, Errors
  <1>4. CASE i # NoId
    <2> DEFINE o == [op[c] EXCEPT !.pc = "fetch", !.seen = i]
    <2>1. o \in Op /\ o.pc = "fetch" /\ o.seen \in Ids
      BY <1>1, <1>2, <1>4 DEF Op, PCs
    <2>2. op' = [op EXCEPT ![c] = o]
      BY <1>4 DEF IndexRead, TInv, TypeOK
    <2>3. TypeOK' /\ op'[c] = o /\ \A d \in Clients \ {c} : Stage(d)'
      BY <1>1, <2>1, <2>2, OneCallType
    <2>4. Stage(c)'
      BY <2>1, <2>3 DEF Stage
    <2> QED BY <2>3, <2>4 DEF TInv
  <1> QED BY <1>3, <1>4

LEMMA FetchReadType ==
  ASSUME TInv, NEW c \in Clients, FetchRead(c)
  PROVE  TInv'
  <1>1. /\ op[c].pc = "fetch" /\ op[c] \in Op /\ op[c].seen \in Ids
        /\ UNCHANGED <<db, disk, closed, dbOpen, allowed>>
    BY DEF FetchRead, Calling, TInv, TypeOK, Stage
  <1>2. db.primary[op[c].seen] \in Meta \cup {NoRec}
    BY <1>1 DEF TInv, TypeOK, Database
  <1> QED BY <1>1, <1>2, LeaveType, ResultType DEF FetchRead, Errors

LEMMA UpdateReadType ==
  ASSUME TInv, NEW c \in Clients, UpdateRead(c)
  PROVE  TInv'
  <1> DEFINE old == db.primary[M(c).id]
             new == [M(c) EXCEPT !.ver = @ + 1]
  <1>1. /\ op[c].pc = "read" /\ op[c].kind = "update" /\ op[c] \in Op
        /\ UNCHANGED <<db, disk, closed, dbOpen, allowed>>
    BY DEF UpdateRead, Calling, TInv, TypeOK
  <1>2. M(c) \in Arg /\ M(c).id \in Ids /\ M(c).loc \in Locs
    BY <1>1, ReadingType
  <1>3. M(c).ver \in Vers /\ M(c).ver < MaxVer
    BY <1>1, <1>2, ReadingType DEF TInv, Stage, Arg
  <1>4. new \in Meta /\ new \in Arg
    BY <1>2, <1>3, ConstantsAssumption DEF Meta, Arg, Vers
  <1>5. old \in Meta \cup {NoRec}
    BY <1>2 DEF TInv, TypeOK, Database
  <1>6. CASE \E err \in {"notFound", "conflict"} : Leave(c, Err(err))
    BY <1>1, <1>6, LeaveType, ResultType DEF Errors
  <1>7. CASE /\ old # NoRec
             /\ op' = [op EXCEPT ![c].pc = "commit", ![c].args = <<new>>,
                                 ![c].batch = ReplaceRecord(old, new)]
    <2> DEFINE o == [op[c] EXCEPT !.pc = "commit", !.args = <<new>>,
                                  !.batch = ReplaceRecord(old, new)]
    <2>1. ReplaceRecord(old, new) \in Batch
      BY <1>4, <1>5, <1>7, ReplaceRecordType
    <2>2. <<new>> \in Seq(Arg)
      BY <1>4, Singleton
    <2>3. o \in Op /\ o.pc = "commit" /\ o.kind = "update"
      BY <1>1, <2>1, <2>2 DEF Op, PCs
    <2>4. op' = [op EXCEPT ![c] = o]
      BY <1>7 DEF TInv, TypeOK
    <2>5. TypeOK' /\ op'[c] = o /\ \A d \in Clients \ {c} : Stage(d)'
      BY <1>1, <2>3, <2>4, OneCallType
    <2>6. Stage(c)'
      BY <2>3, <2>5 DEF Stage, Writes
    <2> QED BY <2>5, <2>6 DEF TInv
  <1> QED BY <1>6, <1>7 DEF UpdateRead

LEMMA DeleteReadType ==
  ASSUME TInv, NEW c \in Clients, DeleteRead(c)
  PROVE  TInv'
  <1> DEFINE old == db.primary[M(c).id]
  <1>1. /\ op[c].pc = "read" /\ op[c].kind = "delete" /\ op[c] \in Op
        /\ UNCHANGED <<db, disk, closed, dbOpen, allowed>>
    BY DEF DeleteRead, Calling, TInv, TypeOK
  <1>2. old \in Meta \cup {NoRec}
    BY <1>1, ReadingType DEF TInv, TypeOK, Database
  <1>3. CASE old = NoRec
    BY <1>1, <1>3, LeaveType, ResultType DEF DeleteRead, Errors
  <1>4. CASE old # NoRec
    <2> DEFINE o == [op[c] EXCEPT !.pc = "commit", !.batch = AddDeletion(EmptyBatch, old)]
    <2>1. o \in Op /\ o.pc = "commit" /\ o.kind = "delete"
      BY <1>1, <1>2, <1>4, EmptyBatchType, AddDeletionType DEF Op, PCs
    <2>2. op' = [op EXCEPT ![c] = o]
      BY <1>4 DEF DeleteRead, TInv, TypeOK
    <2>3. TypeOK' /\ op'[c] = o /\ \A d \in Clients \ {c} : Stage(d)'
      BY <1>1, <2>1, <2>2, OneCallType
    <2>4. Stage(c)'
      BY <2>1, <2>3 DEF Stage, Writes
    <2> QED BY <2>3, <2>4 DEF TInv
  <1> QED BY <1>3, <1>4

LEMMA DeleteManyReadType ==
  ASSUME TInv, NEW c \in Clients, DeleteManyRead(c)
  PROVE  TInv'
  <1> DEFINE old == db.primary[M(c).id]
             last == op[c].next = Len(op[c].args)
             pc == IF last THEN "commit" ELSE "read"
             next == IF last THEN op[c].next ELSE op[c].next + 1
             batch == IF old = NoRec THEN op[c].batch ELSE AddDeletion(op[c].batch, old)
             o == [op[c] EXCEPT !.pc = pc, !.next = next, !.batch = batch]
  <1>1. /\ op[c].pc = "read" /\ op[c].kind = "deleteMany" /\ op[c] \in Op
        /\ UNCHANGED <<db, disk, closed, dbOpen, allowed>>
    BY DEF DeleteManyRead, Calling, TInv, TypeOK
  <1>2. old \in Meta \cup {NoRec} /\ op[c].next \in DOMAIN op[c].args
    BY <1>1, ReadingType DEF TInv, TypeOK, Database
  <1>3. op[c].batch \in Batch /\ op[c].args \in Seq(Arg) /\ op[c].next \in Nat
    BY <1>1 DEF Op
  <1>4. batch \in Batch
    BY <1>2, <1>3, AddDeletionType
  <1>5. pc \in PCs /\ next \in Nat /\ (pc \in {"read", "build"} => next \in DOMAIN op[c].args)
    BY <1>2, <1>3 DEF PCs
  <1>6. op' = [op EXCEPT ![c] = o]
    BY DEF DeleteManyRead, TInv, TypeOK
  <1>7. /\ o \in Op /\ o.kind = "deleteMany" /\ o.args = op[c].args
        /\ o.pc = pc /\ o.next = next
    <2> HIDE DEF pc, next, batch
    <2> QED BY <1>1, <1>4, <1>5 DEF Op
  <1>8. TypeOK' /\ op'[c] = o /\ \A d \in Clients \ {c} : Stage(d)'
    <2> HIDE DEF o, pc, next
    <2> QED BY <1>1, <1>5, <1>6, <1>7, OneCallType
  <1>9. Stage(c)'
    <2>1. \A k \in DOMAIN op[c].args : op[c].args[k].id \in Ids
      BY <1>1 DEF TInv, Stage
    <2>2. pc # "build" /\ pc # "fetch"
      OBVIOUS
    <2> QED BY <1>7, <1>8, <2>1, <2>2 DEF Stage, Writes
  <1> QED BY <1>8, <1>9 DEF TInv

LEMMA CreateManyBuildType ==
  ASSUME TInv, NEW c \in Clients, CreateManyBuild(c)
  PROVE  TInv'
  <1> DEFINE last == op[c].next = Len(op[c].args)
             pc == IF last THEN "commit" ELSE "build"
             next == IF last THEN op[c].next ELSE op[c].next + 1
             batch == AddRecord(op[c].batch, M(c))
             o == [op[c] EXCEPT !.pc = pc, !.next = next, !.batch = batch]
  <1>1. /\ op[c].pc = "build" /\ op[c].kind = "createMany" /\ op[c] \in Op
        /\ UNCHANGED <<db, disk, closed, dbOpen, allowed>>
    BY DEF CreateManyBuild, Calling, TInv, TypeOK
  <1>2. /\ M(c) = op[c].args[op[c].next] /\ M(c) \in Arg /\ M(c).id \in Ids
        /\ op[c].next \in DOMAIN op[c].args
    BY <1>1, ReadingType
  <1>3. CASE ~Valid(M(c))
    BY <1>1, <1>3, LeaveType, ResultType DEF CreateManyBuild, Errors
  <1>4. CASE Valid(M(c))
    <2>1. M(c) \in Meta
      BY <1>2, <1>4 DEF Valid, Meta, Arg
    <2>2. op[c].batch \in Batch /\ op[c].args \in Seq(Arg) /\ op[c].next \in Nat
      BY <1>1 DEF Op
    <2>3. batch \in Batch
      BY <2>1, <2>2, AddRecordType
    <2>4. pc \in PCs /\ next \in Nat /\ (pc \in {"read", "build"} => next \in DOMAIN op[c].args)
      BY <1>2, <2>2 DEF PCs
    <2>5. op' = [op EXCEPT ![c] = o]
      BY <1>4 DEF CreateManyBuild, TInv, TypeOK
    <2>6. /\ o \in Op /\ o.kind = "createMany" /\ o.args = op[c].args
          /\ o.pc = pc /\ o.next = next /\ o.batch = batch
      <3> HIDE DEF pc, next, batch
      <3> QED BY <1>1, <2>3, <2>4 DEF Op
    <2>7. TypeOK' /\ op'[c] = o /\ \A d \in Clients \ {c} : Stage(d)'
      <3> HIDE DEF o, pc, next
      <3> QED BY <1>1, <2>4, <2>5, <2>6, OneCallType
    <2>8. Stage(c)'
      <3>1. CASE last
        BY <2>6, <2>7, <3>1 DEF Stage, Writes
      <3>2. CASE ~last
        <4>1. /\ op'[c].pc = "build" /\ op'[c].kind = "createMany" /\ op'[c].args = op[c].args
              /\ op'[c].next = op[c].next + 1 /\ op'[c].batch = batch
          BY <2>6, <2>7, <3>2
        <4>2. /\ \A k \in DOMAIN op[c].args : op[c].args[k].id \in Ids
              /\ \A i \in Ids : op[c].batch.primary[i] # Keep =>
                   \E k \in DOMAIN op[c].args : k < op[c].next /\ op[c].batch.primary[i] = op[c].args[k]
              /\ \A l \in Locs : op[c].batch.secondary[l] # Keep =>
                   \E k \in DOMAIN op[c].args : k < op[c].next /\ l = op[c].args[k].loc
          BY <1>1 DEF TInv, Stage
        <4>3. /\ \A i \in Ids : batch.primary[i] = IF i = M(c).id THEN M(c) ELSE op[c].batch.primary[i]
              /\ \A l \in Locs : batch.secondary[l] = IF l = M(c).loc THEN M(c).id ELSE op[c].batch.secondary[l]
          BY <2>2 DEF AddRecord, Batch
        <4>4. \A k \in DOMAIN op[c].args : k \in Int
          BY <2>2
        <4>5. \A i \in Ids : batch.primary[i] # Keep =>
                 \E k \in DOMAIN op[c].args : k < op[c].next + 1 /\ batch.primary[i] = op[c].args[k]
          BY <1>2, <2>2, <4>2, <4>3, <4>4
        <4>6. \A l \in Locs : batch.secondary[l] # Keep =>
                 \E k \in DOMAIN op[c].args : k < op[c].next + 1 /\ l = op[c].args[k].loc
          BY <1>2, <2>2, <4>2, <4>3, <4>4
        <4> HIDE DEF batch
        <4> QED BY <4>1, <4>2, <4>5, <4>6 DEF Stage
      <3> QED BY <3>1, <3>2
    <2> QED BY <2>7, <2>8 DEF TInv
  <1> QED BY <1>3, <1>4

LEMMA CommittedType ==
  ASSUME NEW o \in Op
  PROVE  Committed(o) \in Op /\ Committed(o).pc \in {"probe", "return"}
  BY ResultType DEF Committed, Op, PCs, Errors

LEMMA AllowedType ==
  ASSUME TInv, NEW b \in Batch
  PROVE  [i \in Ids |-> IF b.primary[i] = Keep THEN allowed[i]
                        ELSE allowed[i] \cup {b.primary[i]}]
            \in [Ids -> SUBSET (Meta \cup {NoRec})]
  BY DEF TInv, TypeOK, Batch

LEMMA CommitType ==
  ASSUME TInv, NEW c \in Clients, Commit(c)
  PROVE  TInv'
  <1> DEFINE o == IF WALSync THEN [op[c] EXCEPT !.pc = "syncing"] ELSE Committed(op[c])
  <1>1. op[c] \in Op /\ op[c].batch \in Batch
    BY DEF TInv, TypeOK, Op
  <1>2. o \in Op /\ o.pc \in {"syncing", "probe", "return"}
    <2>1. [op[c] EXCEPT !.pc = "syncing"] \in Op
      BY <1>1 DEF Op, PCs
    <2> QED BY <1>1, <2>1, CommittedType DEF Op
  <1>3. op' = [op EXCEPT ![c] = o]
    BY DEF Commit, TInv, TypeOK
  <1> HIDE DEF o
  <1>4. op' \in [Clients -> Op] /\ op'[c] = o /\ \A d \in Clients \ {c} : op'[d] = op[d]
    BY <1>2, <1>3 DEF TInv, TypeOK
  <1>5. db' \in Database
    BY <1>1, ApplyType DEF Commit, TInv, TypeOK
  <1>6. allowed' \in [Ids -> SUBSET (Meta \cup {NoRec})]
    BY <1>1, AllowedType DEF Commit
  <1>7. TypeOK'
    BY <1>2, <1>4, <1>5, <1>6 DEF TInv, TypeOK, Commit
  <1>8. ASSUME NEW d \in Clients PROVE Stage(d)'
    BY <1>2, <1>4, <1>8 DEF TInv, Stage
  <1> QED BY <1>7, <1>8 DEF TInv

LEMMA PanicType ==
  ASSUME TInv, NEW c \in Clients, Panic(c)
  PROVE  TInv'
  <1> DEFINE o == [op[c] EXCEPT !.pc = "panic"]
  <1>1. o \in Op /\ o.pc = "panic" /\ op' = [op EXCEPT ![c] = o]
    BY ZenonT(60) DEF Panic, TInv, TypeOK, Op, PCs
  <1>2. TypeOK' /\ op'[c] = o /\ \A d \in Clients \ {c} : Stage(d)'
    BY <1>1, OneCallType DEF Panic
  <1>3. Stage(c)'
    BY <1>1, <1>2 DEF Stage
  <1> QED BY <1>2, <1>3 DEF TInv

LEMMA ReturnType ==
  ASSUME TInv, NEW c \in Clients, Return(c)
  PROVE  TInv'
  <1>1. op' \in [Clients -> Op] /\ op'[c] = Idle /\ \A d \in Clients \ {c} : op'[d] = op[d]
    BY IdleType DEF Return, TInv, TypeOK
  <1>2. op[c].batch \in Batch
    BY DEF TInv, TypeOK, Op
  <1>3. allowed' \in [Ids -> SUBSET (Meta \cup {NoRec})]
    BY <1>2 DEF Return, TInv, TypeOK, Batch
  <1>4. TypeOK'
    BY <1>1, <1>3, IdleType DEF TInv, TypeOK, Return
  <1>5. ASSUME NEW d \in Clients PROVE Stage(d)'
    BY <1>1, <1>5, IdleType DEF TInv, Stage
  <1> QED BY <1>4, <1>5 DEF TInv

LEMMA DurableType ==
  ASSUME TInv, Durable, UNCHANGED <<db, closed, allowed>>, dbOpen' \in BOOLEAN
  PROVE  TInv'
  <1>1. ASSUME NEW d \in Clients
        PROVE  /\ op'[d] \in Op
               /\ op'[d] = op[d] \/ op'[d].pc \in {"probe", "return"}
    BY CommittedType DEF Durable, TInv, TypeOK
  <1>2. op' = [d \in Clients |-> op'[d]]
    BY DEF Durable
  <1>3. op' \in [Clients -> Op]
    BY <1>1, <1>2
  <1>4. TypeOK'
    BY <1>1, <1>3 DEF TInv, TypeOK, Durable
  <1>5. ASSUME NEW d \in Clients PROVE Stage(d)'
    BY <1>1, <1>5 DEF TInv, Stage
  <1> QED BY <1>4, <1>5 DEF TInv

LEMMA RestartType ==
  ASSUME TInv, Restart
  PROVE  TInv'
  <1>1. op' \in [Clients -> Op] /\ \A d \in Clients : op'[d] = Idle
    BY IdleType DEF Restart
  <1>2. TypeOK'
    BY <1>1, IdleType DEF TInv, TypeOK, Restart, Database
  <1>3. ASSUME NEW d \in Clients PROVE Stage(d)'
    BY <1>1, <1>3, IdleType DEF Stage
  <1> QED BY <1>2, <1>3 DEF TInv

LEMMA InitType == Init => TInv
  <1> SUFFICES ASSUME Init PROVE TInv
    OBVIOUS
  <1>1. EmptyDatabase \in Database
    BY DEF EmptyDatabase, Database
  <1>2. TypeOK
    BY <1>1, IdleType DEF Init, TypeOK
  <1>3. ASSUME NEW d \in Clients PROVE Stage(d)
    BY <1>3, IdleType DEF Init, Stage
  <1> QED BY <1>2, <1>3 DEF TInv

LEMMA NextType ==
  ASSUME TInv, [Next]_vars
  PROVE  TInv'
  <1>1. CASE \E c \in Clients, kind \in Kinds : \E args \in Requests(kind) :
                CallRefused(c, kind, args) \/ CallEmpty(c, kind, args) \/ Call(c, kind, args)
    BY <1>1, CallType
  <1>2. CASE \E c \in Clients : Step(c)
    <2> PICK c \in Clients : Step(c)
      BY <1>2
    <2>1. CASE CreateRead(c)
      BY <2>1, CreateReadType
    <2>2. CASE GetRead(c)
      BY <2>2, GetReadType
    <2>3. CASE IndexRead(c)
      BY <2>3, IndexReadType
    <2>4. CASE FetchRead(c)
      BY <2>4, FetchReadType
    <2>5. CASE UpdateRead(c)
      BY <2>5, UpdateReadType
    <2>6. CASE DeleteRead(c)
      BY <2>6, DeleteReadType
    <2>7. CASE DeleteManyRead(c)
      BY <2>7, DeleteManyReadType
    <2>8. CASE CreateManyBuild(c)
      BY <2>8, CreateManyBuildType
    <2>9. CASE Commit(c)
      BY <2>9, CommitType
    <2>10. CASE AccessFails(c) \/ ProbeRead(c)
      BY <2>10, LeaveType, ResultType DEF AccessFails, ProbeRead, Errors
    <2>11. CASE Panic(c)
      BY <2>11, PanicType
    <2>12. CASE Return(c)
      BY <2>12, ReturnType
    <2> QED BY <2>1, <2>2, <2>3, <2>4, <2>5, <2>6, <2>7, <2>8, <2>9, <2>10, <2>11, <2>12 DEF Step
  <1>3. CASE Sync \/ CloseEnd
    BY <1>3, DurableType DEF Sync, CloseEnd, TInv, TypeOK
  <1>4. CASE CloseBegin
    BY <1>4 DEF CloseBegin, TInv, TypeOK, Stage
  <1>5. CASE Restart
    BY <1>5, RestartType
  <1>6. CASE UNCHANGED vars
    BY <1>6 DEF vars, TInv, TypeOK, Stage
  <1> QED BY <1>1, <1>2, <1>3, <1>4, <1>5, <1>6 DEF Next

\* Every state of the repository, its calls and its history is well formed, for
\* careful clients and others: no call leaves its argument list, and GetByKey
\* never fetches under a primary key it did not find.
THEOREM TypeCorrect == Spec => []TypeOK
  <1>1. TInv /\ [Next]_vars => TInv'
    BY NextType
  <1>2. TInv => TypeOK
    BY DEF TInv
  <1> QED BY InitType, <1>1, <1>2, PTL DEF Spec

-----------------------------------------------------------------------------
(***************************************************************************)
(* The index.  The argument is IInv: the batch of a call in progress stays *)
(* a consistent change of the database until the call commits it, because  *)
(* the commits of the other calls touch other IDs and locations.           *)
(***************************************************************************)
Sound(c) == Active(c) => Relies(c) /\ Fits(c, op[c].batch)

LEMMA ConstantFacts ==
  /\ Keep \notin Meta /\ Keep # NoRec /\ Keep \notin Ids /\ Keep # NoId
  /\ NoRec \notin Meta /\ NoRec \notin Arg /\ NoId \notin Ids /\ NoLoc \notin Locs
  <1>1. Meta \subseteq Arg
    BY DEF Meta, Arg
  <1> QED BY <1>1, ConstantsAssumption

LEMMA EmptyBatchFacts ==
  /\ \A i \in Ids : EmptyBatch.primary[i] = Keep
  /\ \A l \in Locs : EmptyBatch.secondary[l] = Keep
  BY DEF EmptyBatch

LEMMA EmptyFits ==
  ASSUME NEW c \in Clients
  PROVE  Fits(c, EmptyBatch)
  BY EmptyBatchFacts, ConstantFacts
  DEF Fits, HeldOnly, Indexed, EntriesSet, EntriesDeleted, NoEntryLeft, Record

LEMMA ApplyFacts ==
  ASSUME NEW d \in Database, NEW b \in Batch
  PROVE  /\ \A i \in Ids : Apply(d, b).primary[i] =
                 IF b.primary[i] = Keep THEN d.primary[i] ELSE b.primary[i]
         /\ \A l \in Locs : Apply(d, b).secondary[l] =
                 IF b.secondary[l] = Keep THEN d.secondary[l] ELSE b.secondary[l]
  BY DEF Apply

\* Committing a batch that fits the database leaves it consistent.
LEMMA CommitConsistent ==
  ASSUME TypeOK, Consistent(db), NEW c \in Clients, NEW b \in Batch, Fits(c, b)
  PROVE  Consistent(Apply(db, b))
  <1> DEFINE e == Apply(db, b)
  <1>1. db \in Database
    BY DEF TypeOK
  <1>2. /\ \A i \in Ids : db.primary[i] \in Meta \cup {NoRec} /\ b.primary[i] \in Meta \cup {NoRec, Keep}
        /\ \A l \in Locs : db.secondary[l] \in Ids \cup {NoId} /\ b.secondary[l] \in Ids \cup {NoId, Keep}
        /\ \A m \in Meta : m.loc \in Locs
    BY <1>1 DEF Database, Batch, Meta
  <1>3. /\ \A i \in Ids : e.primary[i] = IF b.primary[i] = Keep THEN db.primary[i] ELSE b.primary[i]
        /\ \A l \in Locs : e.secondary[l] = IF b.secondary[l] = Keep THEN db.secondary[l] ELSE b.secondary[l]
    BY <1>1, ApplyFacts
  <1> HIDE DEF e
  <1>4. ASSUME NEW i \in Ids, e.primary[i] # NoRec
        PROVE  e.primary[i].id = i /\ e.secondary[e.primary[i].loc] = i
    <2>1. CASE b.primary[i] = Keep
      <3>1. e.primary[i] = db.primary[i] /\ db.primary[i] \in Meta
        BY <1>2, <1>3, <1>4, <2>1
      <3>2. db.primary[i].id = i /\ db.secondary[db.primary[i].loc] = i /\ db.primary[i].loc \in Locs
        BY <1>2, <1>4, <3>1 DEF Consistent
      <3>3. b.secondary[db.primary[i].loc] # NoId
        <4> SUFFICES ASSUME b.secondary[db.primary[i].loc] = NoId PROVE FALSE
          OBVIOUS
        <4>1. PICK j \in Ids : /\ b.primary[j] # Keep /\ db.primary[j] # NoRec
                               /\ db.primary[j].loc = db.primary[i].loc
          BY <3>2 DEF Fits, EntriesDeleted, Record
        <4>2. j = i
          BY <3>2, <4>1 DEF Consistent
        <4> QED BY <2>1, <4>1, <4>2
      <3>4. ASSUME NEW k \in Ids, b.secondary[db.primary[i].loc] = k PROVE FALSE
        <4>1. Record(b.primary[k]) /\ db.secondary[db.primary[i].loc] \in {NoId, k}
          BY <3>2, <3>4 DEF Fits, EntriesSet
        <4>2. k = i
          BY <3>2, <4>1, ConstantFacts
        <4> QED BY <2>1, <4>1, <4>2 DEF Record
      <3>5. b.secondary[db.primary[i].loc] = Keep
        BY <1>2, <3>2, <3>3, <3>4
      <3> QED BY <1>3, <3>1, <3>2, <3>5
    <2>2. CASE b.primary[i] # Keep
      <3>1. e.primary[i] = b.primary[i] /\ Record(b.primary[i]) /\ b.primary[i].loc \in Locs
        BY <1>2, <1>3, <1>4, <2>2 DEF Record
      <3>2. CASE b.secondary[b.primary[i].loc] = i
        BY <1>3, <3>1, <3>2, ConstantFacts DEF Fits, Indexed
      <3>3. CASE b.secondary[b.primary[i].loc] = Keep /\ db.primary[i] # NoRec
                 /\ db.primary[i].loc = b.primary[i].loc
        BY <1>3, <3>1, <3>3 DEF Fits, Indexed, Consistent
      <3> QED BY <3>1, <3>2, <3>3 DEF Fits, Indexed
    <2> QED BY <2>1, <2>2
  <1>5. ASSUME NEW l \in Locs, e.secondary[l] # NoId
        PROVE  e.primary[e.secondary[l]] # NoRec /\ e.primary[e.secondary[l]].loc = l
    <2> DEFINE k == e.secondary[l]
    <2>1. k \in Ids
      BY <1>2, <1>3, <1>5
    <2>2. CASE b.secondary[l] # Keep
      <3>1. b.secondary[l] = k
        BY <1>3, <2>2
      <3>2. Record(b.primary[k]) /\ b.primary[k].loc = l
        BY <2>1, <3>1 DEF Fits, EntriesSet
      <3> QED BY <1>3, <2>1, <3>2 DEF Record
    <2>3. CASE b.secondary[l] = Keep
      <3>1. db.secondary[l] = k /\ db.primary[k] # NoRec /\ db.primary[k].loc = l
        BY <1>3, <1>5, <2>3 DEF Consistent
      <3>2. CASE b.primary[k] = Keep
        BY <1>3, <2>1, <3>1, <3>2
      <3>3. CASE b.primary[k] # Keep
        <4>1. Record(b.primary[k]) /\ b.primary[k].loc = l
          BY <2>1, <2>3, <3>1, <3>3, ConstantFacts DEF Fits, NoEntryLeft
        <4> QED BY <1>3, <2>1, <3>3, <4>1 DEF Record
      <3> QED BY <3>2, <3>3
    <2> QED BY <2>2, <2>3
  <1> QED BY <1>4, <1>5 DEF Consistent, e

\* The commit of c's batch leaves true what another call relies on.
LEMMA CommitKeepsOthers ==
  ASSUME TypeOK, Separate, NEW c \in Clients, NEW d \in Clients, c # d,
         Active(c), Fits(c, op[c].batch),
         Active(d), Relies(d), Fits(d, op[d].batch),
         db' = Apply(db, op[c].batch), op'[d] = op[d]
  PROVE  Relies(d)' /\ Fits(d, op[d].batch)'
  <1> DEFINE b == op[c].batch
             mine == ArgIds(op[d].args)
  <1>1. b \in Batch /\ op[d].batch \in Batch /\ db \in Database
        /\ op[d].args \in Seq(Arg)
    BY DEF TypeOK, Op
  <1>2. /\ \A i \in Ids : db'.primary[i] = IF b.primary[i] = Keep THEN db.primary[i] ELSE b.primary[i]
        /\ \A l \in Locs : db'.secondary[l] = IF b.secondary[l] = Keep THEN db.secondary[l] ELSE b.secondary[l]
    BY <1>1, ApplyFacts
  <1>3. /\ \A i \in Ids : db.primary[i] \in Meta \cup {NoRec} /\ b.primary[i] \in Meta \cup {NoRec, Keep}
        /\ \A l \in Locs : db.secondary[l] \in Ids \cup {NoId} /\ b.secondary[l] \in Ids \cup {NoId, Keep}
    BY <1>1 DEF Database, Batch
  <1>4. \A i \in Ids : i \in mine => b.primary[i] = Keep /\ db'.primary[i] = db.primary[i]
    BY <1>2 DEF Fits, HeldOnly, Separate
  <1>5. Places(op[d].kind) =>
          \A l \in Locs : l \in ArgLocs(op[d].args) =>
             db'.secondary[l] = db.secondary[l] \/ db'.secondary[l] = NoId
    <2> SUFFICES ASSUME Places(op[d].kind), NEW l \in Locs, l \in ArgLocs(op[d].args)
                 PROVE  b.secondary[l] \in {Keep, NoId}
      BY <1>2
    <2>1. ASSUME NEW k \in Ids, b.secondary[l] = k PROVE FALSE
      <3>1. Places(op[c].kind) /\ l \in ArgLocs(op[c].args)
        BY <2>1 DEF Fits, EntriesSet
      <3> QED BY <3>1 DEF Separate
    <2> QED BY <1>3, <2>1
  <1>6. Relies(d)'
    <2>1. \A k \in DOMAIN op[d].args :
            /\ op[d].args[k] \in Arg
            /\ op[d].args[k].id \in mine /\ op[d].args[k].loc \in ArgLocs(op[d].args)
      BY <1>1 DEF ArgIds, ArgLocs
    <2>2. ASSUME Places(op[d].kind), NEW k \in DOMAIN op[d].args, op[d].args[k].loc # NoLoc
          PROVE  db'.secondary[op[d].args[k].loc] \in {NoId, op[d].args[k].id}
      <3>1. op[d].args[k].loc \in Locs
        BY <2>1, <2>2 DEF Arg
      <3>2. db.secondary[op[d].args[k].loc] \in {NoId, op[d].args[k].id}
        BY <2>2 DEF Relies
      <3> QED BY <1>5, <2>1, <2>2, <3>1, <3>2
    <2>3. ASSUME op[d].kind = "createMany", NEW k \in DOMAIN op[d].args
          PROVE  db'.primary[op[d].args[k].id] = NoRec
      <3>1. op[d].args[k].id \in Ids
        BY <2>3 DEF Relies
      <3> QED BY <1>4, <2>1, <2>3, <3>1 DEF Relies
    <2> QED BY <2>2, <2>3, SMTT(30) DEF Relies
  <1>7. Fits(d, op[d].batch)'
    <2> DEFINE p == op[d].batch
    <2>1. /\ op'[d].batch = p /\ op'[d].args = op[d].args /\ op'[d].kind = op[d].kind
          /\ Fits(d, p)
      OBVIOUS
    <2>2. \A i \in Ids : p.primary[i] # Keep => i \in mine /\ db'.primary[i] = db.primary[i]
      BY <1>4, <2>1 DEF Fits, HeldOnly
    <2> HIDE DEF p
    <2>3. HeldOnly(d, op[d].batch)'
      BY <2>1, <2>2 DEF HeldOnly
    <2>4. Indexed(d, op[d].batch)'
      BY <2>1, <2>2 DEF Fits, Indexed, Record
    <2>5. EntriesSet(d, op[d].batch)'
      BY <1>5, <2>1 DEF Fits, EntriesSet
    <2>6. EntriesDeleted(op[d].batch)'
      <3> SUFFICES ASSUME NEW l \in Locs, p.secondary[l] = NoId
                   PROVE  \E i \in Ids : /\ p.primary[i] # Keep
                                         /\ db'.primary[i] # NoRec
                                         /\ db'.primary[i].loc = l
                                         /\ Record(p.primary[i]) => p.primary[i].loc # l
        BY <2>1 DEF EntriesDeleted, Record
      <3>1. PICK i \in Ids : /\ p.primary[i] # Keep
                             /\ db.primary[i] # NoRec
                             /\ db.primary[i].loc = l
                             /\ Record(p.primary[i]) => p.primary[i].loc # l
        BY <2>1 DEF Fits, EntriesDeleted, Record
      <3> QED BY <2>2, <3>1
    <2>7. NoEntryLeft(op[d].batch)'
      BY <2>1, <2>2 DEF Fits, NoEntryLeft, Record
    <2> QED BY <2>3, <2>4, <2>5, <2>6, <2>7 DEF Fits
  <1> QED BY <1>6, <1>7

\* A step that changes neither the database nor the calls of others, and after
\* which c's own call, if it still will write, is as before or sound anew.
LEMMA OwnStep ==
  ASSUME IInv, TInv', NEW c \in Clients,
         UNCHANGED <<db, disk>>,
         \A d \in Clients \ {c} : op'[d] = op[d],
         Active(c)' => /\ Active(c)
                       /\ op'[c].kind = op[c].kind
                       /\ ArgIds(op'[c].args) = ArgIds(op[c].args)
                       /\ ArgLocs(op'[c].args) = ArgLocs(op[c].args)
                       /\ Relies(c)' /\ Fits(c, op[c].batch)'
  PROVE  IInv'
  <1>1. Consistent(db)' /\ Consistent(disk)'
    BY DEF IInv, Consistent
  <1>2. \A d \in Clients \ {c} : Active(d)' <=> Active(d)
    BY DEF Active
  <1>3. Separate'
    <2> SUFFICES ASSUME NEW a \in Clients, NEW b \in Clients, a # b, Active(a)', Active(b)'
                 PROVE  /\ ArgIds(op'[a].args) \cap ArgIds(op'[b].args) = {}
                        /\ Places(op'[a].kind) /\ Places(op'[b].kind) =>
                              ArgLocs(op'[a].args) \cap ArgLocs(op'[b].args) = {}
      BY DEF Separate
    <2>1. \A d \in {a, b} : /\ Active(d)
                            /\ op'[d].kind = op[d].kind
                            /\ ArgIds(op'[d].args) = ArgIds(op[d].args)
                            /\ ArgLocs(op'[d].args) = ArgLocs(op[d].args)
      BY <1>2
    <2> QED BY <2>1 DEF IInv, Separate
  <1>4. ASSUME NEW d \in Clients, Active(d)'
        PROVE  Relies(d)' /\ Fits(d, op[d].batch)'
    <2>1. CASE d = c
      BY <1>4, <2>1
    <2>2. CASE d # c
      <3>1. Active(d) /\ op'[d] = op[d]
        BY <1>2, <1>4, <2>2
      <3>2. Relies(d) /\ Fits(d, op[d].batch)
        BY <3>1 DEF IInv
      <3>3. Relies(d)'
        BY <3>1, <3>2 DEF Relies
      <3>4. Fits(d, op[d].batch)'
        BY <3>1, <3>2, SMTT(30) DEF Fits, HeldOnly, Indexed, EntriesSet, EntriesDeleted, NoEntryLeft
      <3> QED BY <3>3, <3>4
    <2> QED BY <2>1, <2>2
  <1> QED BY <1>1, <1>3, <1>4 DEF IInv, TInv

\* In particular, a call that is over, or that writes nothing, disturbs nothing.
LEMMA QuietStep ==
  ASSUME IInv, TInv', NEW c \in Clients,
         UNCHANGED <<db, disk>>,
         \A d \in Clients \ {c} : op'[d] = op[d],
         \/ op'[c].pc \notin {"read", "build", "commit"}
         \/ ~Writes(op'[c].kind)
  PROVE  IInv'
  BY OwnStep DEF Active

LEMMA LeaveQuiet ==
  ASSUME IInv, TInv', NEW c \in Clients, NEW r, Leave(c, r), UNCHANGED <<db, disk>>
  PROVE  IInv'
  <1>1. op'[c].pc = "return" /\ \A d \in Clients \ {c} : op'[d] = op[d]
    BY DEF Leave, IInv, TypeOK, Idle
  <1> QED BY <1>1, QuietStep

\* The facts about the call that is about to build its batch.
LEMMA BuildingFacts ==
  ASSUME IInv, NEW c \in Clients, op[c].pc \in {"read", "build"}, Writes(op[c].kind)
  PROVE  /\ Active(c) /\ Relies(c) /\ Fits(c, op[c].batch)
         /\ M(c) \in Arg /\ M(c).id \in Ids
         /\ M(c).id \in ArgIds(op[c].args) /\ M(c).loc \in ArgLocs(op[c].args)
         /\ db.primary[M(c).id] \in Meta \cup {NoRec}
         /\ db.primary[M(c).id] # NoRec =>
              /\ db.primary[M(c).id].id = M(c).id
              /\ db.primary[M(c).id].loc \in Locs
  <1>1. TInv
    BY DEF IInv, TInv
  <1>2. Active(c) /\ Relies(c) /\ Fits(c, op[c].batch)
    BY DEF Active, IInv
  <1>3. M(c) \in Arg /\ M(c).id \in Ids /\ M(c) = op[c].args[op[c].next] /\ op[c].next \in DOMAIN op[c].args
    BY <1>1, ReadingType DEF Writes
  <1>4. db.primary[M(c).id] \in Meta \cup {NoRec}
    BY <1>3 DEF IInv, TypeOK, Database
  <1>5. db.primary[M(c).id] # NoRec => db.primary[M(c).id].id = M(c).id /\ db.primary[M(c).id].loc \in Locs
    BY <1>3, <1>4 DEF IInv, Consistent, Meta
  <1> QED BY <1>2, <1>3, <1>4, <1>5 DEF ArgIds, ArgLocs

\* The batch a call builds, seen as functions.
LEMMA AddRecordFacts ==
  ASSUME NEW b \in Batch, NEW m \in Meta
  PROVE  /\ \A i \in Ids : AddRecord(b, m).primary[i] = IF i = m.id THEN m ELSE b.primary[i]
         /\ \A l \in Locs : AddRecord(b, m).secondary[l] = IF l = m.loc THEN m.id ELSE b.secondary[l]
  BY DEF AddRecord, Batch

LEMMA AddDeletionFacts ==
  ASSUME NEW b \in Batch, NEW m \in Meta
  PROVE  /\ \A i \in Ids : AddDeletion(b, m).primary[i] = IF i = m.id THEN NoRec ELSE b.primary[i]
         /\ \A l \in Locs : AddDeletion(b, m).secondary[l] = IF l = m.loc THEN NoId ELSE b.secondary[l]
  BY DEF AddDeletion, Batch

LEMMA ReplaceRecordFacts ==
  ASSUME NEW old \in Meta, NEW m \in Meta
  PROVE  /\ \A i \in Ids : ReplaceRecord(old, m).primary[i] = IF i = m.id THEN m ELSE Keep
         /\ old.loc = m.loc => \A l \in Locs : ReplaceRecord(old, m).secondary[l] = Keep
         /\ old.loc # m.loc => \A l \in Locs : ReplaceRecord(old, m).secondary[l] =
               IF l = m.loc THEN m.id ELSE IF l = old.loc THEN NoId ELSE Keep
  BY EmptyBatchType DEF ReplaceRecord, EmptyBatch, Batch, Meta

LEMMA CallStep ==
  ASSUME Exclusive, IInv, TInv', NEW c \in Clients, NEW kind \in Kinds,
         NEW args \in Requests(kind), Call(c, kind, args)
  PROVE  IInv'
  <1>1. Permitted(c, kind, args) /\ Enter(c, kind, args, Entry(kind), "none") /\ kind \in AllKinds
    BY ConstantsAssumption DEF Call
  <1>2. args \in Seq(Arg) /\ (kind # "getByKey" => \A k \in DOMAIN args : args[k].id \in Ids)
    BY <1>1, RequestType
  <1>3. /\ UNCHANGED <<db, disk>>
        /\ op'[c].kind = kind /\ op'[c].args = args /\ op'[c].batch = EmptyBatch
        /\ \A d \in Clients \ {c} : op'[d] = op[d]
    <2>1. op' = [op EXCEPT ![c] = [Idle EXCEPT !.kind = kind, !.args = args,
                                              !.pc = Entry(kind), !.res = Err("none")]]
      BY <1>1 DEF Enter
    <2> QED BY <1>1, <2>1 DEF Enter, IInv, TypeOK, Idle
  <1>4. CASE ~Writes(kind)
    BY <1>3, <1>4, QuietStep
  <1>5. CASE Writes(kind)
    <2>1. Consistent(db)' /\ Consistent(disk)'
      BY <1>3 DEF IInv, Consistent
    <2>2. \A d \in Clients \ {c} : (Active(d)' <=> Active(d)) /\ (Active(d) => Writing(d))
      BY <1>3 DEF Active, Writing
    <2>3. \A d \in Clients \ {c} : Active(d) =>
             /\ ArgIds(args) \cap ArgIds(op[d].args) = {}
             /\ Places(kind) /\ Places(op[d].kind) =>
                  ArgLocs(args) \cap ArgLocs(op[d].args) = {}
      BY <1>1, <1>5, <2>2 DEF Permitted
    <2>4. Separate'
      <3> SUFFICES ASSUME NEW a \in Clients, NEW b \in Clients, a # b, Active(a)', Active(b)'
                   PROVE  /\ ArgIds(op'[a].args) \cap ArgIds(op'[b].args) = {}
                          /\ Places(op'[a].kind) /\ Places(op'[b].kind) =>
                                ArgLocs(op'[a].args) \cap ArgLocs(op'[b].args) = {}
        BY DEF Separate
      <3>1. CASE a = c
        BY <1>3, <2>2, <2>3, <3>1
      <3>2. CASE b = c
        BY <1>3, <2>2, <2>3, <3>2
      <3>3. CASE a # c /\ b # c
        BY <1>3, <2>2, <3>3 DEF IInv, Separate
      <3> QED BY <3>1, <3>2, <3>3
    <2>5. Relies(c)' /\ Fits(c, op[c].batch)'
      <3>1. Relies(c)'
        BY <1>1, <1>2, <1>3 DEF Permitted, Relies
      <3>2. Fits(c, EmptyBatch)'
        BY <1>3, EmptyBatchFacts, ConstantFacts
        DEF Fits, HeldOnly, Indexed, EntriesSet, EntriesDeleted, NoEntryLeft, Record
      <3> QED BY <1>3, <3>1, <3>2
    <2>6. ASSUME NEW d \in Clients \ {c}, Active(d)'
          PROVE  Relies(d)' /\ Fits(d, op[d].batch)'
      <3>1. op'[d] = op[d] /\ Relies(d) /\ Fits(d, op[d].batch)
        BY <1>3, <2>2, <2>6 DEF IInv
      <3>2. Relies(d)'
        BY <1>3, <3>1 DEF Relies
      <3>3. Fits(d, op[d].batch)'
        BY <1>3, <3>1, SMTT(30) DEF Fits, HeldOnly, Indexed, EntriesSet, EntriesDeleted, NoEntryLeft
      <3> QED BY <3>2, <3>3
    <2> QED BY <2>1, <2>4, <2>5, <2>6 DEF IInv, TInv
  <1> QED BY <1>4, <1>5

LEMMA CreateReadStep ==
  ASSUME IInv, TInv', NEW c \in Clients, CreateRead(c)
  PROVE  IInv'
  <1> DEFINE b == AddRecord(EmptyBatch, M(c))
  <1>1. op[c].pc = "read" /\ op[c].kind = "create" /\ UNCHANGED <<db, disk>> /\ TInv
    BY DEF CreateRead, Calling, IInv, TInv
  <1>2. CASE Leave(c, Err("exists"))
    BY <1>1, <1>2, LeaveQuiet
  <1>3. CASE /\ db.primary[M(c).id] = NoRec
             /\ op' = [op EXCEPT ![c].pc = "commit", ![c].batch = b]
    <2>1. /\ op'[c].kind = "create" /\ op'[c].args = op[c].args /\ op'[c].batch = b
          /\ \A d \in Clients \ {c} : op'[d] = op[d]
      BY <1>1, <1>3 DEF TInv, TypeOK, Op
    <2>2. Active(c) /\ Relies(c) /\ M(c).id \in ArgIds(op[c].args) /\ M(c).loc \in ArgLocs(op[c].args)
      BY <1>1, BuildingFacts DEF Writes
    <2>3. /\ M(c) \in Meta /\ M(c).id \in Ids /\ M(c).loc \in Locs /\ M(c) = op[c].args[op[c].next]
          /\ op[c].next \in DOMAIN op[c].args
      BY <1>1, ReadingType DEF Arg, Meta
    <2>4. db.secondary[M(c).loc] \in {NoId, M(c).id}
      BY <1>1, <2>2, <2>3, ConstantFacts DEF Relies, Places
    <2>5. /\ \A i \in Ids : op'[c].batch.primary[i] = IF i = M(c).id THEN M(c) ELSE Keep
          /\ \A l \in Locs : op'[c].batch.secondary[l] = IF l = M(c).loc THEN M(c).id ELSE Keep
      BY <2>1, <2>3, AddRecordFacts, EmptyBatchFacts, EmptyBatchType
    <2>6. Fits(c, op[c].batch)'
      <3>1. HeldOnly(c, op[c].batch)'
        BY <2>1, <2>2, <2>5 DEF HeldOnly
      <3>2. Indexed(c, op[c].batch)'
        BY <2>1, <2>3, <2>5, ConstantFacts DEF Indexed, Record, Places
      <3>3. EntriesSet(c, op[c].batch)'
        BY <1>1, <2>1, <2>2, <2>3, <2>4, <2>5, ConstantFacts, SMTT(30) DEF EntriesSet, Record, Places
      <3>4. EntriesDeleted(op[c].batch)'
        BY <2>3, <2>5, ConstantFacts DEF EntriesDeleted
      <3>5. NoEntryLeft(op[c].batch)'
        BY <1>1, <1>3, <2>5 DEF NoEntryLeft
      <3> QED BY <3>1, <3>2, <3>3, <3>4, <3>5 DEF Fits
    <2>7. Relies(c)'
      BY <1>1, <2>1, <2>2 DEF Relies
    <2> QED BY <1>1, <2>1, <2>2, <2>6, <2>7, OwnStep
  <1> QED BY <1>2, <1>3 DEF CreateRead

LEMMA DeleteReadStep ==
  ASSUME IInv, TInv', NEW c \in Clients, DeleteRead(c)
  PROVE  IInv'
  <1> DEFINE old == db.primary[M(c).id]
             b == AddDeletion(EmptyBatch, old)
  <1>1. op[c].pc = "read" /\ op[c].kind = "delete" /\ UNCHANGED <<db, disk>> /\ TInv
    BY DEF DeleteRead, Calling, IInv, TInv
  <1>2. CASE Leave(c, Err("ok"))
    BY <1>1, <1>2, LeaveQuiet
  <1>3. CASE /\ old # NoRec
             /\ op' = [op EXCEPT ![c].pc = "commit", ![c].batch = b]
    <2>1. /\ op'[c].kind = "delete" /\ op'[c].args = op[c].args /\ op'[c].batch = b
          /\ \A d \in Clients \ {c} : op'[d] = op[d]
      BY <1>1, <1>3 DEF TInv, TypeOK, Op
    <2>2. /\ Active(c) /\ Relies(c) /\ M(c).id \in ArgIds(op[c].args) /\ M(c).id \in Ids
          /\ old \in Meta /\ old.id = M(c).id /\ old.loc \in Locs
      BY <1>1, <1>3, BuildingFacts DEF Writes
    <2>3. /\ \A i \in Ids : op'[c].batch.primary[i] = IF i = M(c).id THEN NoRec ELSE Keep
          /\ \A l \in Locs : op'[c].batch.secondary[l] = IF l = old.loc THEN NoId ELSE Keep
      BY <2>1, <2>2, AddDeletionFacts, EmptyBatchFacts, EmptyBatchType
    <2>4. Fits(c, op[c].batch)'
      <3>1. HeldOnly(c, op[c].batch)'
        BY <2>1, <2>2, <2>3 DEF HeldOnly
      <3>2. Indexed(c, op[c].batch)' /\ EntriesSet(c, op[c].batch)'
        BY <2>3, ConstantFacts DEF Indexed, EntriesSet, Record
      <3>3. EntriesDeleted(op[c].batch)'
        <4>1. /\ op'[c].batch.primary[M(c).id] = NoRec
              /\ db'.primary[M(c).id] # NoRec /\ db'.primary[M(c).id].loc = old.loc
          BY <1>1, <1>3, <2>2, <2>3
        <4>2. \A l \in Locs : op'[c].batch.secondary[l] = NoId => l = old.loc
          BY <2>3, ConstantFacts
        <4> QED BY <2>2, <4>1, <4>2, ConstantFacts DEF EntriesDeleted, Record
      <3>4. NoEntryLeft(op[c].batch)'
        BY <1>1, <2>2, <2>3 DEF NoEntryLeft
      <3> QED BY <3>1, <3>2, <3>3, <3>4 DEF Fits
    <2>5. Relies(c)'
      BY <1>1, <2>1, <2>2 DEF Relies
    <2> QED BY <1>1, <2>1, <2>2, <2>4, <2>5, OwnStep
  <1> QED BY <1>2, <1>3 DEF DeleteRead

LEMMA UpdateReadStep ==
  ASSUME IInv, TInv', NEW c \in Clients, UpdateRead(c)
  PROVE  IInv'
  <1> DEFINE old == db.primary[M(c).id]
             new == [M(c) EXCEPT !.ver = @ + 1]
             b == ReplaceRecord(old, new)
  <1>1. op[c].pc = "read" /\ op[c].kind = "update" /\ UNCHANGED <<db, disk>> /\ TInv
    BY DEF UpdateRead, Calling, IInv, TInv
  <1>2. CASE \E err \in {"notFound", "conflict"} : Leave(c, Err(err))
    BY <1>1, <1>2, LeaveQuiet
  <1>3. CASE /\ old # NoRec
             /\ op' = [op EXCEPT ![c].pc = "commit", ![c].args = <<new>>, ![c].batch = b]
    <2>1. /\ op'[c].kind = "update" /\ op'[c].args = <<new>> /\ op'[c].batch = b
          /\ \A d \in Clients \ {c} : op'[d] = op[d]
      BY <1>1, <1>3 DEF TInv, TypeOK, Op
    <2>2. /\ Active(c) /\ Relies(c) /\ M(c).id \in ArgIds(op[c].args) /\ M(c).loc \in ArgLocs(op[c].args)
          /\ old \in Meta /\ old.id = M(c).id /\ old.loc \in Locs
      BY <1>1, <1>3, BuildingFacts DEF Writes
    <2>3. /\ M(c) \in Arg /\ M(c).id \in Ids /\ M(c).loc \in Locs /\ M(c) = op[c].args[1]
          /\ DOMAIN op[c].args = {1}
      <3>1. op[c].args \in Seq(Arg) /\ Len(op[c].args) = 1
        BY <1>1 DEF TInv, TypeOK, Stage, Op
      <3> QED BY <1>1, <3>1, ReadingType
    <2>4. new \in Meta /\ new.id = M(c).id /\ new.loc = M(c).loc
      <3>1. M(c).ver \in Vers /\ M(c).ver < MaxVer
        BY <1>1, <2>3 DEF TInv, Stage, Arg
      <3> QED BY <2>3, <3>1, ConstantsAssumption DEF Meta, Arg, Vers
    <2> HIDE DEF new
    <2>5. /\ DOMAIN op'[c].args = {1} /\ op'[c].args[1] = new
          /\ ArgIds(op'[c].args) = ArgIds(op[c].args)
          /\ ArgLocs(op'[c].args) = ArgLocs(op[c].args)
      BY <2>1, <2>3, <2>4 DEF ArgIds, ArgLocs
    <2>6. db.secondary[M(c).loc] \in {NoId, M(c).id}
      BY <1>1, <2>2, <2>3, ConstantFacts DEF Relies, Places
    <2>7. Relies(c)'
      BY <1>1, <2>1, <2>4, <2>5, <2>6 DEF Relies
    <2>8. /\ \A i \in Ids : op'[c].batch.primary[i] = IF i = M(c).id THEN new ELSE Keep
          /\ old.loc = M(c).loc => \A l \in Locs : op'[c].batch.secondary[l] = Keep
          /\ old.loc # M(c).loc => \A l \in Locs : op'[c].batch.secondary[l] =
                IF l = M(c).loc THEN M(c).id ELSE IF l = old.loc THEN NoId ELSE Keep
      BY <2>1, <2>2, <2>4, ReplaceRecordFacts
    <2>9. HeldOnly(c, op[c].batch)'
      BY <2>2, <2>5, <2>8 DEF HeldOnly
    <2>10. Indexed(c, op[c].batch)'
      <3> SUFFICES ASSUME NEW i \in Ids, Record(op'[c].batch.primary[i])
                   PROVE  /\ Places(op'[c].kind)
                          /\ op'[c].batch.primary[i].id = i
                          /\ \/ op'[c].batch.secondary[op'[c].batch.primary[i].loc] = i
                             \/ /\ op'[c].batch.secondary[op'[c].batch.primary[i].loc] = Keep
                                /\ db'.primary[i] # NoRec
                                /\ db'.primary[i].loc = op'[c].batch.primary[i].loc
        BY DEF Indexed, Record
      <3>1. i = M(c).id /\ op'[c].batch.primary[i] = new
        BY <2>8 DEF Record
      <3>2. CASE old.loc = M(c).loc
        BY <1>1, <1>3, <2>1, <2>3, <2>4, <2>8, <3>1, <3>2 DEF Places
      <3>3. CASE old.loc # M(c).loc
        BY <2>1, <2>3, <2>4, <2>8, <3>1, <3>3 DEF Places
      <3> QED BY <3>2, <3>3
    <2>11. EntriesSet(c, op[c].batch)'
      <3> SUFFICES ASSUME NEW l \in Locs, NEW i \in Ids, op'[c].batch.secondary[l] = i
                   PROVE  /\ Places(op'[c].kind)
                          /\ l \in ArgLocs(op'[c].args)
                          /\ Record(op'[c].batch.primary[i]) /\ op'[c].batch.primary[i].loc = l
                          /\ db'.secondary[l] \in {NoId, i}
        BY DEF EntriesSet, Record
      <3>1. l = M(c).loc /\ i = M(c).id
        BY <2>8, ConstantFacts
      <3>2. op'[c].batch.primary[i] = new
        BY <2>8, <3>1
      <3> QED BY <1>1, <2>1, <2>2, <2>4, <2>5, <2>6, <3>1, <3>2, ConstantFacts DEF Record, Places
    <2>12. EntriesDeleted(op[c].batch)'
      <3>1. /\ op'[c].batch.primary[M(c).id] = new /\ new # Keep
            /\ db'.primary[M(c).id] # NoRec /\ db'.primary[M(c).id].loc = old.loc
        BY <1>1, <1>3, <2>3, <2>4, <2>8, ConstantFacts
      <3>2. \A l \in Locs : op'[c].batch.secondary[l] = NoId => l = old.loc /\ l # M(c).loc
        BY <2>3, <2>8, ConstantFacts
      <3> QED BY <2>3, <2>4, <3>1, <3>2 DEF EntriesDeleted, Record
    <2>13. NoEntryLeft(op[c].batch)'
      <3>1. \A i \in Ids : op'[c].batch.primary[i] # Keep => i = M(c).id
        BY <2>8
      <3>2. /\ op'[c].batch.primary[M(c).id] = new /\ Record(new)
            /\ db'.primary[M(c).id].loc = old.loc
        BY <1>1, <2>3, <2>4, <2>8, ConstantFacts DEF Record
      <3>3. new.loc = old.loc \/ op'[c].batch.secondary[old.loc] = NoId
        BY <2>2, <2>4, <2>8
      <3> QED BY <3>1, <3>2, <3>3 DEF NoEntryLeft, Record
    <2>14. Fits(c, op[c].batch)'
      BY <2>9, <2>10, <2>11, <2>12, <2>13 DEF Fits
    <2> QED BY <1>1, <2>1, <2>2, <2>5, <2>7, <2>14, OwnStep
  <1> QED BY <1>2, <1>3 DEF UpdateRead

LEMMA DeleteManyReadStep ==
  ASSUME IInv, TInv', NEW c \in Clients, DeleteManyRead(c)
  PROVE  IInv'
  <1> DEFINE old == db.primary[M(c).id]
             b == op[c].batch
             batch == IF old = NoRec THEN b ELSE AddDeletion(b, old)
  <1>1. op[c].pc = "read" /\ op[c].kind = "deleteMany" /\ UNCHANGED <<db, disk>> /\ TInv
    BY DEF DeleteManyRead, Calling, IInv, TInv
  <1>2. /\ op'[c].kind = "deleteMany" /\ op'[c].args = op[c].args /\ op'[c].batch = batch
        /\ \A d \in Clients \ {c} : op'[d] = op[d]
    BY <1>1 DEF DeleteManyRead, TInv, TypeOK, Op
  <1>3. /\ Active(c) /\ Relies(c) /\ Fits(c, b) /\ M(c).id \in ArgIds(op[c].args) /\ M(c).id \in Ids
        /\ old # NoRec => old \in Meta /\ old.id = M(c).id /\ old.loc \in Locs
    BY <1>1, BuildingFacts DEF Writes
  <1>4. b \in Batch
    BY <1>1 DEF TInv, TypeOK, Op
  <1>5. Relies(c)'
    BY <1>1, <1>2, <1>3 DEF Relies
  <1>6. CASE old = NoRec
    <2>1. Fits(c, op[c].batch)'
      BY <1>1, <1>2, <1>3, <1>6, SMTT(30)
      DEF Fits, HeldOnly, Indexed, EntriesSet, EntriesDeleted, NoEntryLeft
    <2> QED BY <1>1, <1>2, <1>3, <1>5, <2>1, OwnStep
  <1>7. CASE old # NoRec
    <2>1. /\ \A i \in Ids : op'[c].batch.primary[i] = IF i = M(c).id THEN NoRec ELSE b.primary[i]
          /\ \A l \in Locs : op'[c].batch.secondary[l] = IF l = old.loc THEN NoId ELSE b.secondary[l]
      BY <1>2, <1>3, <1>4, <1>7, AddDeletionFacts
    <2>2. /\ \A i \in Ids : ~Record(b.primary[i])
          /\ \A l \in Locs : b.secondary[l] \notin Ids
      BY <1>1, <1>3 DEF Fits, Indexed, EntriesSet, Places
    <2> HIDE DEF b
    <2>3. HeldOnly(c, op[c].batch)'
      BY <1>2, <1>3, <2>1 DEF Fits, HeldOnly
    <2>4. Indexed(c, op[c].batch)' /\ EntriesSet(c, op[c].batch)'
      BY <2>1, <2>2, ConstantFacts DEF Indexed, EntriesSet, Record
    <2>5. EntriesDeleted(op[c].batch)'
      <3> SUFFICES ASSUME NEW l \in Locs, op'[c].batch.secondary[l] = NoId
                   PROVE  \E i \in Ids : /\ op'[c].batch.primary[i] # Keep
                                         /\ db'.primary[i] # NoRec
                                         /\ db'.primary[i].loc = l
                                         /\ ~Record(op'[c].batch.primary[i])
        BY DEF EntriesDeleted, Record
      <3>1. CASE l = old.loc
        BY <1>1, <1>3, <1>7, <2>1, <3>1, ConstantFacts DEF Record
      <3>2. CASE l # old.loc
        <4>1. PICK i \in Ids : b.primary[i] # Keep /\ db.primary[i] # NoRec /\ db.primary[i].loc = l
          BY <1>3, <2>1, <3>2 DEF Fits, EntriesDeleted
        <4> QED BY <1>1, <2>1, <2>2, <4>1, ConstantFacts DEF Record
      <3> QED BY <3>1, <3>2
    <2>6. NoEntryLeft(op[c].batch)'
      <3> SUFFICES ASSUME NEW i \in Ids, op'[c].batch.primary[i] # Keep, db'.primary[i] # NoRec
                   PROVE  op'[c].batch.secondary[db'.primary[i].loc] = NoId
        BY DEF NoEntryLeft, Record
      <3>1. db'.primary[i].loc \in Locs
        BY <1>1 DEF TInv, TypeOK, Database, Meta
      <3>2. CASE i = M(c).id
        BY <1>1, <1>3, <1>7, <2>1, <3>2
      <3>3. CASE i # M(c).id
        <4>1. b.secondary[db.primary[i].loc] = NoId
          BY <1>1, <1>3, <2>1, <2>2, <3>3 DEF Fits, NoEntryLeft
        <4> QED BY <1>1, <2>1, <3>1, <4>1
      <3> QED BY <3>2, <3>3
    <2>7. Fits(c, op[c].batch)'
      BY <2>3, <2>4, <2>5, <2>6 DEF Fits
    <2> QED BY <1>1, <1>2, <1>3, <1>5, <2>7, OwnStep
  <1> QED BY <1>6, <1>7

LEMMA CreateManyBuildStep ==
  ASSUME IInv, TInv', NEW c \in Clients, CreateManyBuild(c)
  PROVE  IInv'
  <1> DEFINE b == op[c].batch
  <1>1. op[c].pc = "build" /\ op[c].kind = "createMany" /\ UNCHANGED <<db, disk>> /\ TInv
    BY DEF CreateManyBuild, Calling, IInv, TInv
  <1>2. CASE ~Valid(M(c))
    BY <1>1, <1>2, LeaveQuiet DEF CreateManyBuild
  <1>3. CASE Valid(M(c))
    <2>1. /\ op'[c].kind = "createMany" /\ op'[c].args = op[c].args
          /\ op'[c].batch = AddRecord(b, M(c))
          /\ \A d \in Clients \ {c} : op'[d] = op[d]
      BY <1>1, <1>3 DEF CreateManyBuild, TInv, TypeOK, Op
    <2>2. /\ Active(c) /\ Relies(c) /\ Fits(c, b)
          /\ M(c).id \in ArgIds(op[c].args) /\ M(c).loc \in ArgLocs(op[c].args)
      BY <1>1, BuildingFacts DEF Writes
    <2>3. /\ op[c] \in Op /\ M(c) = op[c].args[op[c].next] /\ op[c].next \in DOMAIN op[c].args
          /\ M(c) \in Arg /\ M(c).id \in Ids
      BY <1>1, ReadingType
    <2>4. M(c) \in Meta /\ M(c).loc \in Locs
      BY <1>3, <2>3 DEF Valid, Arg, Meta
    <2>5. b \in Batch
      BY <2>3 DEF Op
    <2>6. /\ \A i \in Ids : op'[c].batch.primary[i] = IF i = M(c).id THEN M(c) ELSE b.primary[i]
          /\ \A l \in Locs : op'[c].batch.secondary[l] = IF l = M(c).loc THEN M(c).id ELSE b.secondary[l]
      BY <2>1, <2>4, <2>5, AddRecordFacts
    <2>7. /\ db.primary[M(c).id] = NoRec
          /\ db.secondary[M(c).loc] \in {NoId, M(c).id}
      BY <1>1, <2>2, <2>3, <2>4, ConstantFacts DEF Relies, Places
    <2>8. b.secondary[M(c).loc] = Keep /\ b.primary[M(c).id] = Keep
      <3>1. \A k \in DOMAIN op[c].args : k < op[c].next =>
               /\ k # op[c].next
               /\ op[c].args[k].id # M(c).id /\ op[c].args[k].loc # M(c).loc
        BY <1>1, <2>2, <2>3 DEF Relies, Op
      <3>2. b.secondary[M(c).loc] = Keep
        BY <1>1, <2>4, <3>1 DEF TInv, Stage
      <3>3. b.primary[M(c).id] = Keep
        <4> SUFFICES ASSUME b.primary[M(c).id] # Keep PROVE FALSE
          OBVIOUS
        <4>1. PICK k \in DOMAIN op[c].args : k < op[c].next /\ b.primary[M(c).id] = op[c].args[k]
          BY <1>1, <2>3 DEF TInv, Stage
        <4>2. op[c].args[k].id # M(c).id /\ op[c].args[k] \in Arg
          BY <2>3, <3>1, <4>1, SMTT(30) DEF Op
        <4>3. b.primary[M(c).id] \in Meta \cup {NoRec}
          BY <2>3, <2>5 DEF Batch
        <4>5. Record(b.primary[M(c).id])
          BY <4>1, <4>2, ConstantFacts DEF Record
        <4> QED BY <2>2, <2>3, <4>1, <4>2, <4>5 DEF Fits, Indexed
      <3> QED BY <3>2, <3>3
    <2> HIDE DEF b
    <2>9. HeldOnly(c, op[c].batch)'
      BY <2>1, <2>2, <2>6 DEF Fits, HeldOnly
    <2>10. Indexed(c, op[c].batch)'
      <3> SUFFICES ASSUME NEW i \in Ids, Record(op'[c].batch.primary[i])
                   PROVE  /\ op'[c].batch.primary[i].id = i
                          /\ op'[c].batch.secondary[op'[c].batch.primary[i].loc] = i
        BY <2>1 DEF Indexed, Record, Places
      <3>1. CASE i = M(c).id
        BY <2>4, <2>6, <3>1
      <3>2. CASE i # M(c).id
        <4>1. op'[c].batch.primary[i] = b.primary[i] /\ Record(b.primary[i]) /\ b.primary[i] \in Meta
          BY <2>5, <2>6, <3>2 DEF Batch, Record
        <4>2. b.primary[i].id = i /\ b.primary[i].loc \in Locs
          BY <2>2, <4>1 DEF Fits, Indexed, Meta
        <4>3. db.primary[i] = NoRec
          <5>1. i \in ArgIds(op[c].args)
            BY <2>2, <4>1 DEF Fits, HeldOnly, Record
          <5> QED BY <1>1, <2>2, <5>1 DEF Relies, ArgIds
        <4>4. b.secondary[b.primary[i].loc] = i
          BY <2>2, <4>1, <4>3 DEF Fits, Indexed
        <4>5. b.primary[i].loc # M(c).loc
          BY <2>8, <4>4, ConstantFacts
        <4> QED BY <2>6, <4>1, <4>2, <4>4, <4>5
      <3> QED BY <3>1, <3>2
    <2>11. EntriesSet(c, op[c].batch)'
      <3> SUFFICES ASSUME NEW l \in Locs, NEW i \in Ids, op'[c].batch.secondary[l] = i
                   PROVE  /\ l \in ArgLocs(op[c].args)
                          /\ Record(op'[c].batch.primary[i]) /\ op'[c].batch.primary[i].loc = l
                          /\ db.secondary[l] \in {NoId, i}
        BY <1>1, <2>1 DEF EntriesSet, Record, Places
      <3>1. CASE l = M(c).loc
        BY <2>2, <2>3, <2>4, <2>6, <2>7, <3>1, ConstantFacts DEF Record
      <3>2. CASE l # M(c).loc
        <4>1. /\ l \in ArgLocs(op[c].args) /\ Record(b.primary[i]) /\ b.primary[i].loc = l
              /\ db.secondary[l] \in {NoId, i}
          BY <2>2, <2>6, <3>2 DEF Fits, EntriesSet
        <4>2. i # M(c).id
          BY <2>8, <4>1 DEF Record
        <4> QED BY <2>6, <4>1, <4>2
      <3> QED BY <3>1, <3>2
    <2>12. EntriesDeleted(op[c].batch)'
      <3> SUFFICES ASSUME NEW l \in Locs, op'[c].batch.secondary[l] = NoId PROVE FALSE
        BY DEF EntriesDeleted
      <3>1. b.secondary[l] = NoId
        BY <2>3, <2>6, ConstantFacts
      <3>2. PICK i \in Ids : b.primary[i] # Keep /\ db.primary[i] # NoRec
        BY <2>2, <3>1 DEF Fits, EntriesDeleted
      <3>3. i \in ArgIds(op[c].args)
        BY <2>2, <3>2 DEF Fits, HeldOnly
      <3> QED BY <1>1, <2>2, <3>2, <3>3 DEF Relies, ArgIds
    <2>13. NoEntryLeft(op[c].batch)'
      <3>1. \A i \in Ids : i \in ArgIds(op[c].args) => db'.primary[i] = NoRec
        BY <1>1, <2>2 DEF Relies, ArgIds
      <3>2. \A i \in Ids : op'[c].batch.primary[i] # Keep => i \in ArgIds(op[c].args)
        BY <2>1, <2>9 DEF HeldOnly
      <3> QED BY <3>1, <3>2 DEF NoEntryLeft
    <2>14. Fits(c, op[c].batch)'
      BY <2>9, <2>10, <2>11, <2>12, <2>13 DEF Fits
    <2>15. Relies(c)'
      BY <1>1, <2>1, <2>2 DEF Relies
    <2> QED BY <1>1, <2>1, <2>2, <2>14, <2>15, OwnStep
  <1> QED BY <1>2, <1>3

\* Without a record or an entry in its batch, a commit changes nothing.
LEMMA ApplyEmpty == ASSUME NEW d \in Database PROVE Apply(d, EmptyBatch) = d
  <1>1. d = [primary |-> [i \in Ids |-> d.primary[i]], secondary |-> [l \in Locs |-> d.secondary[l]]]
    BY DEF Database
  <1>2. Apply(d, EmptyBatch) =
           [primary |-> [i \in Ids |-> d.primary[i]], secondary |-> [l \in Locs |-> d.secondary[l]]]
    BY EmptyBatchFacts DEF Apply
  <1> QED BY <1>1, <1>2

LEMMA CommitStep ==
  ASSUME IInv, TInv', NEW c \in Clients, Commit(c)
  PROVE  IInv'
  <1>1. /\ TInv /\ op[c].pc = "commit" /\ db' = Apply(db, op[c].batch) /\ disk' = disk
        /\ op[c].batch \in Batch /\ db \in Database
    BY DEF Commit, IInv, TInv, TypeOK, Op
  <1>2. /\ \A d \in Clients \ {c} : op'[d] = op[d]
        /\ op'[c].pc \in {"syncing", "probe", "return"}
    BY DEF Commit, Committed, IInv, TypeOK, Op
  <1>3. CASE ~Writes(op[c].kind)
    <2>1. db' = db
      BY <1>1, <1>3, ApplyEmpty DEF TInv, Stage
    <2> QED BY <1>1, <1>2, <2>1, QuietStep
  <1>4. CASE Writes(op[c].kind)
    <2>1. Active(c) /\ Relies(c) /\ Fits(c, op[c].batch)
      BY <1>1, <1>4 DEF Active, IInv
    <2>2. Consistent(db)'
      <3>1. Consistent(Apply(db, op[c].batch))
        BY <1>1, <2>1, CommitConsistent DEF IInv
      <3> QED BY <1>1, <3>1 DEF Consistent
    <2>3. Consistent(disk)'
      BY <1>1 DEF IInv, Consistent
    <2>4. ~Active(c)' /\ \A d \in Clients \ {c} : (Active(d)' <=> Active(d))
      BY <1>2 DEF Active
    <2>5. Separate'
      <3> SUFFICES ASSUME NEW a \in Clients, NEW b \in Clients, a # b, Active(a)', Active(b)'
                   PROVE  /\ ArgIds(op'[a].args) \cap ArgIds(op'[b].args) = {}
                          /\ Places(op'[a].kind) /\ Places(op'[b].kind) =>
                                ArgLocs(op'[a].args) \cap ArgLocs(op'[b].args) = {}
        BY DEF Separate
      <3>1. Active(a) /\ Active(b) /\ op'[a] = op[a] /\ op'[b] = op[b]
        BY <1>2, <2>4
      <3> QED BY <3>1 DEF IInv, Separate
    <2>6. ASSUME NEW d \in Clients, Active(d)'
          PROVE  Relies(d)' /\ Fits(d, op[d].batch)'
      <3>1. d # c /\ op'[d] = op[d] /\ Active(d)
        BY <1>2, <2>4, <2>6
      <3>2. Relies(d) /\ Fits(d, op[d].batch)
        BY <3>1 DEF IInv
      <3> QED BY <1>1, <2>1, <3>1, <3>2, CommitKeepsOthers DEF IInv
    <2> QED BY <2>2, <2>3, <2>5, <2>6 DEF IInv, TInv
  <1> QED BY <1>3, <1>4

\* A step after which the database is as before, the disk is as before or as
\* the database, and a call that will still write is as before.
LEMMA SystemStep ==
  ASSUME IInv, TInv', db' = db, disk' \in {db, disk},
         \A d \in Clients : Active(d)' => Active(d) /\ op'[d] = op[d]
  PROVE  IInv'
  <1>1. Consistent(db)' /\ Consistent(disk)'
    BY DEF IInv, Consistent
  <1>2. Separate'
    BY DEF IInv, Separate
  <1>3. ASSUME NEW d \in Clients, Active(d)'
        PROVE  Relies(d)' /\ Fits(d, op[d].batch)'
    <2>1. op'[d] = op[d] /\ Relies(d) /\ Fits(d, op[d].batch)
      BY <1>3 DEF IInv
    <2>2. Relies(d)'
      BY <2>1 DEF Relies
    <2>3. Fits(d, op[d].batch)'
      BY <2>1, SMTT(30) DEF Fits, HeldOnly, Indexed, EntriesSet, EntriesDeleted, NoEntryLeft
    <2> QED BY <2>2, <2>3
  <1> QED BY <1>1, <1>2, <1>3 DEF IInv, TInv

LEMMA DurableStep ==
  ASSUME IInv, TInv', Durable, db' = db
  PROVE  IInv'
  <1>1. ASSUME NEW d \in Clients, Active(d)' PROVE Active(d) /\ op'[d] = op[d]
    <2>1. op[d] \in Op
      BY DEF IInv, TypeOK
    <2>2. op'[d] = IF op[d].pc = "syncing" THEN Committed(op[d]) ELSE op[d]
      BY DEF Durable
    <2>3. CASE op[d].pc = "syncing"
      BY <1>1, <2>1, <2>2, <2>3, CommittedType DEF Active
    <2>4. CASE op[d].pc # "syncing"
      BY <1>1, <2>2, <2>4 DEF Active
    <2> QED BY <2>3, <2>4
  <1> QED BY <1>1, SystemStep DEF Durable

LEMMA RestartStep ==
  ASSUME IInv, TInv', Restart
  PROVE  IInv'
  <1>1. Consistent(db)' /\ Consistent(disk)'
    BY DEF Restart, IInv, Consistent
  <1>2. \A d \in Clients : ~Active(d)'
    BY IdleType DEF Restart, Active
  <1> QED BY <1>1, <1>2 DEF IInv, TInv, Separate

LEMMA InitIInv == Init => IInv
  <1> SUFFICES ASSUME Init PROVE IInv
    OBVIOUS
  <1>1. TInv
    BY InitType
  <1>2. Consistent(db) /\ Consistent(disk)
    BY DEF Init, Consistent, EmptyDatabase
  <1>3. \A d \in Clients : ~Active(d)
    BY IdleType DEF Init, Active
  <1> QED BY <1>1, <1>2, <1>3 DEF IInv, TInv, Separate

LEMMA NextIInv ==
  ASSUME Exclusive, IInv, [Next]_vars
  PROVE  IInv'
  <1>1. TInv'
    BY NextType DEF IInv, TInv
  <1>2. ASSUME NEW c \in Clients, NEW kind \in Kinds, NEW args \in Requests(kind),
               CallRefused(c, kind, args) \/ CallEmpty(c, kind, args) \/ Call(c, kind, args)
        PROVE  IInv'
    <2>1. ASSUME NEW a, NEW err, Enter(c, kind, a, "return", err) PROVE IInv'
      <3>1. /\ UNCHANGED <<db, disk>> /\ op'[c].pc = "return"
            /\ \A d \in Clients \ {c} : op'[d] = op[d]
        BY <2>1 DEF Enter, IInv, TypeOK, Idle
      <3> QED BY <1>1, <3>1, QuietStep
    <2> QED BY <1>1, <1>2, <2>1, CallStep DEF CallRefused, CallEmpty
  <1>3. ASSUME NEW c \in Clients, Step(c) PROVE IInv'
    <2>1. CASE CreateRead(c)
      BY <1>1, <2>1, CreateReadStep
    <2>2. CASE GetRead(c)
      BY <1>1, <2>2, LeaveQuiet DEF GetRead
    <2>3. CASE IndexRead(c)
      <3>1. CASE Leave(c, Err("notFound"))
        BY <1>1, <2>3, <3>1, LeaveQuiet DEF IndexRead
      <3>2. CASE op' = [op EXCEPT ![c].pc = "fetch", ![c].seen = db.secondary[M(c).loc]]
        <4>1. op[c].kind = "getByKey"
          BY <2>3 DEF IndexRead, Calling
        <4>2. op \in [Clients -> Op]
          BY DEF IInv, TypeOK
        <4>3. op'[c].kind = op[c].kind /\ \A d \in Clients \ {c} : op'[d] = op[d]
          BY <3>2, <4>2 DEF Op
        <4> QED BY <1>1, <2>3, <4>1, <4>3, QuietStep DEF IndexRead, Writes
      <3> QED BY <2>3, <3>1, <3>2 DEF IndexRead
    <2>4. CASE FetchRead(c)
      BY <1>1, <2>4, LeaveQuiet DEF FetchRead
    <2>5. CASE UpdateRead(c)
      BY <1>1, <2>5, UpdateReadStep
    <2>6. CASE DeleteRead(c)
      BY <1>1, <2>6, DeleteReadStep
    <2>7. CASE DeleteManyRead(c)
      BY <1>1, <2>7, DeleteManyReadStep
    <2>8. CASE CreateManyBuild(c)
      BY <1>1, <2>8, CreateManyBuildStep
    <2>9. CASE Commit(c)
      BY <1>1, <2>9, CommitStep
    <2>10. CASE AccessFails(c) \/ ProbeRead(c)
      BY <1>1, <2>10, LeaveQuiet DEF AccessFails, ProbeRead
    <2>11. CASE Panic(c) \/ Return(c)
      <3>1. /\ UNCHANGED <<db, disk>> /\ op'[c].pc \in {"panic", "idle"}
            /\ \A d \in Clients \ {c} : op'[d] = op[d]
        BY <2>11, IdleType DEF Panic, Return, IInv, TypeOK, Op
      <3> QED BY <1>1, <3>1, QuietStep
    <2> QED BY <1>3, <2>1, <2>2, <2>3, <2>4, <2>5, <2>6, <2>7, <2>8, <2>9, <2>10, <2>11 DEF Step
  <1>4. CASE Sync \/ CloseEnd
    BY <1>1, <1>4, DurableStep DEF Sync, CloseEnd
  <1>5. CASE CloseBegin \/ UNCHANGED vars
    <2>1. db' = db /\ disk' = disk /\ op' = op
      BY <1>5 DEF CloseBegin, vars
    <2> QED BY <1>1, <2>1, SystemStep DEF Active
  <1>6. CASE Restart
    BY <1>1, <1>6, RestartStep
  <1> QED BY <1>2, <1>3, <1>4, <1>5, <1>6 DEF Next

\* If writers follow the discipline of Permitted, IInv is an invariant: at any
\* moment every batch that a call has made of its earlier reads is still a
\* change that keeps index and records of the present database together.
THEOREM BatchesStayFit ==
  ASSUME Exclusive
  PROVE  Spec => []IInv
  <1>1. IInv /\ [Next]_vars => IInv'
    BY NextIInv
  <1> QED BY InitIInv, <1>1, PTL DEF Spec

\* If writers follow the discipline of Permitted, the secondary index agrees
\* with the primary records in every reachable state, in what readers see and
\* in what a crash would leave, whatever calls interleave, fail or are cut off.
THEOREM IndexCorrect ==
  ASSUME Exclusive
  PROVE  Spec => []IndexConsistent
  <1>1. IInv => IndexConsistent
    BY DEF IInv, IndexConsistent
  <1> QED BY BatchesStayFit, <1>1, PTL
=============================================================================
