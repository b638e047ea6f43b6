-------------------------- MODULE CachedRepository --------------------------
(***************************************************************************)
(* CachedMetadataRepository of internal/metadata/cache: a repository       *)
(* (`next`, here an atomic store) behind a Ristretto cache.  Reads go      *)
(* through the cache and a singleflight group, writes go to the store      *)
(* first and then delete and set the cache entries they know of.  Every    *)
(* access to the cache or the store is a step of its own.  What a call     *)
(* returns is not kept: the properties are about what the cache holds.     *)
(*                                                                         *)
(* A cache key is an ID ("id:...") or a location ("bk:...").  Ristretto is *)
(* external: Del and an update of a present entry act at once, a new entry *)
(* waits in a buffer, and an entry may be rejected, evicted or expire.  A  *)
(* deletion is buffered too, behind the entries that came before it.       *)
(***************************************************************************)
EXTENDS Integers, Sequences, FiniteSets

CONSTANTS
    Clients,     \* goroutines
    Ids, Locs,   \* object IDs and (bucket, key) pairs
    NoRec,       \* no record; also the negative sentinel of the cache
    Absent,      \* nothing is cached under a key; in a buffer: a deletion
    Kinds,       \* the operations the clients call
    MaxVer,      \* bound on Version
    MaxBatch,    \* bound on the length of a CreateMany or DeleteMany
    MaxPending,  \* capacity of Ristretto's buffer
    MaxTainted,  \* bound: no call starts once more keys than that are tainted
    Moves        \* TRUE: an Update may give a record another location

AllKinds == {"get", "getByKey", "create", "createMany", "update", "delete"}
Keys == Ids \cup Locs
Rec == [id: Ids, loc: Locs, ver: 1..MaxVer]
Val == Rec \cup {NoRec}

ASSUME ConstantsAssumption ==
    /\ Kinds \subseteq AllKinds
    /\ Ids \cap Locs = {}
    /\ NoRec \notin Rec \cup Keys \cup Clients /\ Absent \notin Val
    /\ MaxVer \in Nat \ {0}
    /\ MaxBatch \in Nat \ {0} /\ MaxPending \in Nat \ {0} /\ MaxTainted \in Nat
    /\ Moves \in BOOLEAN

VARIABLES
    store,    \* the records of the decorated repository
    cell,     \* what the cache holds under each key
    pending,  \* the writes Ristretto has accepted and not applied yet
    flight,   \* the singleflight group: the leader of each key's flight
    call,     \* the call each client is in
    tainted   \* history: keys whose entry may be stale for a known reason

cache == <<cell, pending>>
vars  == <<store, cache, flight, call, tainted>>

-----------------------------------------------------------------------------
(* The store, and the cache. *)

\* The value of a key in the store s: the record of an ID, or the record at a
\* location.
ValueIn(s, k) ==
    IF k \in Ids THEN s[k]
    ELSE IF \E i \in Ids : s[i] # NoRec /\ s[i].loc = k
         THEN s[CHOOSE i \in Ids : s[i] # NoRec /\ s[i].loc = k]
         ELSE NoRec

\* The places taken in Ristretto's buffer, which all keys share.
Buffered == UNION {{k} \X DOMAIN pending[k] : k \in Keys}
HasRoom == Cardinality(Buffered) < MaxPending

\* Mutant: the deletion is not buffered.
CacheDeleteUnbuffered(k) ==
    /\ HasRoom
    /\ cell' = [cell EXCEPT ![k] = Absent]
    /\ UNCHANGED pending

\* MetadataCache.Delete: it waits for room in the buffer.  Where no write is
\* buffered before it, the buffered deletion would find nothing to delete.
CacheDelete(k) ==
    /\ HasRoom
    /\ cell' = [cell EXCEPT ![k] = Absent]
    /\ pending' = [pending EXCEPT ![k] = IF @ = << >> THEN @ ELSE Append(@, Absent)]

\* MetadataCache.Set: a new entry is dropped when the buffer is full.
CacheSet(k, v) ==
    IF cell[k] # Absent
    THEN cell' = [cell EXCEPT ![k] = v] /\ UNCHANGED pending
    ELSE /\ pending' = [pending EXCEPT ![k] = IF HasRoom THEN Append(@, v) ELSE @]
         /\ UNCHANGED cell

\* Ristretto applies the oldest buffered write of a key: a deletion, or an
\* entry, which it may reject and which does not replace one that is there.
Process(k) ==
    /\ pending[k] # << >>
    /\ pending' = [pending EXCEPT ![k] = Tail(@)]
    /\ LET v == Head(pending[k])
       IN  cell' \in {[cell EXCEPT ![k] = IF @ = Absent \/ v = Absent THEN v ELSE @], cell}
    /\ Head(pending[k]) = Absent => cell'[k] = Absent
    /\ UNCHANGED <<store, flight, call, tainted>>

\* An entry is evicted, or its TTL is over.
Evict(k) ==
    /\ cell[k] # Absent
    /\ cell' = [cell EXCEPT ![k] = Absent]
    /\ UNCHANGED <<store, pending, flight, call, tainted>>

-----------------------------------------------------------------------------
(* Calls. *)

\* key: what a read looks up; args: what a write was given; looked, found: how
\* many records a deletion read first, and those that exist; todo: the cache
\* writes the call has still to make; touches: the keys it may write them under.
Idle == [pc |-> "idle", kind |-> "none", key |-> NoRec, args |-> << >>, looked |-> 0, found |-> << >>,
         todo |-> << >>, touches |-> {}]

Writes(kind) == kind \in AllKinds \ {"get", "getByKey"}

Del(k) == [key |-> k, val |-> Absent]
Put(k, v) == [key |-> k, val |-> v]

\* A call writes under a key while another call that touches the key is in
\* progress: what it leaves in the cache depends on how they interleave.
Taint(c, touches) ==
    tainted \cup UNION {touches \cup call[d].touches :
        d \in {d \in Clients \ {c} : /\ call[d].touches \cap touches # {}
                                     /\ Writes(call[c].kind) \/ Writes(call[d].kind)}}

\* The call returns.
Return(c) == call' = [call EXCEPT ![c] = Idle]

-----------------------------------------------------------------------------
(* Reads. *)

\* Get (Exists too) and GetByKey: the cache is looked at, and a hit is the
\* answer, which changes nothing here.
Read(c, kind, k) ==
    /\ call[c].pc = "idle" /\ Cardinality(tainted) <= MaxTainted
    /\ k \in IF kind = "get" THEN Ids ELSE Locs
    /\ LET entered == [call EXCEPT ![c] = [Idle EXCEPT !.pc = "join", !.kind = kind, !.key = k]]
       IN  call' = IF cell[k] = Absent THEN entered ELSE call
    /\ UNCHANGED <<store, cache, flight, tainted>>

\* sf.Do with a flight in progress: the call waits for its result.
JoinFlight(c) ==
    /\ call[c].pc = "join"
    /\ flight[call[c].key] # NoRec
    /\ call' = [call EXCEPT ![c].pc = "wait"]
    /\ UNCHANGED <<store, cache, flight, tainted>>

\* sf.Do without one: the call leads, unless the cache has an entry by now.
LeadFlight(c) ==
    /\ call[c].pc = "join"
    /\ LET k == call[c].key
       IN  /\ flight[k] = NoRec
           /\ IF cell[k] # Absent
              THEN Return(c) /\ UNCHANGED <<flight, tainted>>
              ELSE /\ flight' = [flight EXCEPT ![k] = c]
                   /\ call' = [call EXCEPT ![c].pc = "load", ![c].touches = {k}]
                   /\ tainted' = Taint(c, {k})
    /\ UNCHANGED <<store, cache>>

\* The leader reads the store.  GetByKey caches what it finds under the ID too.
Load(c) ==
    /\ call[c].pc = "load"
    /\ LET k == call[c].key
           v == ValueIn(store, k)
           others == IF v # NoRec /\ k \in Locs THEN {v.id} ELSE {}
       IN  /\ call' = [call EXCEPT ![c].pc = "fill",
                                   ![c].touches = {k} \cup others,
                                   ![c].todo = IF others = {} THEN <<Put(k, v)>>
                                               ELSE <<Put(v.id, v), Put(k, v)>>]
           /\ tainted' = Taint(c, {k} \cup others)
    /\ UNCHANGED <<store, cache, flight>>

\* The flight of leader c ends, and with it the calls that waited for it: its
\* result or its error is theirs.
Land(c) ==
    /\ flight' = [flight EXCEPT ![call[c].key] = NoRec]
    /\ call' = [d \in Clients |->
                  IF d = c \/ (call[d].pc = "wait" /\ call[d].key = call[c].key)
                  THEN Idle ELSE call[d]]

\* Mutant: the leader returns its error without ending the flight.
LoadFailsAlone(c) ==
    /\ call[c].pc = "load"
    /\ Return(c)
    /\ UNCHANGED <<store, cache, flight, tainted>>

\* The store reports an error other than "not found", or the leader's context
\* is over: nothing is cached, and the others get the leader's error.
LoadFails(c) ==
    /\ call[c].pc = "load"
    /\ Land(c)
    /\ UNCHANGED <<store, cache, tainted>>

FinishFlight(c) ==
    /\ call[c].pc = "fill" /\ call[c].todo = << >>
    /\ Land(c)
    /\ UNCHANGED <<store, cache, tainted>>

-----------------------------------------------------------------------------
(* Writes. *)

ArgKeys(args) == UNION {{args[j].id, args[j].loc} \ {NoRec} : j \in DOMAIN args}

\* The discipline the store needs of its clients (PebbleRepository!Permitted):
\* a record goes to a location that is free or its own.
Placeable(c, args) ==
    \A j \in DOMAIN args : args[j].loc # NoRec =>
        /\ ValueIn(store, args[j].loc) # NoRec => ValueIn(store, args[j].loc).id = args[j].id
        /\ \A d \in Clients \ {c} : \A k \in DOMAIN call[d].args :
              call[d].args[k].loc = args[j].loc => call[d].args[k].id = args[j].id

Distinct(args) == \A j, k \in DOMAIN args : j # k =>
                      /\ args[j].id # args[k].id
                      /\ args[j].loc = NoRec \/ args[j].loc # args[k].loc

\* Create, CreateMany, Update, Delete and DeleteMany enter; the last two differ
\* in the number of IDs only.
Write(c, kind, args) ==
    /\ call[c].pc = "idle" /\ Cardinality(tainted) <= MaxTainted
    /\ Distinct(args) /\ Placeable(c, args)
    /\ kind \in {"update", "createMany"} /\ ~Moves =>
         \A j \in DOMAIN args : store[args[j].id] # NoRec => store[args[j].id].loc = args[j].loc
    /\ call' = [call EXCEPT ![c] = [Idle EXCEPT !.pc = IF kind = "delete" THEN "look" ELSE "write",
                                               !.kind = kind, !.args = args,
                                               !.touches = ArgKeys(args)]]
    /\ tainted' = tainted \cup UNION {ArgKeys(args) \cup call[d].touches :
                      d \in {d \in Clients : call[d].touches \cap ArgKeys(args) # {}}}
    /\ UNCHANGED <<store, cache, flight>>

\* Delete and DeleteMany read each record before they delete it, to learn its
\* location.
Look(c) ==
    /\ call[c].pc = "look"
    /\ LET m == store[call[c].args[call[c].looked + 1].id]
           locs == IF m = NoRec THEN {} ELSE {m.loc}
       IN  /\ call' = [call EXCEPT ![c].looked = @ + 1,
                                   ![c].found = IF m = NoRec THEN @ ELSE Append(@, m),
                                   ![c].touches = @ \cup locs,
                                   ![c].pc = IF call[c].looked + 1 = Len(call[c].args)
                                             THEN "write" ELSE "look"]
           /\ tainted' = Taint(c, call[c].touches \cup locs)
    /\ UNCHANGED <<store, cache, flight>>

\* That read fails, which is ignored: the entry of the location will not be
\* touched.
LookFails(c) ==
    /\ call[c].pc = "look"
    /\ LET m == store[call[c].args[call[c].looked + 1].id]
       IN  tainted' = IF m = NoRec THEN tainted ELSE tainted \cup {m.loc}
    /\ call' = [call EXCEPT ![c].looked = @ + 1,
                            ![c].pc = IF call[c].looked + 1 = Len(call[c].args)
                                      THEN "write" ELSE "look"]
    /\ UNCHANGED <<store, cache, flight>>

\* The error the store returns for a write, "ok" if it takes effect.  CreateMany
\* replaces what is there, as PebbleRepository does.
Verdict(kind, args) ==
    CASE kind = "create" -> IF store[args[1].id] # NoRec THEN "exists" ELSE "ok"
      [] kind = "update" -> IF store[args[1].id] = NoRec THEN "notFound"
                            ELSE IF store[args[1].id].ver # args[1].ver
                            THEN "conflict" ELSE "ok"
      [] OTHER -> "ok"

\* The records as the write leaves them in the caller's hands: Update has
\* incremented the Version.
Written(kind, args) ==
    IF kind = "update" THEN <<[args[1] EXCEPT !.ver = @ + 1]>> ELSE args

After(kind, args) ==
    [i \in Ids |->
        IF \A j \in DOMAIN args : args[j].id # i THEN store[i]
        ELSE IF kind = "delete" THEN NoRec
        ELSE Written(kind, args)[CHOOSE j \in DOMAIN args : args[j].id = i]]

\* invalidateAndSet: the entries of the ID and of the record's own location.
Refresh(m) == <<Del(m.id), Del(m.loc), Put(m.id, m), Put(m.loc, m)>>

\* A deleted key: its entry goes, and the negative sentinel comes.
Negate(k) == <<Del(k), Put(k, NoRec)>>

\* Several runs of cache writes, each of the same length, one after another.
InTurn(runs, length) ==
    [n \in 1..(length * Len(runs)) |->
        runs[((n - 1) \div length) + 1][((n - 1) % length) + 1]]

NegateIds(args)    == InTurn([j \in DOMAIN args |-> Negate(args[j].id)], 2)
NegateLocs(found)  == InTurn([j \in DOMAIN found |-> Negate(found[j].loc)], 2)
RefreshAll(wrote)  == InTurn([j \in DOMAIN wrote |-> Refresh(wrote[j])], 4)

\* The cache writes of a successful call: those of Delete cover the locations
\* it found, not those of entries made earlier.
CacheWrites(c) ==
    IF call[c].kind = "delete"
    THEN NegateIds(call[c].args) \o NegateLocs(call[c].found)
    ELSE RefreshAll(Written(call[c].kind, call[c].args))

\* Locations that a record leaves for another one: no cache write covers them.
Left == {store[i].loc : i \in {i \in Ids : /\ store[i] # NoRec /\ store'[i] # NoRec
                                            /\ store[i].loc # store'[i].loc}}

StoreWrite(c) ==
    /\ call[c].pc = "write"
    /\ LET err == Verdict(call[c].kind, call[c].args)
       IN  IF err = "ok"
           THEN /\ store' = After(call[c].kind, call[c].args)
                /\ call' = [call EXCEPT ![c].pc = "refresh", ![c].todo = CacheWrites(c)]
                /\ tainted' = tainted \cup Left
           ELSE /\ Return(c)
                /\ UNCHANGED <<store, tainted>>
    /\ UNCHANGED <<cache, flight>>

\* The store reports a failure: the write had no effect, or it is visible all
\* the same (a failed fsync).  The cache is left as it is either way.
StoreFails(c) ==
    /\ call[c].pc = "write"
    /\ Return(c)
    /\ \/ UNCHANGED <<store, tainted>>
       \/ /\ Verdict(call[c].kind, call[c].args) = "ok"
          /\ store' = After(call[c].kind, call[c].args)
          /\ tainted' = tainted \cup call[c].touches \cup Left
    /\ UNCHANGED <<cache, flight>>

\* The next cache write of a call.
CacheWrite(c) ==
    /\ call[c].todo # << >>
    /\ LET w == Head(call[c].todo)
       IN  IF w.val = Absent THEN CacheDelete(w.key) ELSE CacheSet(w.key, w.val)
    /\ call' = [call EXCEPT ![c].todo = Tail(@)]
    /\ UNCHANGED <<store, flight, tainted>>

FinishWrite(c) ==
    /\ call[c].pc = "refresh" /\ call[c].todo = << >>
    /\ Return(c)
    /\ UNCHANGED <<store, cache, flight, tainted>>

-----------------------------------------------------------------------------

Init ==
    /\ store = [i \in Ids |-> NoRec]
    /\ cell = [k \in Keys |-> Absent]
    /\ pending = [k \in Keys |-> << >>]
    /\ flight = [k \in Keys |-> NoRec]
    /\ call = [c \in Clients |-> Idle]
    /\ tainted = {}

Deletable == [id: Ids, loc: {NoRec}, ver: {1}]
Creatable == [id: Ids, loc: Locs, ver: {1}]
Lists(S) == UNION {[1..n -> S] : n \in 1..MaxBatch}

Requests(kind) == CASE kind = "create"     -> {<<m>> : m \in Creatable}
                    [] kind = "createMany" -> Lists(Creatable)
                    [] kind = "update"     -> {<<m>> : m \in {r \in Rec : r.ver < MaxVer}}
                    [] OTHER               -> Lists(Deletable)

Step(c) ==
    \/ JoinFlight(c) \/ LeadFlight(c) \/ Load(c) \/ LoadFails(c) \/ FinishFlight(c)
    \/ Look(c) \/ LookFails(c) \/ StoreWrite(c) \/ StoreFails(c)
    \/ CacheWrite(c) \/ FinishWrite(c)

Next ==
    \/ \E c \in Clients :
          \/ \E kind \in Kinds \cap {"get", "getByKey"}, k \in Keys : Read(c, kind, k)
          \/ \E kind \in Kinds \ {"get", "getByKey"} :
                \E args \in Requests(kind) : Write(c, kind, args)
          \/ Step(c)
    \/ \E k \in Keys : Process(k) \/ Evict(k)

Spec == Init /\ [][Next]_vars

-----------------------------------------------------------------------------
(* Properties. *)

TypeOK ==
    /\ store \in [Ids -> Val]
    /\ \A k \in Keys : cell[k] \in {r \in Rec : k \in {r.id, r.loc}} \cup {NoRec, Absent}
    /\ pending \in [Keys -> Seq(Val \cup {Absent})]
    /\ Cardinality(Buffered) <= MaxPending
    /\ flight \in [Keys -> Clients \cup {NoRec}]
    /\ \A c \in Clients :
         /\ call[c].touches \subseteq Keys
         /\ call[c].pc \in {"load", "fill"} <=> \E k \in Keys : flight[k] = c
    /\ tainted \subseteq Keys

\* Someone who writes under k is not done with its cache writes.
Unfinished(k) == \E c \in Clients : Writes(call[c].kind) /\ k \in call[c].touches

\* Staleness has no other cause than the known ones: unless two calls on a key
\* overlapped and one of them wrote, a write failed after it took effect, a
\* deletion could not read its record, or an Update moved a record away, what
\* is cached under a key is what the store holds, between the writes to it.
EntriesFresh ==
    \A k \in Keys \ tainted :
        pending[k] = << >> /\ ~Unfinished(k) => cell[k] \in {Absent, ValueIn(store, k)}
=============================================================================
