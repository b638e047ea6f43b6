---------------------- MODULE CachedRepositoryProofs ----------------------
(***************************************************************************)
(* The entries of the cache are fresh outside of the known causes of       *)
(* staleness, for any number of goroutines, IDs, locations, batch sizes    *)
(* and buffered writes.                                                    *)
(***************************************************************************)
EXTENDS CachedRepository, FiniteSetTheorems, TLAPS

-----------------------------------------------------------------------------
(* The inductive invariant. *)

Arg == [id: Ids, loc: Locs \cup {NoRec}, ver: 1..MaxVer]

\* What a cache key may be given.
Under(k) == {r \in Rec : k \in {r.id, r.loc}} \cup {NoRec, Absent}

Entry == {w \in [key: Keys, val: Val \cup {Absent}] : w.val \in Under(w.key)}

Calls == [pc: {"idle", "join", "wait", "load", "fill", "look", "write", "refresh"},
          kind: AllKinds \cup {"none"}, key: Keys \cup {NoRec}, args: Seq(Arg), looked: Nat,
          found: Seq(Rec), todo: Seq(Entry), touches: SUBSET Keys]

FoundLocs(c) == {call[c].found[j].loc : j \in DOMAIN call[c].found}

\* What a call is at each of its steps.
Reading(c) ==
    /\ call[c].kind \in {"get", "getByKey"} /\ call[c].key \in Keys /\ call[c].args = << >>
    /\ call[c].pc \in {"join", "wait"} => call[c].touches = {}
    /\ call[c].pc \in {"load", "fill"} => flight[call[c].key] = c /\ call[c].key \in call[c].touches
    /\ call[c].pc # "fill" => call[c].todo = << >>

Writing(c) ==
    /\ Writes(call[c].kind)
    /\ call[c].touches = ArgKeys(call[c].args) \cup FoundLocs(c)
    /\ Distinct(call[c].args)
    /\ call[c].pc # "refresh" => call[c].todo = << >>
    /\ call[c].kind \in {"create", "update"} => Len(call[c].args) = 1
    /\ call[c].kind = "update" => call[c].args[1].ver < MaxVer
    /\ call[c].kind = "delete" =>
          /\ \A j \in DOMAIN call[c].args : call[c].args[j].loc = NoRec
          /\ call[c].pc = "look" => call[c].looked < Len(call[c].args)
          /\ call[c].pc = "write" => call[c].looked = Len(call[c].args)
    /\ call[c].kind # "delete" =>
          /\ call[c].pc # "look" /\ call[c].found = << >>
          /\ \A j \in DOMAIN call[c].args : call[c].args[j].loc \in Locs

Stage(c) == /\ call[c].pc = "idle" => call[c] = Idle
            /\ call[c].pc \in {"join", "wait", "load", "fill"} => Reading(c)
            /\ call[c].pc \in {"look", "write", "refresh"} => Writing(c)

Types ==
    /\ store \in [Ids -> Val]
    /\ \A i \in Ids : store[i] # NoRec => store[i].id = i
    /\ cell \in [Keys -> Val \cup {Absent}]
    /\ \A k \in Keys : cell[k] \in Under(k)
    /\ pending \in [Keys -> Seq(Val \cup {Absent})]
    /\ \A k \in Keys : \A n \in 1..Len(pending[k]) : pending[k][n] \in Under(k)
    /\ flight \in [Keys -> Clients \cup {NoRec}]
    /\ \A k \in Keys, c \in Clients : flight[k] = c => call[c].pc \in {"load", "fill"} /\ call[c].key = k
    /\ call \in [Clients -> Calls]
    /\ \A c \in Clients : Stage(c)
    /\ tainted \subseteq Keys

\* Two records are never at one location, and calls in progress do not bring
\* that about.
OnePlace == \A i, j \in Ids : store[i] # NoRec /\ store[j] # NoRec /\ store[i].loc = store[j].loc => i = j

Fits(c) ==
    \A j \in DOMAIN call[c].args : call[c].args[j].loc # NoRec =>
        /\ \A i \in Ids : store[i] # NoRec /\ store[i].loc = call[c].args[j].loc => i = call[c].args[j].id
        /\ \A d \in Clients \ {c} : \A k \in DOMAIN call[d].args :
              call[d].args[k].loc = call[c].args[j].loc => call[d].args[k].id = call[c].args[j].id

\* Calls that touch a key at the same time have tainted it, if one writes, and
\* with it everything else they touch.
Meet(c, d) == call[c].touches \cap call[d].touches # {} /\ (Writes(call[c].kind) \/ Writes(call[d].kind))
Overlaps == \A c, d \in Clients : c # d /\ Meet(c, d) => call[c].touches \subseteq tainted

\* Delete touches the location of every record it has looked at,
Knows(c) ==
    call[c].kind = "delete" /\ call[c].pc \in {"look", "write"} =>
        \A j \in 1..call[c].looked :
            LET m == store[call[c].args[j].id]
            IN  m # NoRec => m.loc \in call[c].touches \cup tainted

\* and unless that is tainted, the record is still there.
Finds(c) ==
    call[c].pc \in {"look", "write"} =>
        \A j \in DOMAIN call[c].found :
            LET m == call[c].found[j]
            IN  /\ \E n \in DOMAIN call[c].args : call[c].args[n].id = m.id
                /\ m.loc \in tainted \/ (store[m.id] # NoRec /\ store[m.id].loc = m.loc)

\* What a call has still to write to the cache.
Todo(c) ==
    \A n \in 1..Len(call[c].todo) :
        LET w == call[c].todo[n]
        IN  /\ w.key \in call[c].touches
            /\ w.val = Absent => call[c].pc = "refresh"
            /\ w.val # Absent /\ w.key \notin tainted => w.val = ValueIn(store, w.key)

\* Once the buffered writes of a key are through, its entry is fresh.
Settled(k) ==
    /\ \A n \in 1..Len(pending[k]) :
          (\A m \in n..Len(pending[k]) : pending[k][m] # Absent) => pending[k][n] = ValueIn(store, k)
    /\ (\A n \in 1..Len(pending[k]) : pending[k][n] # Absent) => cell[k] \in {Absent, ValueIn(store, k)}

Invalidates(c, k) == \E n \in 1..Len(call[c].todo) : call[c].todo[n] = Del(k)

Fresh == \A k \in Keys \ tainted : Settled(k) \/ \E c \in Clients : Invalidates(c, k)


IInv == /\ Types /\ OnePlace /\ Overlaps /\ Fresh
        /\ \A c \in Clients : Fits(c) /\ Knows(c) /\ Finds(c) /\ Todo(c)

-----------------------------------------------------------------------------
(* The value of a key. *)

LEMMA IdsAndLocs ==
  /\ \A k \in Locs : k \notin Ids
  /\ NoRec \notin Rec /\ NoRec \notin Keys /\ NoRec \notin Clients
  /\ Absent # NoRec /\ Absent \notin Rec
  BY ConstantsAssumption DEF Val

LEMMA ValueOfId ==
  ASSUME NEW s, NEW i \in Ids
  PROVE  ValueIn(s, i) = s[i]
  BY DEF ValueIn

LEMMA ValueOfLoc ==
  ASSUME NEW s, NEW k \in Locs, NEW i \in Ids, s[i] # NoRec, s[i].loc = k,
         \A j \in Ids : s[j] # NoRec /\ s[j].loc = k => j = i
  PROVE  ValueIn(s, k) = s[i]
  <1>1. k \notin Ids
    BY IdsAndLocs
  <1>2. \E j \in Ids : s[j] # NoRec /\ s[j].loc = k
    OBVIOUS
  <1>3. (CHOOSE j \in Ids : s[j] # NoRec /\ s[j].loc = k) = i
    BY <1>2, Zenon
  <1> QED BY <1>1, <1>2, <1>3, Zenon DEF ValueIn

LEMMA ValueOfFreeLoc ==
  ASSUME NEW s, NEW k \in Locs, \A j \in Ids : s[j] # NoRec => s[j].loc # k
  PROVE  ValueIn(s, k) = NoRec
  BY IdsAndLocs, Zenon DEF ValueIn

\* A location that holds the same record before and after keeps its value.
LEMMA ValueKept ==
  ASSUME NEW s, NEW t, NEW k \in Locs,
         \A i, j \in Ids : s[i] # NoRec /\ s[j] # NoRec /\ s[i].loc = s[j].loc => i = j,
         \A i \in Ids : s[i] # NoRec /\ s[i].loc = k => t[i] = s[i],
         \A i \in Ids : t[i] # NoRec /\ t[i].loc = k => t[i] = s[i]
  PROVE  ValueIn(t, k) = ValueIn(s, k)
  <1>1. CASE \E i \in Ids : s[i] # NoRec /\ s[i].loc = k
    <2>1. PICK i \in Ids : s[i] # NoRec /\ s[i].loc = k
      BY <1>1
    <2>2. ValueIn(s, k) = s[i]
      BY <2>1, ValueOfLoc
    <2>3. ValueIn(t, k) = t[i]
      <3>1. t[i] = s[i]
        BY <2>1
      <3>2. \A j \in Ids : t[j] # NoRec /\ t[j].loc = k => j = i
        BY <2>1
      <3> QED BY <2>1, <3>1, <3>2, ValueOfLoc
    <2> QED BY <2>1, <2>2, <2>3
  <1>2. CASE \A i \in Ids : s[i] # NoRec => s[i].loc # k
    <2>1. \A i \in Ids : t[i] # NoRec => t[i].loc # k
      BY <1>2
    <2> QED BY <1>2, <2>1, ValueOfFreeLoc
  <1> QED BY <1>1, <1>2

LEMMA ValueUnder ==
  ASSUME Types, OnePlace, NEW k \in Keys
  PROVE  ValueIn(store, k) \in Under(k) /\ ValueIn(store, k) \in Val /\ ValueIn(store, k) # Absent
  <1>1. CASE k \in Ids
    BY <1>1, ValueOfId, IdsAndLocs DEF Types, Under, Val
  <1>2. CASE k \in Locs /\ \E i \in Ids : store[i] # NoRec /\ store[i].loc = k
    <2>1. PICK i \in Ids : store[i] # NoRec /\ store[i].loc = k
      BY <1>2
    <2>2. ValueIn(store, k) = store[i]
      BY <1>2, <2>1, ValueOfLoc DEF OnePlace
    <2>3. store[i] \in Rec
      BY <2>1 DEF Types, Val
    <2> QED BY <2>1, <2>2, <2>3, IdsAndLocs DEF Under, Val
  <1>3. CASE k \in Locs /\ \A i \in Ids : store[i] # NoRec => store[i].loc # k
    <2>1. ValueIn(store, k) = NoRec
      BY <1>3, ValueOfFreeLoc
    <2> QED BY <2>1, IdsAndLocs DEF Under, Val
  <1> QED BY <1>1, <1>2, <1>3 DEF Keys

-----------------------------------------------------------------------------
(* The cache. *)

\* A step of the cache, of its own or of a call c, that leaves the other keys
\* alone.
LEMMA CellTypes ==
  ASSUME Types, NEW k \in Keys, NEW v \in Under(k), NEW q \in Seq(Val \cup {Absent}),
         \A n \in 1..Len(q) : q[n] \in Under(k),
         cell' = [cell EXCEPT ![k] = v], pending' = [pending EXCEPT ![k] = q]
  PROVE  /\ cell' \in [Keys -> Val \cup {Absent}]
         /\ \A h \in Keys : cell'[h] \in Under(h)
         /\ pending' \in [Keys -> Seq(Val \cup {Absent})]
         /\ \A h \in Keys : \A n \in 1..Len(pending'[h]) : pending'[h][n] \in Under(h)
  <1>1. v \in Val \cup {Absent}
    BY DEF Under, Val
  <1>2. /\ cell' \in [Keys -> Val \cup {Absent}] /\ cell'[k] = v
        /\ pending' \in [Keys -> Seq(Val \cup {Absent})] /\ pending'[k] = q
        /\ \A h \in Keys \ {k} : cell'[h] = cell[h] /\ pending'[h] = pending[h]
    BY <1>1 DEF Types
  <1>3. ASSUME NEW h \in Keys
        PROVE  /\ cell'[h] \in Under(h)
               /\ \A n \in 1..Len(pending'[h]) : pending'[h][n] \in Under(h)
    <2>1. CASE h = k
      BY <1>2, <2>1
    <2>2. CASE h # k
      BY <1>2, <2>2 DEF Types
    <2> QED BY <2>1, <2>2
  <1> QED BY <1>2, <1>3

LEMMA ProcessIInv ==
  ASSUME IInv, NEW k \in Keys, Process(k)
  PROVE  IInv'
  <1> DEFINE q == pending[k]
  <1>1. /\ q # << >> /\ q \in Seq(Val \cup {Absent})
        /\ \A n \in 1..Len(q) : q[n] \in Under(k)
        /\ pending' = [pending EXCEPT ![k] = Tail(q)]
        /\ store' = store /\ flight' = flight /\ call' = call /\ tainted' = tainted
    BY DEF Process, IInv, Types
  <1>2. /\ Len(q) \in Nat /\ Len(q) >= 1 /\ Tail(q) \in Seq(Val \cup {Absent})
        /\ Len(Tail(q)) = Len(q) - 1 /\ Head(q) = q[1]
        /\ \A n \in 1..Len(Tail(q)) : Tail(q)[n] = q[n + 1]
    BY <1>1
  <1>3. PICK v : /\ cell' = [cell EXCEPT ![k] = v]
                 /\ v = cell[k] \/ (v = q[1] /\ (cell[k] = Absent \/ v = Absent))
                 /\ q[1] = Absent => v = Absent
    <2>1. cell = [cell EXCEPT ![k] = cell[k]] /\ cell \in [Keys -> Val \cup {Absent}]
      BY DEF IInv, Types
    <2>2. cell' \in {[cell EXCEPT ![k] = IF @ = Absent \/ Head(q) = Absent THEN Head(q) ELSE @], cell}
          /\ (Head(q) = Absent => cell'[k] = Absent)
      BY DEF Process
    <2>3. cell' = [cell EXCEPT ![k] = cell'[k]]
      BY <2>1, <2>2
    <2> HIDE DEF q
    <2>4. cell'[k] = cell[k] \/ (cell'[k] = Head(q) /\ (cell[k] = Absent \/ cell'[k] = Absent))
      <3>1. CASE cell' = cell
        BY <3>1
      <3>2. CASE cell' # cell
        <4>1. cell' = [cell EXCEPT ![k] = IF cell[k] = Absent \/ Head(q) = Absent THEN Head(q) ELSE cell[k]]
          BY <2>2, <3>2
        <4>2. cell'[k] = IF cell[k] = Absent \/ Head(q) = Absent THEN Head(q) ELSE cell[k]
          BY <2>1, <4>1
        <4> QED BY <4>2
      <3> QED BY <3>1, <3>2
    <2> QED BY <1>2, <2>2, <2>3, <2>4
  <1>4. v \in Under(k)
    BY <1>1, <1>2, <1>3 DEF IInv, Types
  <1>5. \A n \in 1..Len(Tail(q)) : Tail(q)[n] \in Under(k)
    BY <1>1, <1>2
  <1>6. /\ cell' \in [Keys -> Val \cup {Absent}]
        /\ \A h \in Keys : cell'[h] \in Under(h)
        /\ pending' \in [Keys -> Seq(Val \cup {Absent})]
        /\ \A h \in Keys : \A n \in 1..Len(pending'[h]) : pending'[h][n] \in Under(h)
    <2> HIDE DEF q
    <2> QED BY <1>1, <1>2, <1>3, <1>4, <1>5, CellTypes DEF IInv
  <1>7. Types'
    BY <1>1, <1>6 DEF IInv, Types, Stage, Reading, Writing, FoundLocs
  <1>8. /\ cell'[k] = v /\ pending'[k] = Tail(q)
        /\ \A h \in Keys \ {k} : cell'[h] = cell[h] /\ pending'[h] = pending[h]
    BY <1>1, <1>3 DEF IInv, Types
  <1>9. Settled(k) => Settled(k)'
    <2> DEFINE w == ValueIn(store, k)
    <2>1. SUFFICES ASSUME Settled(k) PROVE Settled(k)'
      OBVIOUS
    <2>2. /\ \A n \in 1..Len(q) : (\A m \in n..Len(q) : q[m] # Absent) => q[n] = w
          /\ (\A n \in 1..Len(q) : q[n] # Absent) => cell[k] \in {Absent, w}
      BY <2>1 DEF Settled
    <2> HIDE DEF q, w
    <2>3. ASSUME NEW n \in 1..Len(Tail(q)), \A m \in n..Len(Tail(q)) : Tail(q)[m] # Absent
          PROVE  Tail(q)[n] = w
      <3>1. ASSUME NEW m \in (n + 1)..Len(q) PROVE q[m] # Absent
        <4>1. m - 1 \in n..Len(Tail(q)) /\ m - 1 \in 1..Len(Tail(q)) /\ (m - 1) + 1 = m
          BY <1>2
        <4> QED BY <1>2, <2>3, <4>1
      <3>2. n + 1 \in 1..Len(q)
        BY <1>2
      <3> QED BY <1>2, <2>2, <3>1, <3>2
    <2>4. ASSUME \A n \in 1..Len(Tail(q)) : Tail(q)[n] # Absent
          PROVE  v \in {Absent, w}
      <3>1. CASE q[1] = Absent
        BY <1>3, <3>1
      <3>2. CASE q[1] # Absent
        <4>1. ASSUME NEW n \in 1..Len(q) PROVE q[n] # Absent
          <5>1. CASE n = 1
            BY <3>2, <5>1
          <5>2. CASE n # 1
            <6>1. n - 1 \in 1..Len(Tail(q)) /\ (n - 1) + 1 = n
              BY <1>2, <5>2
            <6> QED BY <1>2, <2>4, <6>1
          <5> QED BY <5>1, <5>2
        <4>2. q[1] = w
          <5>1. 1 \in 1..Len(q) /\ \A m \in 1..Len(q) : q[m] # Absent
            BY <1>2, <4>1
          <5> QED BY <2>2, <5>1
        <4>3. cell[k] \in {Absent, w}
          BY <2>2, <4>1
        <4> QED BY <1>3, <4>2, <4>3
      <3> QED BY <3>1, <3>2
    <2> QED BY <1>1, <1>8, <2>3, <2>4 DEF Settled, w
  <1>10. Fresh'
    <2>1. SUFFICES ASSUME NEW h \in Keys \ tainted
                   PROVE  Settled(h)' \/ \E c \in Clients : Invalidates(c, h)'
      BY <1>1 DEF Fresh
    <2>2. CASE \E c \in Clients : Invalidates(c, h)
      BY <1>1, <2>2 DEF Invalidates
    <2>3. CASE Settled(h) /\ h # k
      BY <1>1, <1>8, <2>3 DEF Settled
    <2>4. CASE Settled(h) /\ h = k
      BY <1>9, <2>4
    <2> QED BY <2>1, <2>2, <2>3, <2>4 DEF IInv, Fresh
  <1>11. OnePlace' /\ Overlaps'
    BY <1>1 DEF IInv, OnePlace, Overlaps, Meet
  <1>12. \A c \in Clients : Fits(c)' /\ Knows(c)' /\ Finds(c)' /\ Todo(c)'
    BY <1>1 DEF IInv, Fits, Knows, Finds, Todo
  <1> QED BY <1>7, <1>10, <1>11, <1>12 DEF IInv

\* An entry is evicted: its key stays settled.
LEMMA EvictIInv ==
  ASSUME IInv, NEW k \in Keys, Evict(k)
  PROVE  IInv'
  <1>1. /\ store' = store /\ flight' = flight /\ call' = call /\ tainted' = tainted /\ pending' = pending
        /\ cell' \in [Keys -> Val \cup {Absent}] /\ cell'[k] = Absent
        /\ \A h \in Keys \ {k} : cell'[h] = cell[h]
    BY DEF Evict, IInv, Types
  <1>2. Types'
    <2>1. Absent \in Under(k)
      BY DEF Under
    <2>2. \A h \in Keys : cell'[h] \in Under(h)
      BY <1>1, <2>1 DEF IInv, Types
    <2>3. \A c \in Clients : Stage(c)'
      BY <1>1 DEF IInv, Types, Stage, Reading, Writing, FoundLocs
    <2> QED BY <1>1, <2>2, <2>3 DEF IInv, Types
  <1>3. ASSUME NEW h \in Keys, Settled(h)
        PROVE  Settled(h)'
    BY <1>1, <1>3 DEF Settled
  <1>4. Fresh'
    BY <1>1, <1>3 DEF IInv, Fresh, Invalidates
  <1>5. OnePlace' /\ Overlaps'
    BY <1>1 DEF IInv, OnePlace, Overlaps, Meet
  <1>6. \A c \in Clients : Fits(c)' /\ Knows(c)' /\ Finds(c)' /\ Todo(c)'
    BY <1>1 DEF IInv, Fits, Knows, Finds, Todo
  <1> QED BY <1>2, <1>4, <1>5, <1>6 DEF IInv

-----------------------------------------------------------------------------
(* Steps of a call that leave the store and the cache alone. *)

LEMMA IdleCall ==
  /\ Idle \in Calls
  /\ Idle.pc = "idle" /\ Idle.kind = "none" /\ Idle.args = << >> /\ Idle.found = << >>
  /\ Idle.todo = << >> /\ Idle.touches = {} /\ Idle.looked = 0 /\ Idle.key = NoRec
  BY DEF Idle, Calls

\* What other calls may see of such a step of c: a wait that ends.
Alone(c) ==
    /\ \A d \in Clients \ {c} : call'[d] = call[d] \/ (call[d].pc = "wait" /\ call'[d] = Idle)
    /\ \A d \in Clients \ {c}, k \in Keys : flight'[k] = d <=> flight[k] = d

LEMMA AloneTypes ==
  ASSUME Types, NEW c \in Clients, UNCHANGED <<store, cell, pending>>, Alone(c),
         tainted' \subseteq Keys, flight' \in [Keys -> Clients \cup {NoRec}],
         call' \in [Clients -> Calls], Stage(c)',
         \A k \in Keys : flight'[k] = c => call'[c].pc \in {"load", "fill"} /\ call'[c].key = k
  PROVE  Types'
  <1>1. ASSUME NEW d \in Clients, d # c
        PROVE  Stage(d)'
    <2>1. CASE call'[d] = Idle
      BY <2>1, IdleCall DEF Stage
    <2>2. CASE call'[d] = call[d]
      <3>1. Stage(d) /\ call[d].key = call'[d].key
        BY <2>2 DEF Types
      <3>2. Reading(d) => Reading(d)'
        BY <1>1, <2>2 DEF Reading, Alone
      <3>3. Writing(d) => Writing(d)'
        BY <2>2 DEF Writing, FoundLocs
      <3> QED BY <2>2, <3>1, <3>2, <3>3 DEF Stage
    <2> QED BY <1>1, <2>1, <2>2 DEF Alone
  <1>2. ASSUME NEW d \in Clients, NEW k \in Keys, flight'[k] = d
        PROVE  call'[d].pc \in {"load", "fill"} /\ call'[d].key = k
    <2>1. CASE d # c
      <3>1. flight[k] = d
        BY <1>2, <2>1 DEF Alone
      <3>2. call[d].pc \in {"load", "fill"} /\ call[d].key = k
        BY <3>1 DEF Types
      <3> QED BY <2>1, <3>2 DEF Alone
    <2> QED BY <1>2, <2>1
  <1>3. \A d \in Clients : Stage(d)'
    BY <1>1
  <1> QED BY <1>2, <1>3 DEF Types

LEMMA FitsKept ==
  ASSUME IInv, store' = store, NEW c \in Clients, Alone(c),
         call'[c].args = call[c].args \/ call'[c].args = << >>
  PROVE  \A d \in Clients : Fits(d)'
  <1>1. ASSUME NEW d \in Clients
        PROVE  call'[d].args = call[d].args \/ call'[d].args = << >>
    BY IdleCall DEF Alone
  <1>2. ASSUME NEW d \in Clients
        PROVE  Fits(d)'
    <2>1. Fits(d)
      BY DEF IInv
    <2>2. CASE call'[d].args = << >>
      BY <2>2 DEF Fits
    <2>3. CASE call'[d].args = call[d].args
      BY <1>1, <2>1, <2>3 DEF Fits
    <2> QED BY <1>1, <2>2, <2>3
  <1> QED BY <1>2

LEMMA AloneIInv ==
  ASSUME IInv, NEW c \in Clients, UNCHANGED <<store, cell, pending>>, Alone(c),
         tainted \subseteq tainted',
         call[c].pc = "refresh" => call[c].todo = << >>,
         Types', Overlaps', \A d \in Clients : Fits(d)',
         Knows(c)', Finds(c)', Todo(c)'
  PROVE  IInv'
  <1>1. OnePlace'
    BY DEF IInv, OnePlace
  <1>4. ASSUME NEW d \in Clients
        PROVE  Knows(d)' /\ Finds(d)' /\ Todo(d)'
    <2>1. CASE d = c
      BY <2>1
    <2>2. CASE d # c /\ call'[d] = Idle
      BY <2>2, IdleCall DEF Knows, Finds, Todo
    <2>3. CASE d # c /\ call'[d] = call[d]
      <3>1. Knows(d) /\ Finds(d) /\ Todo(d)
        BY DEF IInv
      <3>2. Knows(d)'
        BY <2>3, <3>1 DEF Knows
      <3>3. Finds(d)'
        BY <2>3, <3>1 DEF Finds
      <3>4. Todo(d)'
        BY <2>3, <3>1 DEF Todo
      <3> QED BY <3>2, <3>3, <3>4
    <2> QED BY <2>1, <2>2, <2>3 DEF Alone
  <1>5. Fresh'
    <2>1. SUFFICES ASSUME NEW k \in Keys \ tainted'
                   PROVE  Settled(k)' \/ \E d \in Clients : Invalidates(d, k)'
      BY DEF Fresh
    <2>2. CASE Settled(k)
      BY <2>2 DEF Settled
    <2>3. CASE \E d \in Clients : Invalidates(d, k)
      <3>1. PICK d \in Clients : Invalidates(d, k)
        BY <2>3
      <3>2. PICK n \in 1..Len(call[d].todo) : call[d].todo[n] = Del(k)
        BY <3>1 DEF Invalidates
      <3>3. call[d].pc = "refresh"
        BY <3>2 DEF IInv, Todo, Del
      <3>4. call'[d] = call[d]
        <4>1. CASE d = c
          <5>1. call[d].todo = << >>
            BY <3>3, <4>1
          <5> QED BY <3>2, <5>1
        <4>2. CASE d # c
          BY <3>3, <4>2 DEF Alone
        <4> QED BY <4>1, <4>2
      <3>5. Invalidates(d, k)'
        BY <3>1, <3>4 DEF Invalidates
      <3> QED BY <3>5
    <2> QED BY <2>2, <2>3 DEF IInv, Fresh
  <1> QED BY <1>1, <1>4, <1>5 DEF IInv

\* A call that lets go of the keys it touches meets nobody new.
LEMMA Leaves ==
  ASSUME Overlaps, tainted \subseteq tainted',
         \A d \in Clients : \/ call'[d].touches = call[d].touches /\ call'[d].kind = call[d].kind
                            \/ call'[d].touches = {}
  PROVE  Overlaps'
  BY DEF Overlaps, Meet

\* A call that comes to touch the keys T taints what it meets.
LEMMA Meets ==
  ASSUME Overlaps, NEW c \in Clients, NEW T, tainted \subseteq tainted',
         call'[c].touches = T,
         \A d \in Clients \ {c} :
            /\ call'[d].touches = call[d].touches /\ call'[d].kind = call[d].kind
            /\ call[d].touches \cap T # {} /\ (Writes(call'[c].kind) \/ Writes(call[d].kind))
                  => T \cup call[d].touches \subseteq tainted'
  PROVE  Overlaps'
  <1>1. SUFFICES ASSUME NEW a \in Clients, NEW b \in Clients, a # b, Meet(a, b)'
                 PROVE  call'[a].touches \subseteq tainted'
    BY DEF Overlaps
  <1>2. CASE a = c
    BY <1>1, <1>2 DEF Meet
  <1>3. CASE b = c
    BY <1>1, <1>3 DEF Meet
  <1>4. CASE a # c /\ b # c
    <2>1. Meet(a, b)
      BY <1>1, <1>4 DEF Meet
    <2> QED BY <1>1, <1>4, <2>1 DEF Overlaps
  <1> QED BY <1>2, <1>3, <1>4

LEMMA TaintMeets ==
  ASSUME Types, Overlaps, NEW c \in Clients, NEW T \in SUBSET Keys, tainted' = Taint(c, T),
         call'[c].touches = T, call'[c].kind = call[c].kind,
         \A d \in Clients \ {c} : call'[d] = call[d]
  PROVE  Overlaps' /\ tainted \subseteq tainted' /\ tainted' \subseteq Keys
  <1>1. tainted \subseteq tainted' /\ tainted' \subseteq Keys
    BY DEF Taint, Types, Calls
  <1>2. ASSUME NEW d \in Clients \ {c}, call[d].touches \cap T # {},
               Writes(call'[c].kind) \/ Writes(call[d].kind)
        PROVE  T \cup call[d].touches \subseteq tainted'
    BY <1>2 DEF Taint
  <1> QED BY <1>1, <1>2, Meets

LEMMA CallStep ==
  ASSUME Types, NEW c \in Clients, NEW x \in Calls, call' = [call EXCEPT ![c] = x]
  PROVE  /\ call' \in [Clients -> Calls] /\ call'[c] = x
         /\ \A d \in Clients \ {c} : call'[d] = call[d]
  BY DEF Types

LEMMA ReturnIInv ==
  ASSUME IInv, NEW c \in Clients, Return(c), UNCHANGED <<store, cell, pending, flight, tainted>>,
         call[c].pc \notin {"load", "fill"},
         call[c].pc = "refresh" => call[c].todo = << >>
  PROVE  IInv'
  <1>1. /\ call' \in [Clients -> Calls] /\ call'[c] = Idle
        /\ \A d \in Clients \ {c} : call'[d] = call[d]
    BY CallStep, IdleCall DEF Return, IInv
  <1>2. Alone(c)
    BY <1>1 DEF Alone
  <1>3. Types'
    <2>1. Stage(c)'
      BY <1>1, IdleCall DEF Stage
    <2>2. \A k \in Keys : flight'[k] # c
      BY DEF IInv, Types
    <2> QED BY <1>1, <1>2, <2>1, <2>2, AloneTypes DEF IInv, Types
  <1>4. Overlaps'
    BY <1>1, IdleCall, Leaves DEF IInv
  <1>5. Knows(c)' /\ Finds(c)' /\ Todo(c)'
    BY <1>1, IdleCall DEF Knows, Finds, Todo
  <1>6. \A d \in Clients : Fits(d)'
    BY <1>1, <1>2, IdleCall, FitsKept
  <1> QED BY <1>1, <1>2, <1>3, <1>4, <1>5, <1>6, AloneIInv

LEMMA LandIInv ==
  ASSUME IInv, NEW c \in Clients, Land(c), UNCHANGED <<store, cell, pending, tainted>>,
         call[c].pc \in {"load", "fill"}
  PROVE  IInv'
  <1>1. /\ call[c].key \in Keys /\ flight[call[c].key] = c
        /\ flight \in [Keys -> Clients \cup {NoRec}] /\ call \in [Clients -> Calls]
        /\ \A k \in Keys : flight[k] = c => k = call[c].key
    BY DEF IInv, Types, Stage, Reading
  <1>2. /\ call' \in [Clients -> Calls] /\ call'[c] = Idle
        /\ \A d \in Clients \ {c} : call'[d] = call[d] \/ (call[d].pc = "wait" /\ call'[d] = Idle)
    BY <1>1, IdleCall DEF Land
  <1>3. /\ flight' \in [Keys -> Clients \cup {NoRec}]
        /\ \A k \in Keys : flight'[k] # c
        /\ \A d \in Clients \ {c}, k \in Keys : flight'[k] = d <=> flight[k] = d
    BY <1>1, IdsAndLocs DEF Land
  <1>4. Alone(c)
    BY <1>2, <1>3 DEF Alone
  <1>5. Types'
    <2>1. Stage(c)'
      BY <1>2, IdleCall DEF Stage
    <2> QED BY <1>2, <1>3, <1>4, <2>1, AloneTypes DEF IInv, Types
  <1>6. Overlaps'
    <2>1. \A d \in Clients : \/ call'[d].touches = call[d].touches /\ call'[d].kind = call[d].kind
                             \/ call'[d].touches = {}
      BY <1>2, IdleCall
    <2> QED BY <2>1, Leaves DEF IInv
  <1>7. Knows(c)' /\ Finds(c)' /\ Todo(c)'
    BY <1>2, IdleCall DEF Knows, Finds, Todo
  <1>8. \A d \in Clients : Fits(d)'
    BY <1>2, <1>4, IdleCall, FitsKept
  <1> QED BY <1>2, <1>4, <1>5, <1>6, <1>7, <1>8, AloneIInv

LEMMA SameIInv ==
  ASSUME IInv, UNCHANGED vars
  PROVE  IInv'
  <1>1. Types'
    BY DEF IInv, vars, cache, Types, Stage, Reading, Writing, FoundLocs
  <1>2. OnePlace' /\ Overlaps' /\ Fresh'
    BY DEF IInv, vars, cache, OnePlace, Overlaps, Meet, Fresh, Settled, Invalidates
  <1>3. \A c \in Clients : Fits(c)' /\ Knows(c)' /\ Finds(c)' /\ Todo(c)'
    BY DEF IInv, vars, cache, Fits, Knows, Finds, Todo
  <1> QED BY <1>1, <1>2, <1>3 DEF IInv

LEMMA ReadIInv ==
  ASSUME IInv, NEW c \in Clients, NEW kind \in {"get", "getByKey"}, NEW k \in Keys, Read(c, kind, k)
  PROVE  IInv'
  <1> DEFINE x == [Idle EXCEPT !.pc = "join", !.kind = kind, !.key = k]
  <1>1. call[c].pc = "idle" /\ UNCHANGED <<store, cell, pending, flight, tainted>>
        /\ (call' = call \/ call' = [call EXCEPT ![c] = x])
    BY DEF Read, cache
  <1>2. CASE call' = call
    BY <1>1, <1>2, SameIInv DEF vars, cache
  <1>3. CASE call' = [call EXCEPT ![c] = x]
    <2>1. /\ x \in Calls /\ x.pc = "join" /\ x.kind = kind /\ x.key = k /\ x.args = << >>
          /\ x.found = << >> /\ x.todo = << >> /\ x.touches = {}
      BY IdleCall DEF Calls, AllKinds
    <2> HIDE DEF x
    <2>2. /\ call' \in [Clients -> Calls] /\ call'[c] = x
          /\ \A d \in Clients \ {c} : call'[d] = call[d]
      BY <1>3, <2>1, CallStep DEF IInv
    <2>3. Alone(c)
      BY <1>1, <2>2 DEF Alone
    <2>4. Types'
      <3>1. Stage(c)'
        BY <2>1, <2>2 DEF Stage, Reading
      <3>2. \A h \in Keys : flight'[h] # c
        BY <1>1 DEF IInv, Types
      <3> QED BY <1>1, <2>2, <2>3, <3>1, <3>2, AloneTypes DEF IInv, Types
    <2>5. Overlaps'
      BY <1>1, <2>1, <2>2, Leaves DEF IInv
    <2>6. Knows(c)' /\ Finds(c)' /\ Todo(c)'
      BY <2>1, <2>2 DEF Knows, Finds, Todo
    <2>7. \A d \in Clients : Fits(d)'
      BY <1>1, <2>1, <2>2, <2>3, FitsKept
    <2> QED BY <1>1, <2>2, <2>3, <2>4, <2>5, <2>6, <2>7, AloneIInv
  <1> QED BY <1>1, <1>2, <1>3

LEMMA JoinFlightIInv ==
  ASSUME IInv, NEW c \in Clients, JoinFlight(c)
  PROVE  IInv'
  <1> DEFINE x == [call[c] EXCEPT !.pc = "wait"]
  <1>1. call[c].pc = "join" /\ UNCHANGED <<store, cell, pending, flight, tainted>>
        /\ call' = [call EXCEPT ![c] = x] /\ call[c] \in Calls /\ Reading(c)
    BY DEF JoinFlight, cache, IInv, Types, Stage
  <1>2. /\ x \in Calls /\ x.pc = "wait" /\ x.kind = call[c].kind /\ x.key = call[c].key
        /\ x.args = call[c].args /\ x.todo = call[c].todo /\ x.touches = call[c].touches
    BY <1>1 DEF Calls
  <1> HIDE DEF x
  <1>3. /\ call' \in [Clients -> Calls] /\ call'[c] = x
        /\ \A d \in Clients \ {c} : call'[d] = call[d]
    BY <1>1, <1>2, CallStep DEF IInv
  <1>4. Alone(c)
    BY <1>1, <1>3 DEF Alone
  <1>5. Types'
    <2>1. Stage(c)'
      BY <1>1, <1>2, <1>3 DEF Stage, Reading
    <2>2. \A h \in Keys : flight'[h] # c
      BY <1>1 DEF IInv, Types
    <2> QED BY <1>1, <1>3, <1>4, <2>1, <2>2, AloneTypes DEF IInv, Types
  <1>6. Overlaps'
    BY <1>1, <1>2, <1>3, Leaves DEF IInv
  <1>7. Knows(c)' /\ Finds(c)' /\ Todo(c)'
    BY <1>1, <1>2, <1>3 DEF Knows, Finds, Todo, Reading
  <1>8. \A d \in Clients : Fits(d)'
    BY <1>1, <1>2, <1>3, <1>4, FitsKept
  <1> QED BY <1>1, <1>3, <1>4, <1>5, <1>6, <1>7, <1>8, AloneIInv

LEMMA LeadFlightIInv ==
  ASSUME IInv, NEW c \in Clients, LeadFlight(c)
  PROVE  IInv'
  <1> DEFINE k == call[c].key
  <1> DEFINE x == [call[c] EXCEPT !.pc = "load", !.touches = {k}]
  <1>1. call[c].pc = "join" /\ UNCHANGED <<store, cell, pending>>
        /\ call[c] \in Calls /\ Reading(c) /\ k \in Keys /\ flight[k] = NoRec
    BY DEF LeadFlight, cache, IInv, Types, Stage, Reading
  <1>2. CASE cell[k] # Absent
    BY <1>1, <1>2, ReturnIInv DEF LeadFlight
  <1>3. CASE cell[k] = Absent
    <2>1. /\ flight' = [flight EXCEPT ![k] = c]
          /\ call' = [call EXCEPT ![c].pc = "load", ![c].touches = {k}]
          /\ tainted' = Taint(c, {k})
      BY <1>3 DEF LeadFlight
    <2>2. call' = [call EXCEPT ![c] = x]
      BY <2>1 DEF IInv, Types
    <2>3. /\ x \in Calls /\ x.pc = "load" /\ x.kind = call[c].kind /\ x.key = k
          /\ x.args = call[c].args /\ x.todo = call[c].todo /\ x.touches = {k}
      BY <1>1 DEF Calls
    <2> HIDE DEF x
    <2>4. /\ call' \in [Clients -> Calls] /\ call'[c] = x
          /\ \A d \in Clients \ {c} : call'[d] = call[d]
      BY <2>2, <2>3, CallStep DEF IInv
    <2>5. /\ flight' \in [Keys -> Clients \cup {NoRec}]
          /\ flight'[k] = c /\ \A h \in Keys : flight'[h] = c => h = k
          /\ \A d \in Clients \ {c}, h \in Keys : flight'[h] = d <=> flight[h] = d
      BY <1>1, <2>1, IdsAndLocs DEF IInv, Types
    <2>6. Alone(c)
      BY <2>4, <2>5 DEF Alone
    <2>7. Overlaps' /\ tainted \subseteq tainted' /\ tainted' \subseteq Keys
      <3>1. {k} \in SUBSET Keys
        BY <1>1
      <3> HIDE DEF k
      <3> QED BY <2>1, <2>3, <2>4, <3>1, TaintMeets DEF IInv
    <2>8. Types'
      <3>1. Stage(c)'
        BY <1>1, <2>3, <2>4, <2>5 DEF Stage, Reading
      <3>2. \A h \in Keys : flight'[h] = c => call'[c].pc \in {"load", "fill"} /\ call'[c].key = h
        BY <2>3, <2>4, <2>5
      <3> QED BY <1>1, <2>4, <2>5, <2>6, <2>7, <3>1, <3>2, AloneTypes DEF IInv
    <2>9. Knows(c)' /\ Finds(c)' /\ Todo(c)'
      BY <1>1, <2>3, <2>4 DEF Knows, Finds, Todo, Reading
    <2>10. \A d \in Clients : Fits(d)'
      BY <1>1, <2>3, <2>4, <2>6, FitsKept
    <2> QED BY <1>1, <2>4, <2>6, <2>7, <2>8, <2>9, <2>10, AloneIInv
  <1> QED BY <1>2, <1>3

\* What a leader has to write is what the store holds.
LEMMA LoadedEntries ==
  ASSUME Types, OnePlace, NEW k \in Keys, NEW v, v = ValueIn(store, k), v # NoRec, k \in Locs
  PROVE  v.id \in Ids /\ v.id \in Keys /\ ValueIn(store, v.id) = v /\ v \in Under(v.id)
  <1>1. PICK i \in Ids : store[i] # NoRec /\ store[i].loc = k
    BY ValueOfFreeLoc
  <1>2. v = store[i]
    BY <1>1, ValueOfLoc DEF OnePlace
  <1>3. v.id = i /\ v \in Rec
    BY <1>1, <1>2 DEF Types, Val
  <1> QED BY <1>2, <1>3, ValueOfId DEF Under, Keys

LEMMA LoadIInv ==
  ASSUME IInv, NEW c \in Clients, Load(c)
  PROVE  IInv'
  <1> DEFINE k == call[c].key
             v == ValueIn(store, k)
             others == IF v # NoRec /\ k \in Locs THEN {v.id} ELSE {}
             todo == IF others = {} THEN <<Put(k, v)>> ELSE <<Put(v.id, v), Put(k, v)>>
             T == {k} \cup others
             x == [call[c] EXCEPT !.pc = "fill", !.touches = T, !.todo = todo]
  <1>1. call[c].pc = "load" /\ UNCHANGED <<store, cell, pending, flight>>
        /\ call[c] \in Calls /\ Reading(c) /\ k \in Keys /\ flight[k] = c
        /\ tainted' = Taint(c, T)
    BY DEF Load, cache, IInv, Types, Stage, Reading
  <1>2. call' = [call EXCEPT ![c] = x]
    BY DEF Load, IInv, Types
  <1>3. v \in Under(k) /\ v \in Val /\ v # Absent
    BY <1>1, ValueUnder DEF IInv
  <1>4. others # {} => v.id \in Keys /\ ValueIn(store, v.id) = v /\ v \in Under(v.id)
    <2>1. SUFFICES ASSUME others # {}
                   PROVE  v.id \in Keys /\ ValueIn(store, v.id) = v /\ v \in Under(v.id)
      OBVIOUS
    <2>2. v # NoRec /\ k \in Locs
      BY <2>1
    <2> QED BY <1>1, <2>2, LoadedEntries DEF IInv
  <1>5. T \in SUBSET Keys
    BY <1>1, <1>4
  <1>6. /\ todo \in Seq(Entry)
        /\ \A n \in 1..Len(todo) : /\ todo[n].key \in T /\ todo[n].val # Absent
                                   /\ todo[n].val = ValueIn(store, todo[n].key)
    <2> HIDE DEF k, v
    <2>1. CASE others = {}
      <3>1. Put(k, v) \in Entry
        BY <1>1, <1>3 DEF Put, Entry
      <3>2. Put(k, v).key = k /\ Put(k, v).val = v
        BY DEF Put
      <3>3. v = ValueIn(store, k)
        BY DEF v
      <3>4. todo = <<Put(k, v)>>
        BY <2>1
      <3> QED BY <1>3, <3>1, <3>2, <3>3, <3>4
    <2>2. CASE others # {}
      <3>1. Put(k, v) \in Entry /\ Put(v.id, v) \in Entry
        BY <1>1, <1>3, <1>4, <2>2 DEF Put, Entry
      <3>2. Put(k, v).key = k /\ Put(k, v).val = v /\ Put(v.id, v).key = v.id /\ Put(v.id, v).val = v
        BY DEF Put
      <3>3. v = ValueIn(store, k) /\ v.id \in others
        BY <2>2 DEF v
      <3>4. todo = <<Put(v.id, v), Put(k, v)>>
        BY <2>2
      <3> QED BY <1>3, <1>4, <2>2, <3>1, <3>2, <3>3, <3>4
    <2> QED BY <2>1, <2>2
  <1> HIDE DEF todo, T
  <1>7. /\ x \in Calls /\ x.pc = "fill" /\ x.kind = call[c].kind /\ x.key = k
        /\ x.args = call[c].args /\ x.todo = todo /\ x.touches = T
    BY <1>1, <1>5, <1>6 DEF Calls
  <1> HIDE DEF x
  <1>8. /\ call' \in [Clients -> Calls] /\ call'[c] = x
        /\ \A d \in Clients \ {c} : call'[d] = call[d]
    BY <1>2, <1>7, CallStep DEF IInv
  <1>9. Alone(c)
    BY <1>1, <1>8 DEF Alone
  <1>10. Overlaps' /\ tainted \subseteq tainted' /\ tainted' \subseteq Keys
    BY <1>1, <1>5, <1>7, <1>8, TaintMeets DEF IInv
  <1>11. Types'
    <2>1. k \in T
      BY DEF T
    <2>2. Stage(c)'
      BY <1>1, <1>7, <1>8, <2>1 DEF Stage, Reading
    <2>3. \A h \in Keys : flight'[h] = c => call'[c].pc \in {"load", "fill"} /\ call'[c].key = h
      BY <1>1, <1>7, <1>8 DEF IInv, Types
    <2> QED BY <1>1, <1>8, <1>9, <1>10, <2>2, <2>3, AloneTypes DEF IInv, Types
  <1>12. Knows(c)' /\ Finds(c)'
    BY <1>1, <1>7, <1>8 DEF Knows, Finds
  <1>13. Todo(c)'
    <2>1. store' = store
      BY <1>1
    <2>2. call'[c].todo = todo /\ call'[c].touches = T
      BY <1>7, <1>8
    <2> QED BY <1>6, <2>1, <2>2 DEF Todo
  <1>14. \A d \in Clients : Fits(d)'
    BY <1>1, <1>7, <1>8, <1>9, FitsKept
  <1> QED BY <1>1, <1>8, <1>9, <1>10, <1>11, <1>12, <1>13, <1>14, AloneIInv

\* A deletion that has looked at one more record.
LEMMA LookingTypes ==
  ASSUME IInv, NEW c \in Clients, call[c].pc = "look"
  PROVE  /\ call[c] \in Calls /\ Writing(c) /\ call[c].kind = "delete" /\ call[c].todo = << >>
         /\ call[c].looked \in Nat /\ call[c].looked < Len(call[c].args)
         /\ Len(call[c].args) \in Nat /\ DOMAIN call[c].args = 1..Len(call[c].args)
         /\ \A j \in 1..Len(call[c].args) : call[c].args[j] \in Arg
         /\ call[c].looked + 1 \in 1..Len(call[c].args)
         /\ store[call[c].args[call[c].looked + 1].id] \in Val
         /\ \A h \in Keys : flight[h] # c
  <1>1. call[c] \in Calls /\ Writing(c) /\ \A h \in Keys : flight[h] # c
    BY DEF IInv, Types, Stage
  <1>2. call[c].kind = "delete" /\ call[c].todo = << >>
    BY <1>1 DEF Writing
  <1>3. call[c].looked \in Nat /\ call[c].looked < Len(call[c].args) /\ call[c].args \in Seq(Arg)
    BY <1>1, <1>2 DEF Writing, Calls
  <1>4. /\ Len(call[c].args) \in Nat /\ DOMAIN call[c].args = 1..Len(call[c].args)
        /\ \A j \in 1..Len(call[c].args) : call[c].args[j] \in Arg
        /\ call[c].looked + 1 \in 1..Len(call[c].args)
    BY <1>3
  <1>5. store[call[c].args[call[c].looked + 1].id] \in Val
    BY <1>4 DEF Arg, IInv, Types
  <1> QED BY <1>1, <1>2, <1>3, <1>4, <1>5

LEMMA LookIInv ==
  ASSUME IInv, NEW c \in Clients, Look(c)
  PROVE  IInv'
  <1> DEFINE n == call[c].looked + 1
             m == store[call[c].args[n].id]
             locs == IF m = NoRec THEN {} ELSE {m.loc}
             F == IF m = NoRec THEN call[c].found ELSE Append(call[c].found, m)
             T == call[c].touches \cup locs
             pc == IF n = Len(call[c].args) THEN "write" ELSE "look"
             x == [call[c] EXCEPT !.looked = n, !.found = F, !.touches = T, !.pc = pc]
  <1>1. call[c].pc = "look" /\ UNCHANGED <<store, cell, pending, flight>> /\ tainted' = Taint(c, T)
    BY DEF Look, cache
  <1>2. call' = [call EXCEPT ![c] = x]
    BY DEF Look, IInv, Types
  <1>3. /\ call[c] \in Calls /\ Writing(c) /\ call[c].kind = "delete" /\ call[c].todo = << >>
        /\ n \in 1..Len(call[c].args) /\ n - 1 = call[c].looked /\ call[c].looked \in Nat
        /\ Len(call[c].args) \in Nat /\ DOMAIN call[c].args = 1..Len(call[c].args)
        /\ m \in Val /\ \A h \in Keys : flight[h] # c
        /\ call[c].args[n].id \in Ids
    <2>1. call[c].args[n] \in Arg
      BY <1>1, LookingTypes
    <2>2. call[c].args[n].id \in Ids
      BY <2>1 DEF Arg
    <2>3. n - 1 = call[c].looked
      <3>1. call[c].looked \in Nat
        BY <1>1, LookingTypes, Zenon
      <3> QED BY <3>1
    <2> QED BY <1>1, <2>2, <2>3, LookingTypes, Zenon
  <1>4. m # NoRec => m \in Rec /\ m.loc \in Locs /\ m.id = call[c].args[n].id
    BY <1>3 DEF Val, Rec, IInv, Types
  <1>5. T \in SUBSET Keys
    BY <1>3, <1>4 DEF Calls, Keys
  <1>6. /\ F \in Seq(Rec)
        /\ {F[j].loc : j \in DOMAIN F} = FoundLocs(c) \cup locs
        /\ \A j \in DOMAIN F : \/ j \in DOMAIN call[c].found /\ F[j] = call[c].found[j]
                               \/ m # NoRec /\ F[j] = m
    <2> HIDE DEF m
    <2>1. call[c].found \in Seq(Rec)
      BY <1>3 DEF Calls
    <2>2. CASE m = NoRec
      BY <2>1, <2>2 DEF FoundLocs
    <2>3. CASE m # NoRec
      <3>1. F = Append(call[c].found, m) /\ m \in Rec /\ locs = {m.loc}
        BY <1>4, <2>3
      <3>2. DOMAIN F = DOMAIN call[c].found \cup {Len(call[c].found) + 1}
            /\ F[Len(call[c].found) + 1] = m
            /\ \A j \in DOMAIN call[c].found : F[j] = call[c].found[j]
        BY <2>1, <3>1
      <3>3. F \in Seq(Rec)
        BY <2>1, <3>1
      <3> HIDE DEF F, locs
      <3> QED BY <2>3, <3>1, <3>2, <3>3 DEF FoundLocs
    <2> QED BY <2>2, <2>3
  <1> HIDE DEF n, m, F, T
  <1>7. /\ x \in Calls /\ x.pc = pc /\ x.kind = "delete" /\ x.found = F /\ x.looked = n
        /\ x.args = call[c].args /\ x.todo = << >> /\ x.touches = T
        /\ pc \in {"look", "write"}
    <2>1. pc \in {"look", "write"} /\ n \in Nat
      BY <1>3
    <2> HIDE DEF pc
    <2> QED BY <1>3, <1>5, <1>6, <2>1 DEF Calls
  <1> HIDE DEF x
  <1>8. /\ call' \in [Clients -> Calls] /\ call'[c] = x
        /\ \A d \in Clients \ {c} : call'[d] = call[d]
    BY <1>2, <1>7, CallStep DEF IInv
  <1>9. Alone(c)
    BY <1>1, <1>8 DEF Alone
  <1>10. Overlaps' /\ tainted \subseteq tainted' /\ tainted' \subseteq Keys
    BY <1>1, <1>3, <1>5, <1>7, <1>8, TaintMeets DEF IInv
  <1>11. Types'
    <2>1. T = ArgKeys(call[c].args) \cup FoundLocs(c)'
      <3>1. FoundLocs(c)' = FoundLocs(c) \cup locs
        BY <1>6, <1>7, <1>8 DEF FoundLocs
      <3>2. T = call[c].touches \cup locs
        BY DEF T
      <3> QED BY <1>3, <3>1, <3>2 DEF Writing
    <2>2. Distinct(call[c].args)
          /\ \A j \in DOMAIN call[c].args : call[c].args[j].loc = NoRec
      BY <1>3 DEF Writing
    <2>3. n < Len(call[c].args) \/ (pc = "write" /\ n = Len(call[c].args))
      BY <1>3
    <2>4. Writing(c)'
      BY <1>3, <1>7, <1>8, <2>1, <2>2, <2>3 DEF Writing
    <2>5. Stage(c)'
      BY <1>7, <1>8, <2>4 DEF Stage
    <2>6. \A h \in Keys : flight'[h] # c
      BY <1>1, <1>3
    <2> QED BY <1>1, <1>8, <1>9, <1>10, <2>5, <2>6, AloneTypes DEF IInv, Types
  <1>12. Knows(c)'
    <2>1. SUFFICES ASSUME NEW j \in 1..n, store[call[c].args[j].id] # NoRec
                   PROVE  store[call[c].args[j].id].loc \in T \cup tainted'
      BY <1>1, <1>7, <1>8 DEF Knows
    <2>2. CASE j = n
      BY <2>1, <2>2 DEF m, T
    <2>3. CASE j # n
      <3>1. j \in 1..call[c].looked
        BY <1>3, <2>3
      <3>2. store[call[c].args[j].id].loc \in call[c].touches \cup tainted
        BY <1>1, <1>3, <2>1, <3>1 DEF IInv, Knows
      <3> QED BY <1>10, <3>2 DEF T
    <2> QED BY <2>2, <2>3
  <1>13. Finds(c)'
    <2>1. SUFFICES ASSUME NEW j \in DOMAIN F
                   PROVE  /\ \E p \in DOMAIN call[c].args : call[c].args[p].id = F[j].id
                          /\ F[j].loc \in tainted' \/ (store[F[j].id] # NoRec /\ store[F[j].id].loc = F[j].loc)
      BY <1>1, <1>7, <1>8 DEF Finds
    <2>2. CASE j \in DOMAIN call[c].found /\ F[j] = call[c].found[j]
      BY <1>1, <1>10, <2>2 DEF IInv, Finds
    <2>3. CASE m # NoRec /\ F[j] = m
      BY <1>3, <1>4, <2>3 DEF m
    <2> QED BY <1>6, <2>2, <2>3
  <1>14. Todo(c)'
    BY <1>7, <1>8 DEF Todo
  <1>15. \A d \in Clients : Fits(d)'
    BY <1>1, <1>7, <1>8, <1>9, FitsKept
  <1> QED BY <1>1, <1>8, <1>9, <1>10, <1>11, <1>12, <1>13, <1>14, <1>15, AloneIInv

LEMMA LookFailsIInv ==
  ASSUME IInv, NEW c \in Clients, LookFails(c)
  PROVE  IInv'
  <1> DEFINE n == call[c].looked + 1
             m == store[call[c].args[n].id]
             pc == IF n = Len(call[c].args) THEN "write" ELSE "look"
             x == [call[c] EXCEPT !.looked = n, !.pc = pc]
  <1>1. call[c].pc = "look" /\ UNCHANGED <<store, cell, pending, flight>>
        /\ tainted' = IF m = NoRec THEN tainted ELSE tainted \cup {m.loc}
    BY DEF LookFails, cache
  <1>2. call' = [call EXCEPT ![c] = x]
    BY DEF LookFails, IInv, Types
  <1>3. /\ call[c] \in Calls /\ Writing(c) /\ call[c].kind = "delete" /\ call[c].todo = << >>
        /\ n \in 1..Len(call[c].args) /\ n - 1 = call[c].looked /\ call[c].looked \in Nat
        /\ Len(call[c].args) \in Nat /\ DOMAIN call[c].args = 1..Len(call[c].args)
        /\ m \in Val /\ \A h \in Keys : flight[h] # c
    BY <1>1, LookingTypes
  <1>4. tainted \subseteq tainted' /\ tainted' \subseteq Keys /\ (m # NoRec => m.loc \in tainted')
    <2>1. m # NoRec => m.loc \in Keys
      BY <1>3 DEF Val, Rec, Keys
    <2> HIDE DEF m
    <2> QED BY <1>1, <2>1 DEF IInv, Types
  <1> HIDE DEF n, m
  <1>5. /\ x \in Calls /\ x.pc = pc /\ x.kind = "delete" /\ x.found = call[c].found /\ x.looked = n
        /\ x.args = call[c].args /\ x.todo = << >> /\ x.touches = call[c].touches
        /\ pc \in {"look", "write"}
    <2>1. pc \in {"look", "write"} /\ n \in Nat
      BY <1>3
    <2> HIDE DEF pc
    <2> QED BY <1>3, <2>1 DEF Calls
  <1> HIDE DEF x
  <1>6. /\ call' \in [Clients -> Calls] /\ call'[c] = x
        /\ \A d \in Clients \ {c} : call'[d] = call[d]
    BY <1>2, <1>5, CallStep DEF IInv
  <1>7. Alone(c)
    BY <1>1, <1>6 DEF Alone
  <1>8. Overlaps'
    <2>1. \A d \in Clients : call'[d].touches = call[d].touches /\ call'[d].kind = call[d].kind
      BY <1>3, <1>5, <1>6
    <2> QED BY <1>4, <2>1, Leaves DEF IInv
  <1>9. Types'
    <2>1. n < Len(call[c].args) \/ (pc = "write" /\ n = Len(call[c].args))
      BY <1>3
    <2>2. Writing(c)'
      BY <1>3, <1>5, <1>6, <2>1 DEF Writing, FoundLocs
    <2>3. Stage(c)'
      BY <1>5, <1>6, <2>2 DEF Stage
    <2>4. \A h \in Keys : flight'[h] # c
      BY <1>1, <1>3
    <2> QED BY <1>1, <1>4, <1>6, <1>7, <2>3, <2>4, AloneTypes DEF IInv, Types
  <1>10. Knows(c)'
    <2>1. SUFFICES ASSUME NEW j \in 1..n, store[call[c].args[j].id] # NoRec
                   PROVE  store[call[c].args[j].id].loc \in call[c].touches \cup tainted'
      BY <1>1, <1>5, <1>6 DEF Knows
    <2>2. CASE j = n
      BY <1>4, <2>1, <2>2 DEF m
    <2>3. CASE j # n
      <3>1. j \in 1..call[c].looked
        BY <1>3, <2>3
      <3>2. store[call[c].args[j].id].loc \in call[c].touches \cup tainted
        BY <1>1, <1>3, <2>1, <3>1 DEF IInv, Knows
      <3> QED BY <1>4, <3>2
    <2> QED BY <2>2, <2>3
  <1>11. Finds(c)'
    <2>1. Finds(c)
      BY DEF IInv
    <2> QED BY <1>1, <1>4, <1>5, <1>6, <2>1 DEF Finds
  <1>12. Todo(c)'
    BY <1>5, <1>6 DEF Todo
  <1>13. \A d \in Clients : Fits(d)'
    BY <1>1, <1>5, <1>6, <1>7, FitsKept
  <1> QED BY <1>1, <1>4, <1>6, <1>7, <1>8, <1>9, <1>10, <1>11, <1>12, <1>13, AloneIInv

\* What a write is called with.
LEMMA RequestTypes ==
  ASSUME NEW kind \in Kinds \ {"get", "getByKey"}, NEW args \in Requests(kind)
  PROVE  /\ Writes(kind) /\ kind \in AllKinds /\ args \in Seq(Arg)
         /\ kind \in {"create", "update"} => Len(args) = 1
         /\ kind = "update" => args[1].ver < MaxVer
         /\ kind = "delete" => Len(args) > 0 /\ \A j \in DOMAIN args : args[j].loc = NoRec
         /\ kind # "delete" => \A j \in DOMAIN args : args[j].loc \in Locs
  <1>1. kind \in {"create", "createMany", "update", "delete"} /\ Writes(kind) /\ kind \in AllKinds
    BY ConstantsAssumption DEF AllKinds, Writes
  <1>2. Creatable \subseteq Arg /\ Deletable \subseteq Arg /\ Rec \subseteq Arg
    BY ConstantsAssumption DEF Creatable, Deletable, Rec, Arg
  <1>3. ASSUME NEW S \in SUBSET Arg, args \in Lists(S)
        PROVE  args \in Seq(Arg) /\ Len(args) > 0 /\ \A j \in DOMAIN args : args[j] \in S
    <2>1. PICK n \in 1..MaxBatch : args \in [1..n -> S]
      BY <1>3 DEF Lists
    <2>2. args \in Seq(S) /\ Len(args) = n
      BY <2>1, ConstantsAssumption
    <2> QED BY <2>1, <2>2, ConstantsAssumption
  <1>4. CASE kind = "create"
    <2>1. PICK m \in Creatable : args = <<m>>
      BY <1>4 DEF Requests
    <2> QED BY <1>1, <1>2, <1>4, <2>1 DEF Creatable
  <1>5. CASE kind = "update"
    <2>1. PICK m \in Rec : args = <<m>> /\ m.ver < MaxVer
      BY <1>5 DEF Requests
    <2> QED BY <1>1, <1>2, <1>5, <2>1 DEF Rec
  <1>6. CASE kind = "createMany"
    <2>1. args \in Lists(Creatable)
      BY <1>6 DEF Requests
    <2>2. Creatable \in SUBSET Arg
      BY <1>2
    <2>3. args \in Seq(Arg) /\ Len(args) > 0 /\ \A j \in DOMAIN args : args[j] \in Creatable
      BY <1>3, <2>1, <2>2, Zenon
    <2> QED BY <1>1, <1>6, <2>3 DEF Creatable
  <1>7. CASE kind = "delete"
    <2>1. args \in Lists(Deletable)
      BY <1>7 DEF Requests
    <2>2. Deletable \in SUBSET Arg
      BY <1>2
    <2>3. args \in Seq(Arg) /\ Len(args) > 0 /\ \A j \in DOMAIN args : args[j] \in Deletable
      BY <1>3, <2>1, <2>2, Zenon
    <2> QED BY <1>1, <1>7, <2>3 DEF Deletable
  <1> QED BY <1>1, <1>4, <1>5, <1>6, <1>7

LEMMA ArgKeysTypes ==
  ASSUME NEW args \in Seq(Arg)
  PROVE  ArgKeys(args) \subseteq Keys
  <1>1. ASSUME NEW j \in DOMAIN args
        PROVE  {args[j].id, args[j].loc} \ {NoRec} \subseteq Keys
    <2>1. args[j] \in Arg
      OBVIOUS
    <2>2. args[j].id \in Ids /\ args[j].loc \in Locs \cup {NoRec}
      BY <2>1 DEF Arg
    <2> QED BY <2>2 DEF Keys
  <1> QED BY <1>1 DEF ArgKeys

LEMMA WriteFits ==
  ASSUME Types, OnePlace, NEW c \in Clients, \A d \in Clients : Fits(d),
         NEW args \in Seq(Arg), Distinct(args), Placeable(c, args),
         store' = store, call'[c].args = args, \A d \in Clients \ {c} : call'[d] = call[d],
         \A j \in DOMAIN args : args[j].loc \in Locs \cup {NoRec}
  PROVE  \A d \in Clients : Fits(d)'
  <1>1. ASSUME NEW j \in DOMAIN args, args[j].loc # NoRec,
               NEW i \in Ids, store[i] # NoRec, store[i].loc = args[j].loc
        PROVE  i = args[j].id
    <2>1. ValueIn(store, args[j].loc) = store[i]
      BY <1>1, ValueOfLoc DEF OnePlace
    <2> QED BY <1>1, <2>1 DEF Placeable, Types
  <1>2. Fits(c)'
    <2>1. \A j \in DOMAIN args : args[j].loc # NoRec =>
             \A d \in Clients \ {c} : \A k \in DOMAIN call[d].args :
                call[d].args[k].loc = args[j].loc => call[d].args[k].id = args[j].id
      BY DEF Placeable
    <2> QED BY <1>1, <2>1 DEF Fits
  <1>3. ASSUME NEW d \in Clients \ {c}
        PROVE  Fits(d)'
    <2>1. Fits(d) /\ call'[d].args = call[d].args
      OBVIOUS
    <2>2. ASSUME NEW j \in DOMAIN call[d].args, call[d].args[j].loc # NoRec,
                 NEW e \in Clients \ {d}, NEW k \in DOMAIN call'[e].args,
                 call'[e].args[k].loc = call[d].args[j].loc
          PROVE  call'[e].args[k].id = call[d].args[j].id
      <3>1. CASE e = c
        BY <2>2, <3>1 DEF Placeable
      <3>2. CASE e # c
        BY <2>1, <2>2, <3>2 DEF Fits
      <3> QED BY <3>1, <3>2
    <2> QED BY <2>1, <2>2 DEF Fits
  <1> QED BY <1>2, <1>3

LEMMA WriteIInv ==
  ASSUME IInv, NEW c \in Clients, NEW kind \in Kinds \ {"get", "getByKey"},
         NEW args \in Requests(kind), Write(c, kind, args)
  PROVE  IInv'
  <1> DEFINE T == ArgKeys(args)
             pc == IF kind = "delete" THEN "look" ELSE "write"
             x == [Idle EXCEPT !.pc = pc, !.kind = kind, !.args = args, !.touches = T]
  <1>1. /\ call[c].pc = "idle" /\ UNCHANGED <<store, cell, pending, flight>>
        /\ Distinct(args) /\ Placeable(c, args) /\ call' = [call EXCEPT ![c] = x]
        /\ tainted' = tainted \cup UNION {T \cup call[d].touches :
                          d \in {d \in Clients : call[d].touches \cap T # {}}}
    BY DEF Write, cache
  <1>2. /\ Writes(kind) /\ kind \in AllKinds /\ args \in Seq(Arg)
        /\ kind \in {"create", "update"} => Len(args) = 1
        /\ kind = "update" => args[1].ver < MaxVer
        /\ kind = "delete" => Len(args) > 0 /\ \A j \in DOMAIN args : args[j].loc = NoRec
        /\ kind # "delete" => \A j \in DOMAIN args : args[j].loc \in Locs
    BY RequestTypes
  <1>3. T \in SUBSET Keys
    BY <1>2, ArgKeysTypes
  <1>4. pc \in {"look", "write"} /\ (kind = "delete" <=> pc = "look")
    OBVIOUS
  <1> HIDE DEF T, pc
  <1>5. /\ x \in Calls /\ x.pc = pc /\ x.kind = kind /\ x.found = << >> /\ x.looked = 0
        /\ x.args = args /\ x.todo = << >> /\ x.touches = T
    BY <1>2, <1>3, <1>4, IdleCall DEF Calls
  <1> HIDE DEF x
  <1>6. /\ call' \in [Clients -> Calls] /\ call'[c] = x
        /\ \A d \in Clients \ {c} : call'[d] = call[d]
    BY <1>1, <1>5, CallStep DEF IInv
  <1>7. Alone(c)
    BY <1>1, <1>6 DEF Alone
  <1>8. tainted \subseteq tainted' /\ tainted' \subseteq Keys
    BY <1>1, <1>3 DEF IInv, Types, Calls
  <1>9. Overlaps'
    <2>1. ASSUME NEW d \in Clients \ {c}, call[d].touches \cap T # {}
          PROVE  T \cup call[d].touches \subseteq tainted'
      BY <1>1, <2>1
    <2> QED BY <1>5, <1>6, <1>8, <2>1, Meets DEF IInv
  <1>10. Types'
    <2>1. Writing(c)'
      <3>1. FoundLocs(c)' = {}
        BY <1>5, <1>6 DEF FoundLocs
      <3> QED BY <1>1, <1>2, <1>4, <1>5, <1>6, <3>1 DEF Writing, T
    <2>2. Stage(c)'
      BY <1>4, <1>5, <1>6, <2>1 DEF Stage
    <2>3. \A h \in Keys : flight'[h] # c
      BY <1>1 DEF IInv, Types
    <2> QED BY <1>1, <1>6, <1>7, <1>8, <2>2, <2>3, AloneTypes DEF IInv, Types
  <1>11. Knows(c)' /\ Finds(c)' /\ Todo(c)'
    BY <1>4, <1>5, <1>6 DEF Knows, Finds, Todo
  <1>12. \A d \in Clients : Fits(d)'
    <2>1. \A j \in DOMAIN args : args[j].loc \in Locs \cup {NoRec}
      BY <1>2
    <2> QED BY <1>1, <1>2, <1>5, <1>6, <2>1, WriteFits DEF IInv
  <1> QED BY <1>1, <1>6, <1>7, <1>8, <1>9, <1>10, <1>11, <1>12, AloneIInv

-----------------------------------------------------------------------------
(* The next cache write of a call. *)

CellsKept(k) ==
    /\ cell' \in [Keys -> Val \cup {Absent}]
    /\ \A h \in Keys : cell'[h] \in Under(h)
    /\ pending' \in [Keys -> Seq(Val \cup {Absent})]
    /\ \A h \in Keys : \A n \in 1..Len(pending'[h]) : pending'[h][n] \in Under(h)
    /\ \A h \in Keys \ {k} : cell'[h] = cell[h] /\ pending'[h] = pending[h]

\* A deletion settles its key whatever the store holds: nothing that is in the
\* buffer survives it.
LEMMA DeleteSettles ==
  ASSUME Types, NEW k \in Keys, CacheDelete(k)
  PROVE  CellsKept(k) /\ Settled(k)'
  <1> DEFINE q == IF pending[k] = << >> THEN << >> ELSE Append(pending[k], Absent)
  <1>1. /\ pending[k] \in Seq(Val \cup {Absent})
        /\ \A n \in 1..Len(pending[k]) : pending[k][n] \in Under(k)
        /\ Absent \in Under(k)
    BY DEF CacheDelete, Types, Under
  <1>2. cell' = [cell EXCEPT ![k] = Absent] /\ pending' = [pending EXCEPT ![k] = q]
    BY DEF CacheDelete
  <1>3. /\ q \in Seq(Val \cup {Absent}) /\ Len(q) \in Nat
        /\ q = << >> \/ (Len(q) >= 1 /\ q[Len(q)] = Absent)
        /\ \A n \in 1..Len(q) : q[n] \in Under(k)
    <2>1. CASE pending[k] = << >>
      BY <2>1
    <2>2. CASE pending[k] # << >>
      <3>1. q = Append(pending[k], Absent)
        BY <2>2
      <3>2. q \in Seq(Val \cup {Absent}) /\ Len(q) = Len(pending[k]) + 1 /\ q[Len(q)] = Absent
            /\ \A n \in 1..Len(pending[k]) : q[n] = pending[k][n]
        BY <1>1, <3>1
      <3> HIDE DEF q
      <3> QED BY <1>1, <3>2
    <2> QED BY <2>1, <2>2
  <1> HIDE DEF q
  <1>4. /\ cell'[k] = Absent /\ pending'[k] = q
        /\ \A h \in Keys \ {k} : cell'[h] = cell[h] /\ pending'[h] = pending[h]
    BY <1>2, <1>3 DEF Types
  <1>5. CellsKept(k)
    BY <1>1, <1>2, <1>3, <1>4, CellTypes DEF CellsKept
  <1>6. Settled(k)'
    <2>1. ASSUME NEW n \in 1..Len(q), \A m \in n..Len(q) : q[m] # Absent
          PROVE  FALSE
      BY <1>3, <2>1
    <2> QED BY <1>4, <2>1 DEF Settled
  <1> QED BY <1>5, <1>6

\* An entry keeps its key settled if it is what the store holds.
LEMMA SetSettles ==
  ASSUME Types, NEW k \in Keys, NEW v \in Under(k) \ {Absent}, CacheSet(k, v), store' = store
  PROVE  CellsKept(k) /\ (Settled(k) /\ v = ValueIn(store, k) => Settled(k)')
  <1>1. /\ pending[k] \in Seq(Val \cup {Absent})
        /\ Len(pending[k]) \in Nat /\ v \in Val
        /\ \A n \in 1..Len(pending[k]) : pending[k][n] \in Under(k)
        /\ cell[k] \in Under(k) /\ cell \in [Keys -> Val \cup {Absent}]
        /\ pending \in [Keys -> Seq(Val \cup {Absent})]
    BY DEF Types, Under, Val
  <1>2. CASE cell[k] # Absent
    <2>1. cell' = [cell EXCEPT ![k] = v] /\ pending' = [pending EXCEPT ![k] = pending[k]]
      BY <1>1, <1>2 DEF CacheSet
    <2>2. CellsKept(k)
      <3>1. \A h \in Keys \ {k} : cell'[h] = cell[h] /\ pending'[h] = pending[h]
        BY <1>1, <2>1
      <3> QED BY <1>1, <2>1, <3>1, CellTypes DEF CellsKept
    <2>3. cell'[k] = v /\ pending'[k] = pending[k]
      BY <1>1, <2>1
    <2> QED BY <2>2, <2>3 DEF Settled
  <1>3. CASE cell[k] = Absent
    <2> DEFINE q == IF HasRoom THEN Append(pending[k], v) ELSE pending[k]
    <2>1. cell' = [cell EXCEPT ![k] = cell[k]] /\ pending' = [pending EXCEPT ![k] = q]
      BY <1>1, <1>3 DEF CacheSet
    <2>2. /\ q \in Seq(Val \cup {Absent})
          /\ Len(q) \in Nat /\ Len(q) >= Len(pending[k])
          /\ \A n \in 1..Len(pending[k]) : q[n] = pending[k][n]
          /\ \A n \in 1..Len(q) : n > Len(pending[k]) => q[n] = v
      <3>1. CASE HasRoom
        <4>1. q = Append(pending[k], v)
          BY <3>1
        <4>2. /\ q \in Seq(Val \cup {Absent}) /\ Len(q) = Len(pending[k]) + 1 /\ q[Len(q)] = v
              /\ \A n \in 1..Len(pending[k]) : q[n] = pending[k][n]
          BY <1>1, <4>1
        <4> HIDE DEF q
        <4> QED BY <1>1, <4>2
      <3>2. CASE ~HasRoom
        BY <1>1, <3>2
      <3> QED BY <3>1, <3>2
    <2> HIDE DEF q
    <2>3. \A n \in 1..Len(q) : q[n] \in Under(k)
      BY <1>1, <2>2
    <2>4. \A h \in Keys \ {k} : cell'[h] = cell[h] /\ pending'[h] = pending[h]
      BY <1>1, <2>1
    <2>5. CellsKept(k)
      BY <1>1, <2>1, <2>2, <2>3, <2>4, CellTypes DEF CellsKept
    <2>6. cell'[k] = Absent /\ pending'[k] = q
      BY <1>1, <1>3, <2>1
    <2>7. ASSUME Settled(k), v = ValueIn(store, k)
          PROVE  Settled(k)'
      <3>1. ASSUME NEW n \in 1..Len(q), \A m \in n..Len(q) : q[m] # Absent
            PROVE  q[n] = ValueIn(store, k)
        <4>1. CASE n > Len(pending[k])
          BY <2>2, <2>7, <4>1
        <4>2. CASE n <= Len(pending[k])
          <5>1. n \in 1..Len(pending[k])
            BY <1>1, <4>2
          <5>2. ASSUME NEW m \in n..Len(pending[k])
                PROVE  pending[k][m] # Absent
            <6>1. m \in n..Len(q) /\ m \in 1..Len(pending[k])
              BY <1>1, <2>2, <5>1
            <6> QED BY <2>2, <3>1, <6>1
          <5>3. pending[k][n] = ValueIn(store, k)
            BY <2>7, <5>1, <5>2 DEF Settled
          <5> QED BY <2>2, <5>1, <5>3
        <4> QED BY <1>1, <4>1, <4>2
      <3> QED BY <2>6, <3>1 DEF Settled
    <2> QED BY <2>5, <2>7
  <1> QED BY <1>2, <1>3

LEMMA CacheWriteIInv ==
  ASSUME IInv, NEW c \in Clients, CacheWrite(c)
  PROVE  IInv'
  <1>a. PICK todo \in Seq(Entry) : todo = call[c].todo
    BY DEF IInv, Types, Calls
  <1>b. PICK w : w = Head(todo)
    OBVIOUS
  <1>c. PICK k : k = w.key
    OBVIOUS
  <1> DEFINE x == [call[c] EXCEPT !.todo = Tail(todo)]
  <1>1. /\ todo # << >> /\ call' = [call EXCEPT ![c] = x]
        /\ store' = store /\ flight' = flight /\ tainted' = tainted
        /\ call[c] \in Calls /\ todo \in Seq(Entry)
        /\ IF w.val = Absent THEN CacheDelete(k) ELSE CacheSet(k, w.val)
    BY <1>a, <1>b, <1>c DEF CacheWrite, IInv, Types, Calls
  <1>2. /\ Len(todo) \in Nat /\ Len(todo) >= 1 /\ w = todo[1] /\ w \in Entry
        /\ Tail(todo) \in Seq(Entry) /\ Len(Tail(todo)) = Len(todo) - 1
        /\ \A n \in 1..Len(Tail(todo)) : Tail(todo)[n] = todo[n + 1]
    BY <1>1, <1>b
  <1>3. /\ k \in Keys /\ w.val \in Under(k) /\ k \in call[c].touches
        /\ w.val # Absent /\ k \notin tainted => w.val = ValueIn(store, k)
    BY <1>2, <1>a, <1>c DEF IInv, Todo, Entry
  <1>4. CellsKept(k) /\ (k \notin tainted /\ (w.val = Absent \/ Settled(k)) => Settled(k)')
    <2>1. CASE w.val = Absent
      BY <1>1, <1>3, <2>1, DeleteSettles DEF IInv
    <2>2. CASE w.val # Absent
      BY <1>1, <1>3, <2>2, SetSettles DEF IInv
    <2> QED BY <2>1, <2>2
  <1>5. x \in Calls /\ x = [call[c] EXCEPT !.todo = Tail(todo)]
    <2> QED BY <1>1, <1>2 DEF Calls
  <1>6. /\ x.pc = call[c].pc /\ x.kind = call[c].kind /\ x.key = call[c].key /\ x.args = call[c].args
        /\ x.looked = call[c].looked /\ x.found = call[c].found /\ x.touches = call[c].touches
        /\ x.todo = Tail(todo)
    BY <1>1 DEF Calls
  <1> HIDE DEF x
  <1>7. /\ call' \in [Clients -> Calls] /\ call'[c] = x
        /\ \A d \in Clients \ {c} : call'[d] = call[d]
    BY <1>1, <1>5, CallStep DEF IInv
  <1>8. call[c].pc \in {"fill", "refresh"}
    BY <1>1, <1>a, IdleCall DEF IInv, Types, Stage, Reading, Writing, Calls
  <1>9. Types'
    <2>1. ASSUME NEW d \in Clients
          PROVE  Stage(d)'
      <3>1. CASE d # c
        BY <1>1, <1>7, <3>1 DEF IInv, Types, Stage, Reading, Writing, FoundLocs
      <3>2. CASE d = c
        <4>1. Stage(c)
          BY DEF IInv, Types
        <4>2. Reading(c) /\ call[c].pc = "fill" => Reading(c)'
          BY <1>1, <1>6, <1>7 DEF Reading
        <4>3. Writing(c) /\ call[c].pc = "refresh" => Writing(c)'
          BY <1>6, <1>7 DEF Writing, FoundLocs
        <4> QED BY <1>6, <1>7, <1>8, <3>2, <4>1, <4>2, <4>3 DEF Stage
      <3> QED BY <3>1, <3>2
    <2>2. \A h \in Keys, d \in Clients : flight'[h] = d => call'[d].pc \in {"load", "fill"} /\ call'[d].key = h
      BY <1>1, <1>6, <1>7 DEF IInv, Types
    <2> QED BY <1>1, <1>4, <1>7, <2>1, <2>2 DEF IInv, Types, CellsKept
  <1>10. OnePlace'
    BY <1>1 DEF IInv, OnePlace
  <1>11. ASSUME NEW d \in Clients
         PROVE  /\ call'[d].pc = call[d].pc /\ call'[d].kind = call[d].kind /\ call'[d].args = call[d].args
                /\ call'[d].looked = call[d].looked /\ call'[d].found = call[d].found
                /\ call'[d].touches = call[d].touches
                /\ \A n \in 1..Len(call'[d].todo) : \E m \in 1..Len(call[d].todo) : call'[d].todo[n] = call[d].todo[m]
    <2>1. CASE d # c
      BY <1>7, <2>1
    <2>2. CASE d = c
      <3>1. ASSUME NEW n \in 1..Len(Tail(todo))
            PROVE  \E m \in 1..Len(todo) : Tail(todo)[n] = todo[m]
        <4>1. n + 1 \in 1..Len(todo)
          BY <1>2
        <4> QED BY <1>2, <4>1
      <3>2. call'[d].todo = Tail(todo) /\ call[d].todo = todo
        BY <1>a, <1>6, <1>7, <2>2
      <3>3. \A n \in 1..Len(call'[d].todo) : \E m \in 1..Len(call[d].todo) : call'[d].todo[n] = call[d].todo[m]
        BY <3>1, <3>2
      <3> QED BY <1>6, <1>7, <2>2, <3>3
    <2> QED BY <2>1, <2>2
  <1>12. Overlaps'
    BY <1>1, <1>11, Leaves DEF IInv
  <1>13. ASSUME NEW d \in Clients
         PROVE  Fits(d)' /\ Knows(d)' /\ Finds(d)' /\ Todo(d)'
    <2>1. Fits(d) /\ Knows(d) /\ Finds(d) /\ Todo(d)
      BY DEF IInv
    <2>2. Fits(d)'
      BY <1>1, <1>11, <2>1 DEF Fits
    <2>3. Knows(d)' /\ Finds(d)'
      BY <1>1, <1>11, <2>1 DEF Knows, Finds
    <2>4. Todo(d)'
      BY <1>1, <1>11, <2>1 DEF Todo
    <2> QED BY <2>2, <2>3, <2>4
  <1>14. Fresh'
    <2>1. SUFFICES ASSUME NEW h \in Keys \ tainted
                   PROVE  Settled(h)' \/ \E d \in Clients : Invalidates(d, h)'
      BY <1>1 DEF Fresh
    <2>2. ASSUME NEW d \in Clients, Invalidates(d, h), d # c \/ w # Del(h)
          PROVE  Invalidates(d, h)'
      <3>1. CASE d # c
        BY <1>7, <2>2, <3>1 DEF Invalidates
      <3>2. CASE d = c
        <4>1. PICK n \in 1..Len(todo) : todo[n] = Del(h)
          BY <1>a, <2>2, <3>2 DEF Invalidates
        <4>2. n # 1
          BY <1>2, <2>2, <3>2, <4>1
        <4>3. n - 1 \in 1..Len(Tail(todo)) /\ (n - 1) + 1 = n
          BY <1>2, <4>2
        <4>4. Tail(todo)[n - 1] = Del(h)
          BY <1>2, <4>1, <4>3
        <4> QED BY <1>6, <1>7, <3>2, <4>3, <4>4 DEF Invalidates
      <3> QED BY <3>1, <3>2
    <2>3. CASE h # k
      <3>1. w # Del(h)
        BY <1>c, <2>3 DEF Del
      <3>2. Settled(h) => Settled(h)'
        BY <1>1, <1>4, <2>3 DEF Settled, CellsKept
      <3> QED BY <2>2, <3>1, <3>2 DEF IInv, Fresh
    <2>4. CASE h = k /\ w.val = Absent
      BY <1>4, <2>4
    <2>5. CASE h = k /\ w.val # Absent
      <3>1. w # Del(h)
        BY <2>5 DEF Del
      <3>2. Settled(h) => Settled(h)'
        BY <1>4, <2>5
      <3> QED BY <2>2, <3>1, <3>2 DEF IInv, Fresh
    <2> QED BY <2>3, <2>4, <2>5
  <1> QED BY <1>9, <1>10, <1>12, <1>13, <1>14 DEF IInv

-----------------------------------------------------------------------------
(* What a write leaves for the cache. *)

LEMMA Divided ==
  ASSUME NEW p \in Nat
  PROVE  /\ \A e \in 0..1 : (2 * p + e) \div 2 = p /\ (2 * p + e) % 2 = e
         /\ \A e \in 0..3 : (4 * p + e) \div 4 = p /\ (4 * p + e) % 4 = e
  <1>1. ASSUME NEW e \in 0..1
        PROVE  (2 * p + e) \div 2 = p /\ (2 * p + e) % 2 = e
    OBVIOUS
  <1>2. ASSUME NEW e \in 0..3
        PROVE  (4 * p + e) \div 4 = p /\ (4 * p + e) % 4 = e
    OBVIOUS
  <1> QED BY <1>1, <1>2

\* Every element of a run is met once the runs are put one after another.
LEMMA PairsInTurn ==
  ASSUME NEW runs \in Seq(Seq(Entry)), \A j \in 1..Len(runs) : Len(runs[j]) = 2
  PROVE  /\ InTurn(runs, 2) \in Seq(Entry)
         /\ \A n \in 1..Len(InTurn(runs, 2)) : \E j \in 1..Len(runs) :
               InTurn(runs, 2)[n] \in {runs[j][1], runs[j][2]}
         /\ \A j \in 1..Len(runs), r \in {1, 2} : \E n \in 1..Len(InTurn(runs, 2)) :
               InTurn(runs, 2)[n] = runs[j][r]
  <1> DEFINE N == 2 * Len(runs)
             at(n) == runs[((n - 1) \div 2) + 1][((n - 1) % 2) + 1]
  <1>1. Len(runs) \in Nat /\ N \in Nat /\ InTurn(runs, 2) = [n \in 1..N |-> at(n)]
    BY DEF InTurn
  <1>2. ASSUME NEW n \in 1..N
        PROVE  /\ at(n) \in Entry
               /\ \E j \in 1..Len(runs) : at(n) \in {runs[j][1], runs[j][2]}
    <2> DEFINE j == ((n - 1) \div 2) + 1
               r == ((n - 1) % 2) + 1
    <2>1. j \in 1..Len(runs) /\ r \in {1, 2}
      BY <1>1
    <2> HIDE DEF j, r
    <2>2. runs[j] \in Seq(Entry) /\ Len(runs[j]) = 2
      BY <2>1
    <2>3. runs[j][r] \in Entry
      BY <2>1, <2>2
    <2>4. at(n) = runs[j][r]
      BY DEF j, r
    <2> QED BY <2>1, <2>3, <2>4
  <1>3. ASSUME NEW j \in 1..Len(runs), NEW r \in {1, 2}
        PROVE  \E n \in 1..N : at(n) = runs[j][r]
    <2>1. PICK i : i = 2 * (j - 1) + r
      OBVIOUS
    <2>2. i \in 1..N
      BY <1>1, <2>1
    <2>3. (i - 1) \div 2 = j - 1 /\ (i - 1) % 2 = r - 1
      <3>1. PICK p \in Nat : p = j - 1
        BY <1>1
      <3>2. i - 1 = 2 * p + (r - 1) /\ r - 1 \in 0..1
        BY <1>1, <2>1, <3>1
      <3> QED BY <3>1, <3>2, Divided, Zenon
    <2>4. ((i - 1) \div 2) + 1 = j /\ ((i - 1) % 2) + 1 = r
      <3>1. (j - 1) + 1 = j /\ (r - 1) + 1 = r
        BY <1>1
      <3> QED BY <2>3, <3>1, Zenon
    <2> QED BY <2>2, <2>4
  <1> HIDE DEF N, at
  <1>4. InTurn(runs, 2) \in Seq(Entry) /\ Len(InTurn(runs, 2)) = N
        /\ \A n \in 1..N : InTurn(runs, 2)[n] = at(n)
    BY <1>1, <1>2
  <1>5. \A n \in 1..N : \E j \in 1..Len(runs) : at(n) \in {runs[j][1], runs[j][2]}
    BY <1>2
  <1>6. \A j \in 1..Len(runs), r \in {1, 2} : \E n \in 1..N : at(n) = runs[j][r]
    BY <1>3
  <1>7. \A n \in 1..Len(InTurn(runs, 2)) : \E j \in 1..Len(runs) :
           InTurn(runs, 2)[n] \in {runs[j][1], runs[j][2]}
    BY <1>4, <1>5
  <1>8. \A j \in 1..Len(runs), r \in {1, 2} : \E n \in 1..Len(InTurn(runs, 2)) :
           InTurn(runs, 2)[n] = runs[j][r]
    BY <1>4, <1>6, Zenon
  <1> QED BY <1>4, <1>7, <1>8, Zenon

LEMMA FoursInTurn ==
  ASSUME NEW runs \in Seq(Seq(Entry)), \A j \in 1..Len(runs) : Len(runs[j]) = 4
  PROVE  /\ InTurn(runs, 4) \in Seq(Entry)
         /\ \A n \in 1..Len(InTurn(runs, 4)) : \E j \in 1..Len(runs) :
               InTurn(runs, 4)[n] \in {runs[j][1], runs[j][2], runs[j][3], runs[j][4]}
         /\ \A j \in 1..Len(runs), r \in {1, 2, 3, 4} : \E n \in 1..Len(InTurn(runs, 4)) :
               InTurn(runs, 4)[n] = runs[j][r]
  <1> DEFINE N == 4 * Len(runs)
             at(n) == runs[((n - 1) \div 4) + 1][((n - 1) % 4) + 1]
  <1>1. Len(runs) \in Nat /\ N \in Nat /\ InTurn(runs, 4) = [n \in 1..N |-> at(n)]
    BY DEF InTurn
  <1>2. ASSUME NEW n \in 1..N
        PROVE  /\ at(n) \in Entry
               /\ \E j \in 1..Len(runs) : at(n) \in {runs[j][1], runs[j][2], runs[j][3], runs[j][4]}
    <2> DEFINE j == ((n - 1) \div 4) + 1
               r == ((n - 1) % 4) + 1
    <2>1. j \in 1..Len(runs) /\ r \in {1, 2, 3, 4}
      BY <1>1
    <2> HIDE DEF j, r
    <2>2. runs[j] \in Seq(Entry) /\ Len(runs[j]) = 4
      BY <2>1
    <2>3. runs[j][r] \in Entry
      BY <2>1, <2>2
    <2>4. at(n) = runs[j][r]
      BY DEF j, r
    <2> QED BY <2>1, <2>3, <2>4
  <1>3. ASSUME NEW j \in 1..Len(runs), NEW r \in {1, 2, 3, 4}
        PROVE  \E n \in 1..N : at(n) = runs[j][r]
    <2>1. PICK i : i = 4 * (j - 1) + r
      OBVIOUS
    <2>2. i \in 1..N
      BY <1>1, <2>1
    <2>3. (i - 1) \div 4 = j - 1 /\ (i - 1) % 4 = r - 1
      <3>1. PICK p \in Nat : p = j - 1
        BY <1>1
      <3>2. i - 1 = 4 * p + (r - 1) /\ r - 1 \in 0..3
        BY <1>1, <2>1, <3>1
      <3> QED BY <3>1, <3>2, Divided, Zenon
    <2>4. ((i - 1) \div 4) + 1 = j /\ ((i - 1) % 4) + 1 = r
      <3>1. (j - 1) + 1 = j /\ (r - 1) + 1 = r
        BY <1>1
      <3> QED BY <2>3, <3>1, Zenon
    <2> QED BY <2>2, <2>4
  <1> HIDE DEF N, at
  <1>4. InTurn(runs, 4) \in Seq(Entry) /\ Len(InTurn(runs, 4)) = N
        /\ \A n \in 1..N : InTurn(runs, 4)[n] = at(n)
    BY <1>1, <1>2
  <1>5. \A n \in 1..N : \E j \in 1..Len(runs) : at(n) \in {runs[j][1], runs[j][2], runs[j][3], runs[j][4]}
    BY <1>2
  <1>6. \A j \in 1..Len(runs), r \in {1, 2, 3, 4} : \E n \in 1..N : at(n) = runs[j][r]
    BY <1>3
  <1>7. \A n \in 1..Len(InTurn(runs, 4)) : \E j \in 1..Len(runs) :
           InTurn(runs, 4)[n] \in {runs[j][1], runs[j][2], runs[j][3], runs[j][4]}
    BY <1>4, <1>5
  <1>8. \A j \in 1..Len(runs), r \in {1, 2, 3, 4} : \E n \in 1..Len(InTurn(runs, 4)) :
           InTurn(runs, 4)[n] = runs[j][r]
    <2>1. SUFFICES ASSUME NEW j \in 1..Len(runs), NEW r \in {1, 2, 3, 4}
                   PROVE  \E n \in 1..Len(InTurn(runs, 4)) : InTurn(runs, 4)[n] = runs[j][r]
      OBVIOUS
    <2>2. PICK n \in 1..N : at(n) = runs[j][r]
      BY <1>3
    <2> QED BY <1>4, <2>2
  <1> QED BY <1>4, <1>7, <1>8, Zenon

\* What a deleted key comes to.
LEMMA NegateTypes ==
  ASSUME NEW k \in Keys
  PROVE  Negate(k) \in Seq(Entry) /\ Len(Negate(k)) = 2
         /\ Negate(k)[1] = Del(k) /\ Negate(k)[2] = Put(k, NoRec)
  <1>1. Del(k) \in Entry /\ Put(k, NoRec) \in Entry
    BY DEF Del, Put, Entry, Under, Val
  <1> HIDE DEF Del, Put
  <1> QED BY <1>1 DEF Negate

\* What a batch of written records comes to.
LEMMA Refreshes ==
  ASSUME NEW W \in Seq(Rec)
  PROVE  LET q == RefreshAll(W)
         IN  /\ q \in Seq(Entry)
             /\ \A i \in 1..Len(q) : \E j \in 1..Len(W) :
                   q[i] \in {Del(W[j].id), Del(W[j].loc), Put(W[j].id, W[j]), Put(W[j].loc, W[j])}
             /\ \A j \in 1..Len(W) : /\ \E i \in 1..Len(q) : q[i] = Del(W[j].id)
                                     /\ \E i \in 1..Len(q) : q[i] = Del(W[j].loc)
  <1> DEFINE runs == [j \in DOMAIN W |-> Refresh(W[j])]
             n == Len(W)
  <1>1. n \in Nat /\ DOMAIN W = 1..n
    OBVIOUS
  <1>2. ASSUME NEW j \in 1..n
        PROVE  /\ Refresh(W[j]) \in Seq(Entry) /\ Len(Refresh(W[j])) = 4
               /\ Refresh(W[j])[1] = Del(W[j].id) /\ Refresh(W[j])[2] = Del(W[j].loc)
               /\ Refresh(W[j])[3] = Put(W[j].id, W[j]) /\ Refresh(W[j])[4] = Put(W[j].loc, W[j])
    <2>1. W[j] \in Rec /\ W[j].id \in Keys /\ W[j].loc \in Keys
      <3>1. W[j] \in Rec
        BY <1>1
      <3> QED BY <3>1 DEF Rec, Keys
    <2>2. Del(W[j].id) \in Entry /\ Del(W[j].loc) \in Entry
          /\ Put(W[j].id, W[j]) \in Entry /\ Put(W[j].loc, W[j]) \in Entry
      BY <2>1 DEF Del, Put, Entry, Under, Val
    <2> HIDE DEF Del, Put
    <2> QED BY <2>2 DEF Refresh
  <1>3. /\ runs \in Seq(Seq(Entry)) /\ Len(runs) = n
        /\ \A j \in 1..n : /\ Len(runs[j]) = 4
                           /\ runs[j][1] = Del(W[j].id) /\ runs[j][2] = Del(W[j].loc)
                           /\ runs[j][3] = Put(W[j].id, W[j]) /\ runs[j][4] = Put(W[j].loc, W[j])
    BY <1>1, <1>2
  <1>4. RefreshAll(W) = InTurn(runs, 4)
    BY DEF RefreshAll
  <1> HIDE DEF runs, n
  <1>5. /\ InTurn(runs, 4) \in Seq(Entry)
        /\ \A i \in 1..Len(InTurn(runs, 4)) : \E j \in 1..n :
              InTurn(runs, 4)[i] \in {Del(W[j].id), Del(W[j].loc), Put(W[j].id, W[j]), Put(W[j].loc, W[j])}
        /\ \A j \in 1..n : /\ \E i \in 1..Len(InTurn(runs, 4)) : InTurn(runs, 4)[i] = Del(W[j].id)
                           /\ \E i \in 1..Len(InTurn(runs, 4)) : InTurn(runs, 4)[i] = Del(W[j].loc)
    <2>1. /\ InTurn(runs, 4) \in Seq(Entry)
          /\ \A i \in 1..Len(InTurn(runs, 4)) : \E j \in 1..Len(runs) :
                InTurn(runs, 4)[i] \in {runs[j][1], runs[j][2], runs[j][3], runs[j][4]}
          /\ \A j \in 1..Len(runs), r \in {1, 2, 3, 4} : \E i \in 1..Len(InTurn(runs, 4)) :
                InTurn(runs, 4)[i] = runs[j][r]
      BY <1>3, FoursInTurn
    <2>2. ASSUME NEW j \in 1..n
          PROVE  /\ \E i \in 1..Len(InTurn(runs, 4)) : InTurn(runs, 4)[i] = runs[j][1]
                 /\ \E i \in 1..Len(InTurn(runs, 4)) : InTurn(runs, 4)[i] = runs[j][2]
      BY <1>3, <2>1
    <2>3. ASSUME NEW i \in 1..Len(InTurn(runs, 4))
          PROVE  \E j \in 1..n : InTurn(runs, 4)[i] \in
                    {Del(W[j].id), Del(W[j].loc), Put(W[j].id, W[j]), Put(W[j].loc, W[j])}
      <3>1. PICK j \in 1..n : InTurn(runs, 4)[i] \in {runs[j][1], runs[j][2], runs[j][3], runs[j][4]}
        BY <1>3, <2>1
      <3> QED BY <1>3, <3>1
    <2>4. ASSUME NEW j \in 1..n
          PROVE  /\ \E i \in 1..Len(InTurn(runs, 4)) : InTurn(runs, 4)[i] = Del(W[j].id)
                 /\ \E i \in 1..Len(InTurn(runs, 4)) : InTurn(runs, 4)[i] = Del(W[j].loc)
      <3>1. runs[j][1] = Del(W[j].id) /\ runs[j][2] = Del(W[j].loc)
        BY <1>3
      <3> QED BY <2>2, <3>1
    <2> QED BY <2>1, <2>3, <2>4
  <1> QED BY <1>4, <1>5 DEF n

-----------------------------------------------------------------------------
(* A write takes effect in the store. *)

TakesEffect(c) ==
    /\ call[c].pc = "write" /\ store' = After(call[c].kind, call[c].args)
    /\ tainted \cup Left \subseteq tainted'
    /\ UNCHANGED <<cell, pending, flight>>

WrittenBy(c) == Written(call[c].kind, call[c].args)

Targets(c) == {call[c].args[j].id : j \in DOMAIN call[c].args}

LEMMA WriterTypes ==
  ASSUME Types, NEW c \in Clients, call[c].pc = "write"
  PROVE  /\ call[c] \in Calls /\ Writing(c) /\ call[c].args \in Seq(Arg) /\ call[c].todo = << >>
         /\ Targets(c) \subseteq Ids /\ Targets(c) \subseteq call[c].touches
         /\ \A j \in DOMAIN call[c].args : /\ call[c].args[j] \in Arg
                                           /\ call[c].args[j].loc # NoRec => call[c].args[j].loc \in call[c].touches
         /\ \A h \in Keys : flight[h] # c
  <1>1. call[c] \in Calls /\ Writing(c) /\ call[c].args \in Seq(Arg) /\ call[c].todo = << >>
        /\ \A h \in Keys : flight[h] # c
    BY DEF Types, Stage, Writing, Calls
  <1>2. ASSUME NEW j \in DOMAIN call[c].args
        PROVE  /\ call[c].args[j] \in Arg /\ call[c].args[j].id \in Ids
               /\ call[c].args[j].id \in call[c].touches
               /\ call[c].args[j].loc # NoRec => call[c].args[j].loc \in call[c].touches
    <2>1. call[c].args[j] \in Arg
      BY <1>1
    <2>2. call[c].args[j].id \in Ids /\ call[c].args[j].id # NoRec
      BY <2>1, IdsAndLocs DEF Arg, Keys
    <2>3. {call[c].args[j].id, call[c].args[j].loc} \ {NoRec} \subseteq ArgKeys(call[c].args)
      BY DEF ArgKeys
    <2>4. ArgKeys(call[c].args) \subseteq call[c].touches
      BY <1>1 DEF Writing
    <2> QED BY <2>1, <2>2, <2>3, <2>4
  <1> QED BY <1>1, <1>2 DEF Targets

\* The records a write leaves are those it was called with, Version apart.
LEMMA WrittenTypes ==
  ASSUME Types, NEW c \in Clients, call[c].pc = "write", call[c].kind # "delete"
  PROVE  /\ WrittenBy(c) \in Seq(Rec) /\ Len(WrittenBy(c)) = Len(call[c].args)
         /\ \A j \in DOMAIN call[c].args : /\ WrittenBy(c)[j].id = call[c].args[j].id
                                           /\ WrittenBy(c)[j].loc = call[c].args[j].loc
                                           /\ WrittenBy(c)[j] \in Rec /\ call[c].args[j].loc \in Locs
  <1> DEFINE args == call[c].args
  <1>1. /\ args \in Seq(Arg) /\ \A j \in DOMAIN args : args[j].loc \in Locs
        /\ call[c].kind = "update" => Len(args) = 1 /\ args[1].ver < MaxVer
    BY WriterTypes DEF Writing
  <1>2. ASSUME NEW j \in DOMAIN args
        PROVE  args[j] \in Arg /\ args[j] \in Rec
    <2>1. args[j] \in Arg /\ args[j].loc \in Locs
      BY <1>1
    <2> QED BY <2>1 DEF Arg, Rec
  <1> HIDE DEF args
  <1>3. CASE call[c].kind = "update"
    <2> DEFINE m == [args[1] EXCEPT !.ver = @ + 1]
    <2>1. /\ DOMAIN args = {1} /\ WrittenBy(c) = <<m>>
      BY <1>1, <1>3 DEF WrittenBy, Written, args
    <2>2. m \in Rec /\ m.id = args[1].id /\ m.loc = args[1].loc
      <3>1. args[1] \in Rec /\ args[1].ver < MaxVer
        BY <1>1, <1>2, <1>3, <2>1
      <3> QED BY <3>1, ConstantsAssumption DEF Rec
    <2> HIDE DEF m
    <2> QED BY <1>1, <1>3, <2>1, <2>2 DEF args
  <1>4. CASE call[c].kind # "update"
    <2>1. WrittenBy(c) = args
      BY <1>4 DEF WrittenBy, Written, args
    <2>2. args \in Seq(Rec)
      BY <1>1, <1>2
    <2> QED BY <1>1, <1>2, <2>1, <2>2 DEF args
  <1> QED BY <1>3, <1>4

LEMMA AfterShape ==
  ASSUME Types, NEW c \in Clients, TakesEffect(c)
  PROVE  /\ store' \in [Ids -> Val]
         /\ \A i \in Ids : store'[i] # NoRec => store'[i].id = i
         /\ \A i \in Ids \ Targets(c) : store'[i] = store[i]
         /\ call[c].kind = "delete" => \A i \in Targets(c) : store'[i] = NoRec
         /\ call[c].kind # "delete" => \A j \in DOMAIN call[c].args : store'[call[c].args[j].id] = WrittenBy(c)[j]
  <1> DEFINE args == call[c].args
             pick(i) == CHOOSE j \in DOMAIN args : args[j].id = i
             after(i) == IF \A j \in DOMAIN args : args[j].id # i THEN store[i]
                         ELSE IF call[c].kind = "delete" THEN NoRec ELSE WrittenBy(c)[pick(i)]
  <1>1. store' = [i \in Ids |-> after(i)]
    BY DEF TakesEffect, After, WrittenBy
  <1>2. \A i \in Ids : store'[i] = after(i)
    BY <1>1
  <1>3. \A i \in Ids \ Targets(c) : after(i) = store[i]
    BY DEF Targets
  <1>4. call[c].kind = "delete" => \A i \in Targets(c) : after(i) = NoRec
    BY DEF Targets
  <1>5. ASSUME NEW j \in DOMAIN args
        PROVE  pick(args[j].id) = j
    <2>1. \A k \in DOMAIN args : args[k].id = args[j].id => k = j
      BY WriterTypes DEF TakesEffect, Writing, Distinct
    <2>2. pick(args[j].id) \in DOMAIN args /\ args[pick(args[j].id)].id = args[j].id
      BY Zenon
    <2> HIDE DEF pick
    <2> QED BY <2>1, <2>2
  <1>6. call[c].kind # "delete" => \A j \in DOMAIN args : after(args[j].id) = WrittenBy(c)[j]
    BY <1>5
  <1>7. \A j \in DOMAIN args : args[j].id \in Ids
    BY WriterTypes DEF TakesEffect, Targets
  <1> HIDE DEF after
  <1>8. ASSUME NEW i \in Ids
        PROVE  after(i) \in Val /\ (after(i) # NoRec => after(i).id = i)
    <2>1. CASE i \notin Targets(c)
      BY <1>3, <2>1 DEF Types
    <2>2. CASE i \in Targets(c) /\ call[c].kind = "delete"
      BY <1>4, <2>2 DEF Val
    <2>3. CASE i \in Targets(c) /\ call[c].kind # "delete"
      <3>1. PICK j \in DOMAIN args : args[j].id = i
        BY <2>3 DEF Targets
      <3>2. after(i) = WrittenBy(c)[j]
        BY <1>6, <2>3, <3>1
      <3>3. WrittenBy(c)[j] \in Rec /\ WrittenBy(c)[j].id = i
        BY <2>3, <3>1, WrittenTypes DEF TakesEffect
      <3> QED BY <3>2, <3>3 DEF Val
    <2> QED BY <2>1, <2>2, <2>3
  <1>9. store' \in [Ids -> Val]
    BY <1>1, <1>8
  <1>10. \A i \in Targets(c) : i \in Ids
    BY WriterTypes DEF TakesEffect
  <1> QED BY <1>2, <1>3, <1>4, <1>6, <1>7, <1>8, <1>9, <1>10

\* Where a record is after the write: where it was, or where the call put it.
LEMMA PlaceAfter ==
  ASSUME Types, NEW c \in Clients, TakesEffect(c), NEW i \in Ids, store'[i] # NoRec
  PROVE  \/ i \notin Targets(c) /\ store[i] = store'[i]
         \/ call[c].kind # "delete" /\ \E j \in DOMAIN call[c].args :
               /\ i = call[c].args[j].id /\ store'[i].loc = call[c].args[j].loc
               /\ call[c].args[j].loc \in Locs /\ call[c].args[j].loc \in call[c].touches
  <1>1. CASE i \notin Targets(c)
    BY <1>1, AfterShape
  <1>2. CASE i \in Targets(c)
    <2>1. call[c].kind # "delete" /\ call[c].pc = "write"
      BY <1>2, AfterShape DEF TakesEffect
    <2>2. PICK j \in DOMAIN call[c].args : call[c].args[j].id = i
      BY <1>2 DEF Targets
    <2>3. store'[i] = WrittenBy(c)[j]
      BY <2>1, <2>2, AfterShape
    <2>4. store'[i].loc = call[c].args[j].loc /\ call[c].args[j].loc \in Locs
      BY <2>1, <2>2, <2>3, WrittenTypes
    <2>5. call[c].args[j].loc \in call[c].touches
      BY <2>1, <2>4, WriterTypes, IdsAndLocs DEF Keys
    <2> QED BY <2>1, <2>2, <2>4, <2>5
  <1> QED BY <1>1, <1>2

LEMMA OnePlaceAfter ==
  ASSUME IInv, NEW c \in Clients, TakesEffect(c)
  PROVE  OnePlace'
  <1>1. SUFFICES ASSUME NEW i \in Ids, NEW j \in Ids, store'[i] # NoRec, store'[j] # NoRec,
                        store'[i].loc = store'[j].loc
                 PROVE  i = j
    BY DEF OnePlace
  <1>2. ASSUME NEW a \in Ids, NEW b \in Ids, store'[a] # NoRec, store'[b] # NoRec,
               store'[a].loc = store'[b].loc, b \notin Targets(c), store[b] = store'[b],
               NEW p \in DOMAIN call[c].args, a = call[c].args[p].id,
               store'[a].loc = call[c].args[p].loc, call[c].args[p].loc \in Locs
        PROVE  a = b
    <2>1. call[c].args[p].loc # NoRec
      BY <1>2, IdsAndLocs DEF Keys
    <2> QED BY <1>2, <2>1 DEF IInv, Fits
  <1>3. Distinct(call[c].args)
    BY WriterTypes DEF IInv, TakesEffect, Writing
  <1>4. CASE i \notin Targets(c) /\ store[i] = store'[i] /\ j \notin Targets(c) /\ store[j] = store'[j]
    BY <1>1, <1>4 DEF IInv, OnePlace
  <1>5. ASSUME NEW p \in DOMAIN call[c].args, i = call[c].args[p].id,
               store'[i].loc = call[c].args[p].loc, call[c].args[p].loc \in Locs
        PROVE  i = j
    <2>1. CASE j \notin Targets(c) /\ store[j] = store'[j]
      BY <1>1, <1>2, <1>5, <2>1
    <2>2. ASSUME NEW q \in DOMAIN call[c].args, j = call[c].args[q].id,
                 store'[j].loc = call[c].args[q].loc
          PROVE  i = j
      <3>1. call[c].args[p].loc # NoRec
        BY <1>5, IdsAndLocs DEF Keys
      <3> QED BY <1>1, <1>3, <1>5, <2>2, <3>1 DEF Distinct
    <2> QED BY <1>1, <2>1, <2>2, PlaceAfter DEF IInv
  <1>6. ASSUME NEW p \in DOMAIN call[c].args, j = call[c].args[p].id,
               store'[j].loc = call[c].args[p].loc, call[c].args[p].loc \in Locs,
               i \notin Targets(c), store[i] = store'[i]
        PROVE  i = j
    BY <1>1, <1>2, <1>6
  <1> QED BY <1>1, <1>4, <1>5, <1>6, PlaceAfter DEF IInv

\* A key the write does not touch, and that is not tainted, keeps its value.
LEMMA ValueAfter ==
  ASSUME IInv, NEW c \in Clients, TakesEffect(c), NEW k \in Keys \ (call[c].touches \cup tainted')
  PROVE  ValueIn(store', k) = ValueIn(store, k)
  <1>1. call[c].pc = "write" /\ tainted \subseteq tainted' /\ Left \subseteq tainted'
    BY DEF TakesEffect
  <1>2. CASE k \in Ids
    <2>1. k \notin Targets(c)
      BY <1>1, WriterTypes DEF IInv
    <2>2. store'[k] = store[k]
      BY <1>2, <2>1, AfterShape DEF IInv
    <2> QED BY <1>2, <2>2, ValueOfId
  <1>3. CASE k \in Locs
    <2>1. ASSUME NEW i \in Ids, store[i] # NoRec, store[i].loc = k, i \in Targets(c)
          PROVE  FALSE
      <3>1. PICK j \in DOMAIN call[c].args : call[c].args[j].id = i
        BY <2>1 DEF Targets
      <3>2. CASE call[c].kind = "delete"
        <4>1. Knows(c) /\ call[c].looked = Len(call[c].args) /\ call[c].args \in Seq(Arg)
          BY <1>1, <3>2, WriterTypes DEF IInv, Writing
        <4>2. j \in 1..call[c].looked
          BY <3>1, <4>1
        <4> QED BY <1>1, <2>1, <3>1, <3>2, <4>1, <4>2 DEF Knows
      <3>3. CASE call[c].kind # "delete"
        <4>1. store'[i] = WrittenBy(c)[j] /\ WrittenBy(c)[j] \in Rec
          BY <1>1, <3>1, <3>3, AfterShape, WrittenTypes DEF IInv
        <4>2. store'[i] # NoRec
          BY <4>1, IdsAndLocs
        <4>3. store'[i].loc \in call[c].touches
          BY <2>1, <4>2, PlaceAfter DEF IInv
        <4>4. store[i].loc # store'[i].loc
          BY <2>1, <4>3
        <4>5. store[i].loc \in Left
          BY <2>1, <4>2, <4>4 DEF Left
        <4> QED BY <1>1, <2>1, <4>5
      <3> QED BY <3>2, <3>3
    <2>2. \A i \in Ids : store[i] # NoRec /\ store[i].loc = k => store'[i] = store[i]
      BY <2>1, AfterShape DEF IInv
    <2>3. \A i \in Ids : store'[i] # NoRec /\ store'[i].loc = k => store'[i] = store[i]
      BY PlaceAfter DEF IInv
    <2> QED BY <1>3, <2>2, <2>3, ValueKept DEF IInv, OnePlace
  <1> QED BY <1>2, <1>3 DEF Keys

\* A call that touches a target of the write is one it meets: both have tainted
\* what they touch.
LEMMA TargetsMeet ==
  ASSUME IInv, NEW c \in Clients, call[c].pc = "write", NEW d \in Clients \ {c},
         NEW k \in call[c].touches, k \in call[d].touches
  PROVE  call[c].touches \subseteq tainted /\ call[d].touches \subseteq tainted
  <1>1. Writes(call[c].kind)
    BY WriterTypes DEF IInv, Writing
  <1>2. Meet(c, d) /\ Meet(d, c)
    BY <1>1 DEF Meet
  <1> QED BY <1>2 DEF IInv, Overlaps

LEMMA FitsAfter ==
  ASSUME IInv, NEW c \in Clients, TakesEffect(c),
         \A d \in Clients : call'[d].args = call[d].args \/ call'[d].args = << >>
  PROVE  \A d \in Clients : Fits(d)'
  <1>1. ASSUME NEW d \in Clients, NEW j \in DOMAIN call[d].args, call[d].args[j].loc # NoRec,
               NEW i \in Ids, store'[i] # NoRec, store'[i].loc = call[d].args[j].loc
        PROVE  i = call[d].args[j].id
    <2>1. CASE i \notin Targets(c) /\ store[i] = store'[i]
      BY <1>1, <2>1 DEF IInv, Fits
    <2>2. ASSUME NEW p \in DOMAIN call[c].args, i = call[c].args[p].id,
                 store'[i].loc = call[c].args[p].loc
          PROVE  i = call[d].args[j].id
      <3>1. CASE d # c
        BY <1>1, <2>2, <3>1 DEF IInv, Fits
      <3>2. CASE d = c
        <4>1. Distinct(call[c].args)
          BY WriterTypes DEF IInv, TakesEffect, Writing
        <4> QED BY <1>1, <2>2, <3>2, <4>1 DEF Distinct
      <3> QED BY <3>1, <3>2
    <2> QED BY <1>1, <2>1, <2>2, PlaceAfter DEF IInv
  <1>2. ASSUME NEW d \in Clients
        PROVE  Fits(d)'
    <2>1. CASE call'[d].args = << >>
      BY <2>1 DEF Fits
    <2>2. CASE call'[d].args = call[d].args
      <3>1. Fits(d)
        BY DEF IInv
      <3>2. \A j \in DOMAIN call[d].args : call[d].args[j].loc # NoRec =>
               \A e \in Clients \ {d} : \A k \in DOMAIN call'[e].args :
                  call'[e].args[k].loc = call[d].args[j].loc => call'[e].args[k].id = call[d].args[j].id
        BY <3>1 DEF Fits
      <3> QED BY <1>1, <2>2, <3>2 DEF Fits
    <2> QED BY <2>1, <2>2
  <1> QED BY <1>2

LEMMA OthersAfter ==
  ASSUME IInv, NEW c \in Clients, TakesEffect(c), NEW d \in Clients \ {c}, call'[d] = call[d]
  PROVE  Knows(d)' /\ Finds(d)' /\ Todo(d)'
  <1>1. /\ call[c].pc = "write" /\ tainted \subseteq tainted'
        /\ Knows(d) /\ Finds(d) /\ Todo(d)
        /\ store' \in [Ids -> Val] /\ \A i \in Ids \ Targets(c) : store'[i] = store[i]
        /\ Targets(c) \subseteq call[c].touches
    BY AfterShape, WriterTypes DEF TakesEffect, IInv
  <1>2. ASSUME call[d].pc \in {"look", "write"}
        PROVE  /\ Writing(d) /\ call[d].args \in Seq(Arg)
               /\ \A n \in DOMAIN call[d].args : /\ call[d].args[n].id \in Ids
                                                 /\ call[d].args[n].id \in call[d].touches
    <2>1. Writing(d) /\ call[d].args \in Seq(Arg)
      BY <1>2 DEF IInv, Types, Stage, Calls
    <2>2. ASSUME NEW n \in DOMAIN call[d].args
          PROVE  /\ call[d].args[n].id \in Ids /\ call[d].args[n].id \in call[d].touches
      <3>1. call[d].args[n] \in Arg
        BY <2>1
      <3>2. call[d].args[n].id \in Ids /\ call[d].args[n].id # NoRec
        BY <3>1, IdsAndLocs DEF Arg, Keys
      <3>3. {call[d].args[n].id, call[d].args[n].loc} \ {NoRec} \subseteq ArgKeys(call[d].args)
        BY DEF ArgKeys
      <3> QED BY <2>1, <3>2, <3>3 DEF Writing
    <2> QED BY <2>1, <2>2
  <1>3. Knows(d)'
    <2>1. SUFFICES ASSUME call[d].kind = "delete", call[d].pc \in {"look", "write"},
                          NEW j \in 1..call[d].looked, store'[call[d].args[j].id] # NoRec
                   PROVE  store'[call[d].args[j].id].loc \in call[d].touches \cup tainted'
      BY DEF Knows
    <2> DEFINE i == call[d].args[j].id
    <2>2. j \in DOMAIN call[d].args
      <3>1. call[d].looked \in Nat /\ call[d].looked <= Len(call[d].args) /\ Len(call[d].args) \in Nat
        BY <1>2, <2>1 DEF Writing, IInv, Types, Calls
      <3> QED BY <1>2, <2>1, <3>1
    <2>3. i \in Ids /\ i \in call[d].touches
      BY <1>2, <2>1, <2>2
    <2> HIDE DEF i
    <2>4. CASE i \notin Targets(c)
      BY <1>1, <2>1, <2>3, <2>4 DEF Knows, i
    <2>5. CASE i \in Targets(c)
      <3>1. call[c].touches \subseteq tainted
        BY <1>1, <2>3, <2>5, TargetsMeet
      <3>2. store'[i].loc \in call[c].touches
        BY <2>1, <2>3, <2>5, PlaceAfter DEF i, IInv
      <3> QED BY <1>1, <3>1, <3>2 DEF i
    <2> QED BY <2>4, <2>5
  <1>4. Finds(d)'
    <2>1. SUFFICES ASSUME call[d].pc \in {"look", "write"}, NEW j \in DOMAIN call[d].found
                   PROVE  LET m == call[d].found[j]
                          IN  /\ \E n \in DOMAIN call[d].args : call[d].args[n].id = m.id
                              /\ m.loc \in tainted' \/ (store'[m.id] # NoRec /\ store'[m.id].loc = m.loc)
      BY DEF Finds
    <2> DEFINE m == call[d].found[j]
    <2>2. /\ \E n \in DOMAIN call[d].args : call[d].args[n].id = m.id
          /\ m.loc \in tainted \/ (store[m.id] # NoRec /\ store[m.id].loc = m.loc)
      BY <1>1, <2>1 DEF Finds
    <2>3. m.id \in Ids /\ m.id \in call[d].touches
      BY <1>2, <2>1, <2>2
    <2>4. m.loc \in call[d].touches
      BY <1>2, <2>1 DEF Writing, FoundLocs
    <2> HIDE DEF m
    <2>5. CASE m.id \notin Targets(c)
      BY <1>1, <2>2, <2>3, <2>5 DEF m
    <2>6. CASE m.id \in Targets(c)
      <3>1. call[d].touches \subseteq tainted
        BY <1>1, <2>3, <2>6, TargetsMeet
      <3> QED BY <1>1, <2>2, <2>4, <3>1 DEF m
    <2> QED BY <2>5, <2>6
  <1>5. Todo(d)'
    <2>1. ASSUME NEW n \in 1..Len(call[d].todo), call[d].todo[n].val # Absent, call[d].todo[n].key \notin tainted'
          PROVE  call[d].todo[n].val = ValueIn(store', call[d].todo[n].key)
      <3>1. /\ call[d].todo[n].key \in call[d].touches /\ call[d].touches \subseteq Keys
            /\ call[d].todo[n].val = ValueIn(store, call[d].todo[n].key)
        BY <1>1, <2>1 DEF Todo, IInv, Types, Calls
      <3>2. call[d].todo[n].key \notin call[c].touches
        BY <1>1, <2>1, <3>1, TargetsMeet
      <3> QED BY <2>1, <3>1, <3>2, ValueAfter
    <2> QED BY <1>1, <2>1 DEF Todo
  <1> QED BY <1>3, <1>4, <1>5

\* The keys the write does not touch stay settled, or their deletion is still
\* to come.
LEMMA FreshAfter ==
  ASSUME IInv, NEW c \in Clients, TakesEffect(c), \A d \in Clients \ {c} : call'[d] = call[d],
         NEW k \in Keys \ (call[c].touches \cup tainted')
  PROVE  Settled(k)' \/ \E d \in Clients : Invalidates(d, k)'
  <1>1. cell' = cell /\ pending' = pending /\ tainted \subseteq tainted' /\ call[c].todo = << >>
    BY WriterTypes DEF IInv, TakesEffect
  <1>2. CASE Settled(k)
    BY <1>1, <1>2, ValueAfter DEF Settled
  <1>3. CASE \E d \in Clients : Invalidates(d, k)
    BY <1>1, <1>3 DEF Invalidates
  <1> QED BY <1>1, <1>2, <1>3 DEF IInv, Fresh

\* What the call will write to the cache is what it left in the store, and
\* every key it touches is deleted from the cache first.
LEMMA WritesAfter ==
  ASSUME IInv, NEW c \in Clients, TakesEffect(c)
  PROVE  /\ CacheWrites(c) \in Seq(Entry)
         /\ \A n \in 1..Len(CacheWrites(c)) :
               LET w == CacheWrites(c)[n]
               IN  /\ w.key \in call[c].touches
                   /\ w.val # Absent /\ w.key \notin tainted => w.val = ValueIn(store', w.key)
         /\ \A k \in call[c].touches : \E n \in 1..Len(CacheWrites(c)) : CacheWrites(c)[n] = Del(k)
  <1> DEFINE args == call[c].args
             found == call[c].found
             q == CacheWrites(c)
  <1>1. /\ call[c].pc = "write" /\ Writing(c) /\ args \in Seq(Arg) /\ found \in Seq(Rec)
        /\ Len(args) \in Nat /\ DOMAIN args = 1..Len(args)
        /\ Len(found) \in Nat /\ DOMAIN found = 1..Len(found)
        /\ \A j \in 1..Len(args) : args[j].id \in Ids /\ args[j].id \in Keys /\ args[j].id \in call[c].touches
    <2>1. /\ call[c].pc = "write" /\ Writing(c) /\ args \in Seq(Arg) /\ found \in Seq(Rec)
          /\ Targets(c) \subseteq Ids /\ Targets(c) \subseteq call[c].touches
      BY WriterTypes DEF TakesEffect, IInv, Calls
    <2>2. /\ Len(args) \in Nat /\ DOMAIN args = 1..Len(args)
          /\ Len(found) \in Nat /\ DOMAIN found = 1..Len(found)
      BY <2>1
    <2> QED BY <2>1, <2>2 DEF Targets, Keys
  <1>2. call[c].touches = ArgKeys(args) \cup FoundLocs(c)
    BY <1>1 DEF Writing
  <1>3. CASE call[c].kind = "delete"
    <2>1. q = NegateIds(args) \o NegateLocs(found)
      BY <1>3 DEF CacheWrites
    <2>2. PICK ids : ids = [j \in 1..Len(args) |-> args[j].id]
      OBVIOUS
    <2>3. PICK locs : locs = [j \in 1..Len(found) |-> found[j].loc]
      OBVIOUS
    <2>4. /\ \A j \in 1..Len(args) : ids[j] = args[j].id /\ ids[j] \in Keys
          /\ \A j \in 1..Len(found) : locs[j] = found[j].loc /\ locs[j] \in Keys /\ locs[j] \in Locs
      <3>1. \A j \in 1..Len(found) : found[j] \in Rec
        BY <1>1
      <3>2. \A j \in 1..Len(found) : found[j].loc \in Locs
        BY <3>1 DEF Rec
      <3> QED BY <1>1, <2>2, <2>3, <3>2 DEF Keys
    <2>5a. PICK idRuns \in Seq(Seq(Entry)) :
             /\ NegateIds(args) = InTurn(idRuns, 2) /\ Len(idRuns) = Len(args)
             /\ \A j \in 1..Len(args) : idRuns[j] = Negate(ids[j])
      <3> DEFINE runs == [j \in DOMAIN args |-> Negate(args[j].id)]
      <3>1. \A j \in 1..Len(args) : Negate(args[j].id) \in Seq(Entry)
        BY <1>1, NegateTypes
      <3>2. runs \in Seq(Seq(Entry)) /\ Len(runs) = Len(args)
            /\ \A j \in 1..Len(args) : runs[j] = Negate(ids[j])
        BY <1>1, <2>4, <3>1
      <3>3. NegateIds(args) = InTurn(runs, 2)
        BY DEF NegateIds
      <3> HIDE DEF runs
      <3> QED BY <3>2, <3>3
    <2>5b. PICK locRuns \in Seq(Seq(Entry)) :
             /\ NegateLocs(found) = InTurn(locRuns, 2) /\ Len(locRuns) = Len(found)
             /\ \A j \in 1..Len(found) : locRuns[j] = Negate(locs[j])
      <3> DEFINE runs == [j \in DOMAIN found |-> Negate(found[j].loc)]
      <3>1. \A j \in 1..Len(found) : Negate(found[j].loc) \in Seq(Entry)
        BY <2>4, NegateTypes
      <3>2. runs \in Seq(Seq(Entry)) /\ Len(runs) = Len(found)
            /\ \A j \in 1..Len(found) : runs[j] = Negate(locs[j])
        BY <1>1, <2>4, <3>1
      <3>3. NegateLocs(found) = InTurn(runs, 2)
        BY DEF NegateLocs
      <3> HIDE DEF runs
      <3> QED BY <3>2, <3>3
    <2>6. PICK a : a = NegateIds(args)
      OBVIOUS
    <2>7. PICK b : b = NegateLocs(found)
      OBVIOUS
    <2>8. /\ a \in Seq(Entry)
          /\ \A i \in 1..Len(a) : \E j \in 1..Len(args) : a[i] \in {Del(ids[j]), Put(ids[j], NoRec)}
          /\ \A j \in 1..Len(args) : \E i \in 1..Len(a) : a[i] = Del(ids[j])
      <3>1. \A j \in 1..Len(idRuns) : /\ Len(idRuns[j]) = 2
                                     /\ idRuns[j][1] = Del(ids[j]) /\ idRuns[j][2] = Put(ids[j], NoRec)
        BY <2>4, <2>5a, NegateTypes
      <3>2. /\ a \in Seq(Entry)
            /\ \A i \in 1..Len(a) : \E j \in 1..Len(idRuns) : a[i] \in {idRuns[j][1], idRuns[j][2]}
            /\ \A j \in 1..Len(idRuns), r \in {1, 2} : \E i \in 1..Len(a) : a[i] = idRuns[j][r]
        <4>1. \A j \in 1..Len(idRuns) : Len(idRuns[j]) = 2
          BY <3>1
        <4>2. /\ InTurn(idRuns, 2) \in Seq(Entry)
              /\ \A i \in 1..Len(InTurn(idRuns, 2)) : \E j \in 1..Len(idRuns) :
                    InTurn(idRuns, 2)[i] \in {idRuns[j][1], idRuns[j][2]}
              /\ \A j \in 1..Len(idRuns), r \in {1, 2} : \E i \in 1..Len(InTurn(idRuns, 2)) :
                    InTurn(idRuns, 2)[i] = idRuns[j][r]
          BY <4>1, PairsInTurn, Zenon
        <4>3. a = InTurn(idRuns, 2)
          BY <2>5a, <2>6
        <4> QED BY <4>2, <4>3, Zenon
      <3>3. ASSUME NEW i \in 1..Len(a)
            PROVE  \E j \in 1..Len(idRuns) : a[i] \in {Del(ids[j]), Put(ids[j], NoRec)}
        BY <3>1, <3>2
      <3>4. ASSUME NEW j \in 1..Len(idRuns)
            PROVE  \E i \in 1..Len(a) : a[i] = Del(ids[j])
        <4>1. \E i \in 1..Len(a) : a[i] = idRuns[j][1]
          BY <3>2
        <4> QED BY <3>1, <4>1
      <3> QED BY <2>5a, <3>2, <3>3, <3>4
    <2>9. /\ b \in Seq(Entry)
          /\ \A i \in 1..Len(b) : \E j \in 1..Len(found) : b[i] \in {Del(locs[j]), Put(locs[j], NoRec)}
          /\ \A j \in 1..Len(found) : \E i \in 1..Len(b) : b[i] = Del(locs[j])
      <3>1. \A j \in 1..Len(locRuns) : /\ Len(locRuns[j]) = 2
                                     /\ locRuns[j][1] = Del(locs[j]) /\ locRuns[j][2] = Put(locs[j], NoRec)
        BY <2>4, <2>5b, NegateTypes
      <3>2. /\ b \in Seq(Entry)
            /\ \A i \in 1..Len(b) : \E j \in 1..Len(locRuns) : b[i] \in {locRuns[j][1], locRuns[j][2]}
            /\ \A j \in 1..Len(locRuns), r \in {1, 2} : \E i \in 1..Len(b) : b[i] = locRuns[j][r]
        <4>1. \A j \in 1..Len(locRuns) : Len(locRuns[j]) = 2
          BY <3>1
        <4>2. /\ InTurn(locRuns, 2) \in Seq(Entry)
              /\ \A i \in 1..Len(InTurn(locRuns, 2)) : \E j \in 1..Len(locRuns) :
                    InTurn(locRuns, 2)[i] \in {locRuns[j][1], locRuns[j][2]}
              /\ \A j \in 1..Len(locRuns), r \in {1, 2} : \E i \in 1..Len(InTurn(locRuns, 2)) :
                    InTurn(locRuns, 2)[i] = locRuns[j][r]
          BY <4>1, PairsInTurn, Zenon
        <4>3. b = InTurn(locRuns, 2)
          BY <2>5b, <2>7
        <4> QED BY <4>2, <4>3, Zenon
      <3>3. ASSUME NEW i \in 1..Len(b)
            PROVE  \E j \in 1..Len(locRuns) : b[i] \in {Del(locs[j]), Put(locs[j], NoRec)}
        BY <3>1, <3>2
      <3>4. ASSUME NEW j \in 1..Len(locRuns)
            PROVE  \E i \in 1..Len(b) : b[i] = Del(locs[j])
        <4>1. \E i \in 1..Len(b) : b[i] = locRuns[j][1]
          BY <3>2
        <4> QED BY <3>1, <4>1
      <3> QED BY <2>5b, <3>2, <3>3, <3>4
    <2>10. /\ q = a \o b /\ q \in Seq(Entry) /\ Len(a) \in Nat /\ Len(b) \in Nat
           /\ Len(q) = Len(a) + Len(b)
           /\ \A i \in 1..Len(a) : q[i] = a[i]
           /\ \A i \in 1..Len(b) : q[Len(a) + i] = b[i]
      BY <2>1, <2>6, <2>7, <2>8, <2>9
    <2> HIDE DEF q, args, found
    <2>11. \A i \in 1..Len(q) : i \in 1..Len(a) \/ \E e \in 1..Len(b) : i = Len(a) + e
      <3>1. ASSUME NEW i \in 1..Len(q), i \notin 1..Len(a)
            PROVE  i - Len(a) \in 1..Len(b) /\ i = Len(a) + (i - Len(a))
        BY <2>10, <3>1
      <3> QED BY <3>1
    <2>12. ASSUME NEW j \in 1..Len(args)
           PROVE  ids[j] \in call[c].touches /\ ValueIn(store', ids[j]) = NoRec
      <3>1. ids[j] \in Targets(c) /\ ids[j] \in Ids /\ ids[j] \in call[c].touches
        BY <1>1, <2>4 DEF Targets, args
      <3>2. store'[ids[j]] = NoRec
        BY <1>3, <3>1, AfterShape DEF IInv
      <3> QED BY <3>1, <3>2, ValueOfId
    <2>13. ASSUME NEW j \in 1..Len(found)
           PROVE  /\ locs[j] \in call[c].touches
                  /\ locs[j] \notin tainted => ValueIn(store', locs[j]) = NoRec
      <3>1. locs[j] \in call[c].touches
        BY <1>1, <1>2, <2>4 DEF FoundLocs, found
      <3>2. ASSUME locs[j] \notin tainted, NEW i \in Ids, store'[i] # NoRec, store'[i].loc = locs[j]
            PROVE  FALSE
        <4>1. PICK h \in Targets(c) : h = found[j].id /\ store[h] # NoRec /\ store[h].loc = locs[j]
          <5>1. Finds(c)
            BY DEF IInv
          <5>2. /\ \E n \in DOMAIN call[c].args : call[c].args[n].id = found[j].id
                /\ locs[j] \in tainted \/ (store[found[j].id] # NoRec /\ store[found[j].id].loc = locs[j])
            BY <1>1, <2>4, <5>1 DEF Finds, found
          <5> QED BY <3>2, <5>2 DEF Targets
        <4>2. h \in Ids
          BY <1>1, WriterTypes DEF IInv
        <4>3. i \notin Targets(c) /\ store[i] = store'[i]
          BY <1>3, <3>2, PlaceAfter DEF IInv
        <4>4. i = h
          BY <3>2, <4>1, <4>2, <4>3 DEF IInv, OnePlace
        <4> QED BY <4>1, <4>3, <4>4
      <3> QED BY <2>4, <3>1, <3>2, ValueOfFreeLoc
    <2>14. ASSUME NEW i \in 1..Len(q)
           PROVE  /\ q[i].key \in call[c].touches
                  /\ q[i].val # Absent /\ q[i].key \notin tainted => q[i].val = ValueIn(store', q[i].key)
      <3>1. CASE i \in 1..Len(a)
        <4>1. PICK j \in 1..Len(args) : q[i] \in {Del(ids[j]), Put(ids[j], NoRec)}
          BY <2>8, <2>10, <3>1
        <4> QED BY <2>12, <4>1 DEF Del, Put
      <3>2. ASSUME NEW e \in 1..Len(b), i = Len(a) + e
            PROVE  /\ q[i].key \in call[c].touches
                   /\ q[i].val # Absent /\ q[i].key \notin tainted => q[i].val = ValueIn(store', q[i].key)
        <4>1. PICK j \in 1..Len(found) : q[i] \in {Del(locs[j]), Put(locs[j], NoRec)}
          BY <2>9, <2>10, <3>2
        <4> QED BY <2>13, <4>1 DEF Del, Put
      <3> QED BY <2>11, <3>1, <3>2
    <2>15. ASSUME NEW k \in call[c].touches
           PROVE  \E n \in 1..Len(q) : q[n] = Del(k)
      <3>1. CASE k \in ArgKeys(args)
        <4>1. PICK j \in 1..Len(args) : k \in {args[j].id, args[j].loc} \ {NoRec}
          BY <1>1, <3>1 DEF ArgKeys
        <4>2. k = ids[j]
          BY <1>1, <1>3, <2>4, <4>1 DEF Writing, args
        <4>3. PICK n \in 1..Len(a) : a[n] = Del(k)
          BY <2>8, <4>2
        <4>4. n \in 1..Len(q)
          BY <2>10
        <4> QED BY <2>10, <4>3, <4>4
      <3>2. CASE k \in FoundLocs(c)
        <4>1. PICK j \in 1..Len(found) : k = locs[j]
          BY <1>1, <2>4, <3>2 DEF FoundLocs, found
        <4>2. PICK n \in 1..Len(b) : b[n] = Del(k)
          BY <2>9, <4>1
        <4>3. Len(a) + n \in 1..Len(q)
          BY <2>10
        <4> QED BY <2>10, <4>2, <4>3
      <3> QED BY <1>2, <3>1, <3>2
    <2> QED BY <2>10, <2>14, <2>15 DEF q
  <1>4. CASE call[c].kind # "delete"
    <2>1. PICK W : W = WrittenBy(c)
      OBVIOUS
    <2>2. /\ W \in Seq(Rec) /\ Len(W) = Len(args)
          /\ \A j \in 1..Len(args) : /\ W[j].id = args[j].id /\ W[j].loc = args[j].loc
                                     /\ W[j] \in Rec /\ W[j].id \in Ids /\ W[j].loc \in Locs
                                     /\ store'[W[j].id] = W[j]
      <3>1. /\ W \in Seq(Rec) /\ Len(W) = Len(args)
            /\ \A j \in 1..Len(args) : W[j].id = args[j].id /\ W[j].loc = args[j].loc /\ W[j] \in Rec
        BY <1>1, <1>4, <2>1, WrittenTypes DEF IInv
      <3>2. \A j \in 1..Len(args) : store'[args[j].id] = W[j]
        BY <1>1, <1>4, <2>1, AfterShape DEF IInv
      <3> QED BY <3>1, <3>2 DEF Rec
    <2>3. q = RefreshAll(W)
      BY <1>4, <2>1 DEF CacheWrites, WrittenBy
    <2> HIDE DEF q, args, found
    <2>4. /\ q \in Seq(Entry)
          /\ \A i \in 1..Len(q) : \E j \in 1..Len(args) :
                q[i] \in {Del(W[j].id), Del(W[j].loc), Put(W[j].id, W[j]), Put(W[j].loc, W[j])}
          /\ \A j \in 1..Len(args) : /\ \E i \in 1..Len(q) : q[i] = Del(W[j].id)
                                     /\ \E i \in 1..Len(q) : q[i] = Del(W[j].loc)
      BY <2>2, <2>3, Refreshes
    <2>5. ASSUME NEW j \in 1..Len(args)
          PROVE  /\ W[j].id \in call[c].touches /\ W[j].loc \in call[c].touches
                 /\ ValueIn(store', W[j].id) = W[j] /\ ValueIn(store', W[j].loc) = W[j]
      <3>1. W[j].id \in call[c].touches /\ ValueIn(store', W[j].id) = W[j]
        BY <1>1, <2>2, ValueOfId
      <3>2. W[j].loc \in call[c].touches
        BY <1>1, <2>2, WriterTypes, IdsAndLocs DEF IInv, args, Keys
      <3>3. OnePlace' /\ store'[W[j].id] # NoRec
        BY <2>2, OnePlaceAfter, IdsAndLocs
      <3>4. ValueIn(store', W[j].loc) = store'[W[j].id]
        BY <2>2, <3>3, ValueOfLoc DEF OnePlace
      <3> QED BY <2>2, <3>1, <3>2, <3>4
    <2>6. ASSUME NEW i \in 1..Len(q)
          PROVE  /\ q[i].key \in call[c].touches
                 /\ q[i].val # Absent /\ q[i].key \notin tainted => q[i].val = ValueIn(store', q[i].key)
      <3>1. PICK j \in 1..Len(args) :
               q[i] \in {Del(W[j].id), Del(W[j].loc), Put(W[j].id, W[j]), Put(W[j].loc, W[j])}
        BY <2>4
      <3> QED BY <2>5, <3>1 DEF Del, Put
    <2>7. ASSUME NEW k \in call[c].touches
          PROVE  \E n \in 1..Len(q) : q[n] = Del(k)
      <3>1. FoundLocs(c) = {}
        BY <1>1, <1>4 DEF Writing, FoundLocs
      <3>2. PICK j \in 1..Len(args) : k \in {args[j].id, args[j].loc} \ {NoRec}
        BY <1>1, <1>2, <3>1 DEF ArgKeys
      <3>3. k = W[j].id \/ k = W[j].loc
        BY <2>2, <3>2
      <3> QED BY <2>4, <3>3
    <2> QED BY <2>4, <2>6, <2>7 DEF q
  <1> QED BY <1>3, <1>4

LEMMA StageKept ==
  ASSUME Types, NEW d \in Clients, call'[d] = call[d], flight' = flight
  PROVE  Stage(d)'
  <1>1. Stage(d)
    BY DEF Types
  <1>2. Reading(d) => Reading(d)'
    BY DEF Reading
  <1>3. Writing(d) => Writing(d)'
    BY DEF Writing, FoundLocs
  <1> QED BY <1>1, <1>2, <1>3 DEF Stage

LEMMA StoreWriteIInv ==
  ASSUME IInv, NEW c \in Clients, StoreWrite(c)
  PROVE  IInv'
  <1>1. call[c].pc = "write" /\ UNCHANGED <<cell, pending, flight>>
    BY DEF StoreWrite, cache
  <1>2. CASE Verdict(call[c].kind, call[c].args) # "ok"
    BY <1>1, <1>2, ReturnIInv DEF StoreWrite
  <1>3. CASE Verdict(call[c].kind, call[c].args) = "ok"
    <2> DEFINE x == [call[c] EXCEPT !.pc = "refresh", !.todo = CacheWrites(c)]
    <2>1. /\ store' = After(call[c].kind, call[c].args) /\ tainted' = tainted \cup Left
          /\ call' = [call EXCEPT ![c].pc = "refresh", ![c].todo = CacheWrites(c)]
      BY <1>3 DEF StoreWrite
    <2>2. TakesEffect(c)
      BY <1>1, <2>1 DEF TakesEffect
    <2>3. call' = [call EXCEPT ![c] = x]
      BY <2>1 DEF IInv, Types
    <2>4. /\ call[c] \in Calls /\ Writing(c) /\ call[c].todo = << >> /\ \A h \in Keys : flight[h] # c
          /\ CacheWrites(c) \in Seq(Entry)
      BY <1>1, <2>2, WriterTypes, WritesAfter DEF IInv
    <2>5. /\ x \in Calls /\ x.pc = "refresh" /\ x.kind = call[c].kind /\ x.key = call[c].key
          /\ x.args = call[c].args /\ x.looked = call[c].looked /\ x.found = call[c].found
          /\ x.touches = call[c].touches /\ x.todo = CacheWrites(c)
      BY <2>4 DEF Calls
    <2> HIDE DEF x
    <2>6. /\ call' \in [Clients -> Calls] /\ call'[c] = x
          /\ \A d \in Clients \ {c} : call'[d] = call[d]
      BY <2>3, <2>5, CallStep DEF IInv
    <2>7. tainted \subseteq tainted' /\ tainted' \subseteq Keys
      <3>1. Left \subseteq Keys
        BY DEF Left, IInv, Types, Val, Rec, Keys
      <3> QED BY <2>1, <3>1 DEF IInv, Types
    <2>8. Types'
      <3>1. ASSUME NEW d \in Clients
            PROVE  Stage(d)'
        <4>1. CASE d = c
          <5>1. Writing(c)'
            BY <2>4, <2>5, <2>6 DEF Writing, FoundLocs
          <5> QED BY <2>5, <2>6, <4>1, <5>1 DEF Stage
        <4>2. CASE d # c
          BY <1>1, <2>6, <4>2, StageKept DEF IInv
        <4> QED BY <4>1, <4>2
      <3>2. \A h \in Keys, d \in Clients : flight'[h] = d => call'[d].pc \in {"load", "fill"} /\ call'[d].key = h
        BY <1>1, <2>4, <2>6 DEF IInv, Types
      <3>3. store' \in [Ids -> Val] /\ \A i \in Ids : store'[i] # NoRec => store'[i].id = i
        BY <2>2, AfterShape DEF IInv
      <3> QED BY <1>1, <2>6, <2>7, <3>1, <3>2, <3>3 DEF IInv, Types
    <2>9. OnePlace'
      BY <2>2, OnePlaceAfter
    <2>10. Overlaps'
      BY <2>5, <2>6, <2>7, Leaves DEF IInv
    <2>11. \A d \in Clients : Fits(d)'
      BY <2>2, <2>5, <2>6, FitsAfter
    <2>12. Knows(c)' /\ Finds(c)'
      BY <2>5, <2>6 DEF Knows, Finds
    <2>13. Todo(c)'
      BY <2>2, <2>5, <2>6, <2>7, WritesAfter DEF Todo
    <2>14. \A d \in Clients : Knows(d)' /\ Finds(d)' /\ Todo(d)'
      BY <2>2, <2>6, <2>12, <2>13, OthersAfter
    <2>15. Fresh'
      <3>1. SUFFICES ASSUME NEW k \in Keys \ tainted'
                     PROVE  Settled(k)' \/ \E d \in Clients : Invalidates(d, k)'
        BY DEF Fresh
      <3>2. CASE k \in call[c].touches
        <4>1. Invalidates(c, k)'
          <5>1. PICK n \in 1..Len(CacheWrites(c)) : CacheWrites(c)[n] = Del(k)
            BY <2>2, <3>2, WritesAfter
          <5> QED BY <2>5, <2>6, <5>1 DEF Invalidates
        <4> QED BY <4>1
      <3>3. CASE k \notin call[c].touches
        BY <2>2, <2>6, <3>1, <3>3, FreshAfter
      <3> QED BY <3>2, <3>3
    <2> QED BY <2>8, <2>9, <2>10, <2>11, <2>14, <2>15 DEF IInv
  <1> QED BY <1>2, <1>3

LEMMA StoreFailsIInv ==
  ASSUME IInv, NEW c \in Clients, StoreFails(c)
  PROVE  IInv'
  <1>1. call[c].pc = "write" /\ UNCHANGED <<cell, pending, flight>> /\ Return(c)
    BY DEF StoreFails, cache
  <1>2. CASE UNCHANGED <<store, tainted>>
    BY <1>1, <1>2, ReturnIInv
  <1>3. CASE /\ store' = After(call[c].kind, call[c].args)
             /\ tainted' = tainted \cup call[c].touches \cup Left
    <2>1. TakesEffect(c)
      BY <1>1, <1>3 DEF TakesEffect
    <2>2. /\ call' \in [Clients -> Calls] /\ call'[c] = Idle
          /\ \A d \in Clients \ {c} : call'[d] = call[d]
      BY <1>1, CallStep, IdleCall DEF Return, IInv
    <2>3. call[c] \in Calls /\ \A h \in Keys : flight[h] # c
      BY <1>1, WriterTypes DEF IInv
    <2>4. tainted \subseteq tainted' /\ tainted' \subseteq Keys
      <3>1. Left \subseteq Keys /\ call[c].touches \subseteq Keys
        BY <2>3 DEF Left, IInv, Types, Val, Rec, Keys, Calls
      <3> QED BY <1>3, <3>1 DEF IInv, Types
    <2>5. Types'
      <3>1. ASSUME NEW d \in Clients
            PROVE  Stage(d)'
        <4>1. CASE d = c
          BY <2>2, <4>1, IdleCall DEF Stage
        <4>2. CASE d # c
          BY <1>1, <2>2, <4>2, StageKept DEF IInv
        <4> QED BY <4>1, <4>2
      <3>2. \A h \in Keys, d \in Clients : flight'[h] = d => call'[d].pc \in {"load", "fill"} /\ call'[d].key = h
        BY <1>1, <2>2, <2>3 DEF IInv, Types
      <3>3. store' \in [Ids -> Val] /\ \A i \in Ids : store'[i] # NoRec => store'[i].id = i
        BY <2>1, AfterShape DEF IInv
      <3> QED BY <1>1, <2>2, <2>4, <3>1, <3>2, <3>3 DEF IInv, Types
    <2>6. OnePlace'
      BY <2>1, OnePlaceAfter
    <2>7. Overlaps'
      BY <2>2, <2>4, IdleCall, Leaves DEF IInv
    <2>8. \A d \in Clients : Fits(d)'
      BY <2>1, <2>2, IdleCall, FitsAfter
    <2>9. Knows(c)' /\ Finds(c)' /\ Todo(c)'
      BY <2>2, IdleCall DEF Knows, Finds, Todo
    <2>10. \A d \in Clients : Knows(d)' /\ Finds(d)' /\ Todo(d)'
      BY <2>1, <2>2, <2>9, OthersAfter
    <2>11. Fresh'
      BY <1>3, <2>1, <2>2, FreshAfter DEF Fresh
    <2> QED BY <2>5, <2>6, <2>7, <2>8, <2>10, <2>11 DEF IInv
  <1> QED BY <1>2, <1>3 DEF StoreFails

-----------------------------------------------------------------------------
(* The theorems. *)

LEMMA InitIInv == Init => IInv
  <1>1. SUFFICES ASSUME Init PROVE IInv
    OBVIOUS
  <1>2. /\ store = [i \in Ids |-> NoRec] /\ cell = [k \in Keys |-> Absent]
        /\ pending = [k \in Keys |-> << >>] /\ flight = [k \in Keys |-> NoRec]
        /\ call = [c \in Clients |-> Idle] /\ tainted = {}
    BY <1>1 DEF Init
  <1>3. Types
    <2>1. \A c \in Clients : Stage(c)
      BY <1>2, IdleCall DEF Stage
    <2> QED BY <1>2, <2>1, IdleCall, IdsAndLocs, ConstantsAssumption DEF Types, Under, Val
  <1>4. OnePlace
    BY <1>2 DEF OnePlace
  <1>5. \A c \in Clients : call[c] = Idle
    BY <1>2
  <1>6. Overlaps /\ \A c \in Clients : Fits(c) /\ Knows(c) /\ Finds(c) /\ Todo(c)
    BY <1>5, IdleCall DEF Overlaps, Meet, Fits, Knows, Finds, Todo
  <1>7. Fresh
    BY <1>2 DEF Fresh, Settled
  <1> QED BY <1>3, <1>4, <1>6, <1>7 DEF IInv

LEMMA NextIInv ==
  ASSUME IInv, [Next]_vars
  PROVE  IInv'
  <1>1. CASE UNCHANGED vars
    BY <1>1, SameIInv
  <1>2. ASSUME NEW c \in Clients, NEW kind \in Kinds \cap {"get", "getByKey"}, NEW k \in Keys, Read(c, kind, k)
        PROVE  IInv'
    BY <1>2, ReadIInv
  <1>3. ASSUME NEW c \in Clients, NEW kind \in Kinds \ {"get", "getByKey"},
               NEW args \in Requests(kind), Write(c, kind, args)
        PROVE  IInv'
    BY <1>3, WriteIInv
  <1>4. ASSUME NEW c \in Clients, Step(c)
        PROVE  IInv'
    <2>1. CASE LoadFails(c)
      BY <2>1, LandIInv DEF LoadFails, cache
    <2>2. CASE FinishFlight(c)
      BY <2>2, LandIInv DEF FinishFlight, cache
    <2>3. CASE FinishWrite(c)
      BY <2>3, ReturnIInv DEF FinishWrite, cache
    <2> QED BY <1>4, <2>1, <2>2, <2>3, JoinFlightIInv, LeadFlightIInv, LoadIInv, LookIInv,
               LookFailsIInv, StoreWriteIInv, StoreFailsIInv, CacheWriteIInv DEF Step
  <1>5. ASSUME NEW k \in Keys, Process(k) \/ Evict(k)
        PROVE  IInv'
    BY <1>5, ProcessIInv, EvictIInv
  <1> QED BY <1>1, <1>2, <1>3, <1>4, <1>5 DEF Next

-----------------------------------------------------------------------------
(* The buffer never outgrows its capacity. *)

BufferBounded == IsFiniteSet(Buffered) /\ Cardinality(Buffered) <= MaxPending

\* The buffer stays bounded where every key keeps its places or loses some.
LEMMA BufferKept ==
  ASSUME BufferBounded, \A h \in Keys : DOMAIN pending'[h] \subseteq DOMAIN pending[h]
  PROVE  BufferBounded'
  <1>1. Buffered' \in SUBSET Buffered
    BY DEF Buffered
  <1>2. /\ IsFiniteSet(Buffered) /\ IsFiniteSet(Buffered')
        /\ Cardinality(Buffered') <= Cardinality(Buffered)
    BY <1>1, FS_Subset DEF BufferBounded
  <1>3. Cardinality(Buffered) \in Nat /\ Cardinality(Buffered') \in Nat
    BY <1>2, FS_CardinalityType
  <1> QED BY <1>2, <1>3, ConstantsAssumption DEF BufferBounded

\* An appended write takes one place, of which there was one to take.
LEMMA BufferGrows ==
  ASSUME Types, BufferBounded, HasRoom, NEW k \in Keys, NEW v \in Val \cup {Absent},
         pending' = [pending EXCEPT ![k] = Append(pending[k], v)]
  PROVE  BufferBounded'
  <1> DEFINE e == <<k, Len(pending[k]) + 1>>
             B == Buffered \cup {e}
  <1>1. pending \in [Keys -> Seq(Val \cup {Absent})] /\ pending[k] \in Seq(Val \cup {Absent})
    BY DEF Types
  <1>2. /\ pending'[k] = Append(pending[k], v)
        /\ \A h \in Keys \ {k} : pending'[h] = pending[h]
    BY <1>1
  <1>3. DOMAIN pending'[k] = DOMAIN pending[k] \cup {Len(pending[k]) + 1}
    <2>1. /\ Len(pending[k]) \in Nat /\ DOMAIN pending[k] = 1..Len(pending[k])
          /\ DOMAIN Append(pending[k], v) = 1..(Len(pending[k]) + 1)
      BY <1>1
    <2> QED BY <1>2, <2>1
  <1>4. Buffered' \in SUBSET B
    <2>1. ASSUME NEW h \in Keys, NEW n \in DOMAIN pending'[h]
          PROVE  <<h, n>> \in B
      BY <1>2, <1>3 DEF Buffered
    <2> QED BY <2>1 DEF Buffered
  <1>5. /\ IsFiniteSet(B) /\ Cardinality(Buffered) \in Nat
        /\ Cardinality(B) <= Cardinality(Buffered) + 1
    <2>1. Cardinality(Buffered) \in Nat /\ IsFiniteSet(Buffered)
      BY FS_CardinalityType DEF BufferBounded
    <2>2. IsFiniteSet(B) /\ Cardinality(B) = IF e \in Buffered THEN Cardinality(Buffered)
                                                              ELSE Cardinality(Buffered) + 1
      BY <2>1, FS_AddElement
    <2> QED BY <2>1, <2>2
  <1> HIDE DEF B
  <1>6. /\ IsFiniteSet(Buffered') /\ Cardinality(Buffered') <= Cardinality(B)
        /\ Cardinality(Buffered') \in Nat /\ Cardinality(B) \in Nat
    BY <1>4, <1>5, FS_Subset, FS_CardinalityType
  <1> QED BY <1>5, <1>6, ConstantsAssumption DEF BufferBounded, HasRoom

LEMMA NextBufferBounded ==
  ASSUME IInv, BufferBounded, [Next]_vars
  PROVE  BufferBounded'
  <1>1. CASE pending' = pending
    BY <1>1, BufferKept
  <1>2. ASSUME NEW k \in Keys, Process(k)
        PROVE  BufferBounded'
    <2>1. /\ pending \in [Keys -> Seq(Val \cup {Absent})] /\ pending[k] \in Seq(Val \cup {Absent})
          /\ pending[k] # << >> /\ pending' = [pending EXCEPT ![k] = Tail(pending[k])]
      BY <1>2 DEF IInv, Types, Process
    <2>2. DOMAIN Tail(pending[k]) \subseteq DOMAIN pending[k]
      BY <2>1
    <2>3. \A h \in Keys : DOMAIN pending'[h] \subseteq DOMAIN pending[h]
      BY <2>1, <2>2
    <2> QED BY <2>3, BufferKept
  <1>3. ASSUME NEW c \in Clients, CacheWrite(c)
        PROVE  BufferBounded'
    <2>1. PICK w \in Entry : IF w.val = Absent THEN CacheDelete(w.key) ELSE CacheSet(w.key, w.val)
      <3>1. call[c].todo \in Seq(Entry) /\ call[c].todo # << >>
        BY <1>3 DEF IInv, Types, Calls, CacheWrite
      <3>2. Head(call[c].todo) \in Entry
        BY <3>1
      <3> QED BY <1>3, <3>2 DEF CacheWrite
    <2>2. w.key \in Keys /\ w.val \in Val \cup {Absent}
      BY DEF Entry
    <2>3. pending \in [Keys -> Seq(Val \cup {Absent})]
      BY DEF IInv, Types
    <2>4. \/ pending' = pending
          \/ HasRoom /\ pending' = [pending EXCEPT ![w.key] = Append(pending[w.key], w.val)]
      BY <2>1, <2>2, <2>3 DEF CacheDelete, CacheSet
    <2> QED BY <1>1, <2>2, <2>4, BufferGrows DEF IInv
  <1>4. CASE UNCHANGED vars
    BY <1>1, <1>4 DEF vars, cache
  <1>5. ASSUME NEW c \in Clients, Step(c), ~CacheWrite(c)
        PROVE  pending' = pending
    BY <1>5 DEF Step, JoinFlight, LeadFlight, Load, LoadFails, FinishFlight, Look, LookFails,
                StoreWrite, StoreFails, FinishWrite, cache
  <1>6. ASSUME NEW c \in Clients, NEW kind, NEW k, Read(c, kind, k)
        PROVE  pending' = pending
    BY <1>6 DEF Read, cache
  <1>7. ASSUME NEW c \in Clients, NEW kind, NEW args, Write(c, kind, args)
        PROVE  pending' = pending
    BY <1>7 DEF Write, cache
  <1>8. ASSUME NEW k \in Keys, Evict(k)
        PROVE  pending' = pending
    BY <1>8 DEF Evict
  <1> QED BY <1>1, <1>2, <1>3, <1>4, <1>5, <1>6, <1>7, <1>8 DEF Next

LEMMA InitBufferBounded == Init => BufferBounded
  <1>1. Init => Buffered = {}
    BY DEF Init, Buffered
  <1> QED BY <1>1, FS_EmptySet, ConstantsAssumption DEF BufferBounded

LEMMA InvariantHolds == Spec => [](IInv /\ BufferBounded)
  <1>1. IInv /\ BufferBounded /\ [Next]_vars => IInv' /\ BufferBounded'
    BY NextIInv, NextBufferBounded
  <1> QED BY InitIInv, InitBufferBounded, <1>1, PTL DEF Spec

\* The variables keep their types: in particular a cache key only ever holds a
\* record that has it as ID or location, Ristretto's buffer never outgrows its
\* capacity, and a flight is listed under a key exactly while its leader is
\* loading or filling, so that no waiter is left without one.
THEOREM TypeCorrect == Spec => []TypeOK
  <1>1. IInv /\ BufferBounded => TypeOK
    <2>1. SUFFICES ASSUME IInv, BufferBounded PROVE TypeOK
      OBVIOUS
    <2>2. \A k \in Keys : cell[k] \in {r \in Rec : k \in {r.id, r.loc}} \cup {NoRec, Absent}
      BY <2>1 DEF IInv, Types, Under
    <2>3. ASSUME NEW c \in Clients
          PROVE  /\ call[c].touches \subseteq Keys
                 /\ call[c].pc \in {"load", "fill"} <=> \E k \in Keys : flight[k] = c
      <3>1. call[c].touches \subseteq Keys
        BY <2>1 DEF IInv, Types, Calls
      <3>2. call[c].pc \in {"load", "fill"} => \E k \in Keys : flight[k] = c
        BY <2>1 DEF IInv, Types, Stage, Reading
      <3>3. (\E k \in Keys : flight[k] = c) => call[c].pc \in {"load", "fill"}
        BY <2>1 DEF IInv, Types
      <3> QED BY <3>1, <3>2, <3>3
    <2> QED BY <2>1, <2>2, <2>3 DEF IInv, Types, TypeOK, BufferBounded
  <1> QED BY InvariantHolds, <1>1, PTL

\* CachedMetadataRepository serves nothing stale but for the four causes that
\* `tainted` records: once nobody who writes under a key is in progress and
\* Ristretto has applied what it buffered for it, the cache holds under the key
\* nothing, or what the store holds.
THEOREM EntriesAreFresh == Spec => []EntriesFresh
  <1>1. IInv => EntriesFresh
    <2>1. SUFFICES ASSUME IInv, NEW k \in Keys \ tainted, pending[k] = << >>, ~Unfinished(k)
                   PROVE  cell[k] \in {Absent, ValueIn(store, k)}
      BY DEF EntriesFresh
    <2>2. ASSUME NEW c \in Clients, Invalidates(c, k)
          PROVE  FALSE
      <3>1. PICK n \in 1..Len(call[c].todo) : call[c].todo[n] = Del(k)
        BY <2>2 DEF Invalidates
      <3>2. call[c].pc = "refresh" /\ k \in call[c].touches
        BY <2>1, <3>1 DEF IInv, Todo, Del
      <3>3. Writes(call[c].kind)
        BY <2>1, <3>2 DEF IInv, Types, Stage, Writing
      <3> QED BY <2>1, <3>2, <3>3 DEF Unfinished
    <2>3. Settled(k)
      BY <2>1, <2>2 DEF IInv, Fresh
    <2> QED BY <2>1, <2>3 DEF Settled
  <1> QED BY InvariantHolds, <1>1, PTL
=============================================================================
