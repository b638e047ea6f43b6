--------------------------- MODULE LifecycleProofs ---------------------------
(***************************************************************************)
(* The safety of StorageLifecycle for any number of operations and of      *)
(* calls of Shutdown, any listing and any channel: the WaitGroup counts    *)
(* the registrations, so what was registered when Shutdown began is over   *)
(* when it has drained; and a listing that ends silently is complete.      *)
(***************************************************************************)
EXTENDS StorageLifecycle, FiniteSetTheorems, TLAPS

\* The call is over, and cannot go on while the storage is closed.
Over(c) == c.held = 0 /\ c.pc \in {"idle", "readerClosed", "closeOut", "closedOut"}

\* How often a call is registered, by its place.
Place(c) ==
    /\ c.pc \in {"idle", "readerClosed", "closeOut", "closedOut", "probing"} => c.held = 0
    /\ c.pc \in {"ending", "reader", "listing"} => c.held = 1
    /\ c.pc = "checked" => c.held = 0 \/ (c.held = 1 /\ c.kind = "upload")
    /\ c.pc = "working" => c.held = 1 \/ (c.held = 2 /\ c.kind = "upload")
    /\ c.kind = "list" => c.pc \in {"checked", "listing", "ending", "closeOut", "closedOut"}
    /\ c.pc \in {"listing", "closeOut", "closedOut"} => c.kind = "list"

\* The channel ends with an error item.
Broken(c) == c.buf # << >> /\ c.buf[Len(c.buf)] = "error"

\* Where the objects of a listing are: received, in the channel, in the hand of
\* the goroutine, at the server.
Sum(c) == c.got + Len(c.buf) - (IF Broken(c) THEN 1 ELSE 0)
                + (IF c.hand = "item" THEN 1 ELSE 0) + c.left

Lists(c) ==
    /\ c.kind # "list" => c.left = 0 /\ c.buf = << >> /\ ~c.failed
    /\ Sum(c) <= Objects
    /\ c.kind = "list" /\ ~c.over => Sum(c) = Objects
    /\ \A k \in 1..Len(c.buf) : c.buf[k] = "error" => k = Len(c.buf)
    /\ c.failed => c.buf = << >>
    /\ c.pc \in {"checked", "listing"} => ~c.failed /\ ~Broken(c)
    /\ /\ c.pc \in {"closeOut", "closedOut"} \/ (c.pc = "ending" /\ c.kind = "list")
       /\ ~c.over /\ ~c.failed /\ ~Broken(c)
       => c.left = 0 /\ c.hand = "none"

Sound(c) == c \in Call /\ Len(c.buf) <= Buffer /\ Place(c) /\ Lists(c)

\* The registrations, one by one.
Tokens == {t \in Procs \X (1..2) : t[2] <= call[t[1]].held}

\* What Shutdown knows of the calls it waits for.
Draining ==
    /\ closed \in BOOLEAN /\ panicked \in BOOLEAN /\ early \subseteq Procs
    /\ waiter \in {"none", "starting", "waiting", "woken", "done"}
    /\ stop \in [Stoppers -> {"idle", "already", "waiting", "drained", "expired"}]
    /\ closed <=> waiter # "none"
    /\ (\E s \in Stoppers : stop[s] = "drained") => waiter = "done"
    /\ ~closed => early = {}
    /\ \A p \in early : call[p].held > 0 \/ Over(call[p])
    /\ waiter \in {"woken", "done"} => \A p \in early : Over(call[p])

IInv ==
    /\ call \in [Procs -> Call]
    /\ \A p \in Procs : Sound(call[p])
    /\ count = Cardinality(Tokens)
    /\ Draining

-----------------------------------------------------------------------------
(* The WaitGroup. *)

LEMMA PairsFinite == \A S \in SUBSET (Procs \X (1..2)) : IsFiniteSet(S)
  <1>1. IsFiniteSet(1..2)
    <2>1. 1 \in Int /\ 2 \in Int
      OBVIOUS
    <2> QED BY <2>1, FS_Interval
  <1>2. IsFiniteSet(Procs \X (1..2))
    BY <1>1, FS_Product, ConstantsAssumption
  <1> QED BY <1>2, FS_Subset

LEMMA TokensFinite == IsFiniteSet(Tokens) /\ Cardinality(Tokens) \in Nat
  <1>1. IsFiniteSet(Tokens)
    BY PairsFinite DEF Tokens
  <1> QED BY <1>1, FS_CardinalityType

\* The counter is zero only if nothing is registered.
LEMMA NothingHeld ==
  ASSUME IInv, count = 0
  PROVE  \A p \in Procs : call[p].held = 0
  <1>1. Tokens = {}
    BY TokensFinite, FS_EmptySet DEF IInv
  <1>2. ASSUME NEW p \in Procs, call[p].held # 0 PROVE FALSE
    <2>1. call[p].held \in 0..2
      BY DEF IInv, Call
    <2>2. <<p, 1>> \in Tokens
      BY <1>2, <2>1 DEF Tokens
    <2> QED BY <1>1, <2>2
  <1> QED BY <1>2

LEMMA AddToken ==
  ASSUME IInv, NEW p \in Procs, NEW d \in Call, call' = [call EXCEPT ![p] = d],
         d.held = call[p].held + 1
  PROVE  Cardinality(Tokens') = count + 1
  <1> DEFINE t == <<p, call[p].held + 1>>
  <1>1. /\ call[p].held \in 0..1 /\ \A q \in Procs : call[q].held \in 0..2
        /\ \A q \in Procs : call'[q] = IF q = p THEN d ELSE call[q]
    BY DEF IInv, Call
  <1>2. t \notin Tokens
    BY <1>1 DEF Tokens
  <1>3. Tokens' = Tokens \cup {t}
    <2>1. \A u \in Procs \X (1..2) : u[2] <= call'[u[1]].held <=> (u[2] <= call[u[1]].held \/ u = t)
      <3>1. ASSUME NEW q \in Procs, NEW i \in 1..2
            PROVE  i <= call'[q].held <=> (i <= call[q].held \/ <<q, i>> = t)
        BY <1>1
      <3> QED BY <3>1
    <2>2. t \in Procs \X (1..2)
      BY <1>1
    <2> QED BY <2>1, <2>2 DEF Tokens
  <1> QED BY <1>2, <1>3, TokensFinite, FS_AddElement DEF IInv

LEMMA RemoveToken ==
  ASSUME IInv, NEW p \in Procs, NEW d \in Call, call' = [call EXCEPT ![p] = d],
         call[p].held > 0, d.held = call[p].held - 1
  PROVE  Cardinality(Tokens') = count - 1 /\ count \in Nat \ {0}
  <1> DEFINE t == <<p, call[p].held>>
  <1>1. /\ call[p].held \in 1..2 /\ \A q \in Procs : call[q].held \in 0..2
        /\ \A q \in Procs : call'[q] = IF q = p THEN d ELSE call[q]
    BY DEF IInv, Call
  <1>2. t \in Tokens
    BY <1>1 DEF Tokens
  <1>3. Tokens' = Tokens \ {t}
    <2>1. \A u \in Procs \X (1..2) : u[2] <= call'[u[1]].held <=> (u[2] <= call[u[1]].held /\ u # t)
      <3>1. ASSUME NEW q \in Procs, NEW i \in 1..2
            PROVE  i <= call'[q].held <=> (i <= call[q].held /\ <<q, i>> # t)
        BY <1>1
      <3> QED BY <3>1
    <2> QED BY <2>1 DEF Tokens
  <1>4. Tokens # {}
    BY <1>2
  <1>5. count # 0
    BY <1>4, TokensFinite, FS_EmptySet DEF IInv
  <1> QED BY <1>2, <1>3, <1>5, TokensFinite, FS_RemoveElement DEF IInv

LEMMA SameTokens ==
  ASSUME IInv, NEW p \in Procs, NEW d \in Call, call' = [call EXCEPT ![p] = d],
         d.held = call[p].held
  PROVE  Tokens' = Tokens
  <1>1. \A q \in Procs : call'[q].held = call[q].held
    BY DEF IInv
  <1> QED BY <1>1 DEF Tokens

-----------------------------------------------------------------------------
(* The three kinds of steps of an operation. *)

LEMMA QuietStep ==
  ASSUME IInv, NEW p \in Procs, NEW d, call' = [call EXCEPT ![p] = d], Sound(d),
         d.held = call[p].held, Over(call[p]) => ~closed \/ Over(d),
         UNCHANGED <<closed, count, waiter, stop, panicked, early>>
  PROVE  IInv'
  <1>1. d \in Call
    BY DEF Sound
  <1>2. /\ call' \in [Procs -> Call] /\ \A q \in Procs : Sound(call'[q])
        /\ \A q \in Procs : call'[q] = IF q = p THEN d ELSE call[q]
    BY <1>1 DEF IInv
  <1>3. count' = Cardinality(Tokens')
    BY <1>1, SameTokens DEF IInv
  <1>4. \A q \in early : Over(call[q]) => Over(call'[q])
    BY <1>2 DEF IInv, Draining
  <1>5. \A q \in early : call[q].held > 0 => call'[q].held > 0
    BY <1>2 DEF IInv, Draining
  <1>6. Draining'
    BY <1>4, <1>5 DEF IInv, Draining
  <1> QED BY <1>2, <1>3, <1>6 DEF IInv

LEMMA AddStep ==
  ASSUME IInv, NEW p \in Procs, NEW d, call' = [call EXCEPT ![p] = d], Sound(d),
         d.held = call[p].held + 1, ~Over(call[p]), Add,
         UNCHANGED <<closed, stop, early>>
  PROVE  IInv'
  <1>1. d \in Call /\ d.held \in 0..2 /\ call[p].held \in 0..2
    BY DEF Sound, IInv, Call
  <1>2. /\ call' \in [Procs -> Call] /\ \A q \in Procs : Sound(call'[q])
        /\ \A q \in Procs : call'[q] = IF q = p THEN d ELSE call[q]
    BY <1>1 DEF IInv
  <1>3. count' = Cardinality(Tokens')
    BY <1>1, AddToken DEF Add
  <1>4. \A q \in early : Over(call[q]) => Over(call'[q])
    BY <1>2 DEF IInv, Draining
  <1>5. \A q \in early : call[q].held > 0 => call'[q].held > 0
    BY <1>1, <1>2 DEF IInv, Draining
  <1>6. Draining'
    BY <1>4, <1>5 DEF IInv, Draining, Add
  <1> QED BY <1>2, <1>3, <1>6 DEF IInv

LEMMA DoneStep ==
  ASSUME IInv, NEW p \in Procs, NEW d, call' = [call EXCEPT ![p] = d], Sound(d),
         call[p].held > 0, d.held = call[p].held - 1, d.held > 0 \/ Over(d), Done,
         UNCHANGED <<closed, stop, early>>
  PROVE  IInv'
  <1>1. d \in Call
    BY DEF Sound
  <1>2. /\ call' \in [Procs -> Call] /\ \A q \in Procs : Sound(call'[q])
        /\ \A q \in Procs : call'[q] = IF q = p THEN d ELSE call[q]
    BY <1>1 DEF IInv
  <1>3. count' = Cardinality(Tokens') /\ count \in Nat \ {0}
    BY <1>1, RemoveToken DEF Done
  <1>4. \A q \in early : call'[q].held > 0 \/ Over(call'[q])
    BY <1>2 DEF IInv, Draining
  <1>5. ASSUME waiter' \in {"woken", "done"}, NEW q \in early PROVE Over(call'[q])
    <2>1. CASE count = 1
      <3>1. Tokens' = {}
        <4>1. IsFiniteSet(Tokens')
          BY PairsFinite DEF Tokens
        <4> QED BY <4>1, <2>1, <1>3, FS_EmptySet DEF Done
      <3>2. q \in Procs /\ call'[q].held \in 0..2
        BY <1>2 DEF IInv, Draining, Call
      <3>3. call'[q].held = 0
        <4>1. call'[q].held >= 1 => <<q, 1>> \in Tokens'
          BY <3>2 DEF Tokens
        <4> QED BY <3>1, <3>2, <4>1
      <3> QED BY <1>4, <3>3
    <2>2. CASE count # 1
      <3>1. waiter \in {"woken", "done"}
        BY <1>5, <2>2 DEF Done
      <3>2. Over(call[q])
        BY <3>1 DEF IInv, Draining
      <3> QED BY <1>2, <3>2 DEF Over
    <2> QED BY <2>1, <2>2
  <1>6. Draining'
    BY <1>4, <1>5 DEF IInv, Draining, Done
  <1> QED BY <1>2, <1>3, <1>6 DEF IInv

-----------------------------------------------------------------------------
(* Every call stays sound. *)

LEMMA NoCallSound == Sound(NoCall) /\ Over(NoCall)
  <1>1. NoCall \in Call
    BY ConstantsAssumption DEF NoCall, Call, PCs
  <1> QED BY <1>1, ConstantsAssumption DEF NoCall, Sound, Over, Place, Lists, Sum, Broken

\* An operation that is not a listing, and only moves on.
LEMMA MoveSound ==
  ASSUME NEW c, Sound(c), NEW pc \in PCs, NEW h \in 0..2, NEW d,
         d = [c EXCEPT !.pc = pc, !.held = h], c.kind # "list", Place(d)
  PROVE  Sound(d)
  <1>1. c \in Call
    BY DEF Sound
  <1>2. d \in Call
    BY <1>1 DEF Call
  <1>3. /\ d.kind = c.kind /\ d.left = c.left /\ d.buf = c.buf /\ d.got = c.got
        /\ d.hand = c.hand /\ d.failed = c.failed /\ d.over = c.over
    BY <1>1 DEF Call
  <1>4. Sum(d) = Sum(c)
    BY <1>3 DEF Sum, Broken
  <1>5. ~Broken(d) /\ ~d.failed /\ d.buf = << >>
    BY <1>3 DEF Sound, Lists, Broken
  <1>6. d.pc \notin {"closeOut", "closedOut"}
    BY <1>3 DEF Place
  <1>7. Lists(d)
    BY <1>3, <1>4, <1>5, <1>6 DEF Lists, Sound
  <1> QED BY <1>2, <1>3, <1>7 DEF Sound

\* A call that begins.
LEMMA NewCallSound ==
  ASSUME NEW kind \in AllKinds, NEW pc \in {"checked", "probing"}, NEW d,
         (pc = "probing") <=> (kind = "health"),
         NEW left \in 0..Objects, left = IF kind = "list" THEN Objects ELSE 0,
         NEW c \in Call, c = NoCall,
         \/ d = [c EXCEPT !.pc = pc, !.kind = kind, !.left = left]
         \/ left = 0 /\ d = [c EXCEPT !.pc = pc, !.kind = kind]
  PROVE  Sound(d) /\ d.held = 0
  <1>1. d \in Call
    BY DEF Call, PCs
  <1>2. /\ d.pc = pc /\ d.kind = kind /\ d.left = left /\ d.buf = c.buf /\ d.got = c.got
        /\ d.hand = c.hand /\ d.failed = c.failed /\ d.over = c.over /\ d.held = c.held
    BY DEF Call, NoCall
  <1>3. /\ c.buf = << >> /\ c.got = 0 /\ c.hand = "none" /\ ~c.failed /\ ~c.over
        /\ c.held = 0
    BY DEF NoCall
  <1>4. Objects \in Nat /\ Buffer \in Nat /\ kind # "none"
    BY ConstantsAssumption DEF AllKinds
  <1>5. Place(d)
    BY <1>2, <1>3, <1>4 DEF Place
  <1>9. d.buf = << >> /\ d.got = 0 /\ d.hand = "none" /\ d.left = left /\ left \in Nat
    BY <1>2, <1>3, <1>4
  <1>10. Len(d.buf) = 0
    BY <1>9
  <1>11. ~Broken(d)
    BY <1>9 DEF Broken
  <1>6. ~Broken(d) /\ Len(d.buf) = 0 /\ Sum(d) = left
    BY <1>9, <1>10, <1>11 DEF Sum
  <1>7. Lists(d)
    BY <1>2, <1>3, <1>4, <1>6 DEF Lists
  <1> QED BY <1>1, <1>2, <1>3, <1>4, <1>5, <1>6, <1>7 DEF Sound

LEMMA BeginKeeps ==
  ASSUME IInv, NEW p \in Procs, NEW kind \in Kinds \ {"health"}, Begin(p, kind)
  PROVE  IInv'
  <1> DEFINE left == IF kind = "list" THEN Objects ELSE 0
             d == [NoCall EXCEPT !.pc = "checked", !.kind = kind, !.left = left]
  <1>1. kind \in AllKinds \ {"health"} /\ left \in 0..Objects /\ NoCall \in Call
    BY ConstantsAssumption, NoCallSound DEF Sound
  <1>2. Sound(d) /\ d.held = 0
    <2>1. /\ d = [NoCall EXCEPT !.pc = "checked", !.kind = kind, !.left = left]
          /\ left = IF kind = "list" THEN Objects ELSE 0
      OBVIOUS
    <2> HIDE DEF d, left
    <2> QED BY <1>1, <2>1, NewCallSound
  <1>3. call[p].held = 0
    BY DEF Begin, IInv, Sound, Place
  <1>4. /\ call' = [call EXCEPT ![p] = d] /\ ~closed
        /\ UNCHANGED <<closed, count, waiter, stop, panicked, early>>
    BY DEF Begin
  <1> QED BY <1>2, <1>3, <1>4, QuietStep

LEMMA BeginHealthKeeps ==
  ASSUME IInv, NEW p \in Procs, BeginHealth(p)
  PROVE  IInv'
  <1> DEFINE d == [NoCall EXCEPT !.pc = "probing", !.kind = "health"]
  <1>1. 0 \in 0..Objects /\ NoCall \in Call /\ "health" \in AllKinds
    BY ConstantsAssumption, NoCallSound DEF Sound, AllKinds
  <1>2. Sound(d) /\ d.held = 0
    BY <1>1, NewCallSound
  <1>3. call[p].held = 0
    BY DEF BeginHealth, IInv, Sound, Place
  <1>5. /\ call' = [call EXCEPT ![p] = d] /\ ~closed
        /\ UNCHANGED <<closed, count, waiter, stop, panicked, early>>
    BY DEF BeginHealth
  <1> QED BY <1>2, <1>3, <1>5, QuietStep

\* The steps that forget the call.
LEMMA ForgetKeeps ==
  ASSUME IInv, NEW p \in Procs, EndHealth(p) \/ DropReader(p) \/ ReceiveEnd(p)
  PROVE  IInv'
  <1>1. /\ call' = [call EXCEPT ![p] = NoCall]
        /\ UNCHANGED <<closed, count, waiter, stop, panicked, early>>
        /\ call[p].pc \in {"probing", "readerClosed", "closedOut"}
    BY DEF EndHealth, DropReader, ReceiveEnd
  <1>2. NoCall.held = call[p].held
    BY <1>1 DEF IInv, Sound, Place, NoCall
  <1> QED BY <1>1, <1>2, NoCallSound, QuietStep

LEMMA RegisterKeeps ==
  ASSUME IInv, NEW p \in Procs, Register(p)
  PROVE  IInv'
  <1> DEFINE c == call[p]
             d == [c EXCEPT !.pc = IF c.kind = "list" THEN "listing" ELSE "working",
                            !.held = @ + 1]
  <1>1. Sound(c) /\ c \in Call /\ c.pc = "checked"
    BY DEF Register, IInv, Sound
  <1>9. c.held \in 0..1 /\ c.held + 1 \in 0..2
    BY <1>1 DEF Sound, Place
  <1>2. c.held \in 0..1 /\ d \in Call
    BY <1>1, <1>9 DEF Call, PCs
  <1>3. /\ d.kind = c.kind /\ d.left = c.left /\ d.buf = c.buf /\ d.got = c.got
        /\ d.hand = c.hand /\ d.failed = c.failed /\ d.over = c.over /\ d.held = c.held + 1
        /\ d.pc = IF c.kind = "list" THEN "listing" ELSE "working"
    BY <1>1 DEF Call
  <1>4. Place(d)
    BY <1>1, <1>2, <1>3 DEF Sound, Place
  <1>5. Sum(d) = Sum(c) /\ (Broken(d) <=> Broken(c))
    BY <1>3 DEF Sum, Broken
  <1>6. Lists(d)
    BY <1>1, <1>3, <1>5 DEF Lists, Sound
  <1>7. Sound(d) /\ ~Over(c)
    BY <1>1, <1>2, <1>3, <1>4, <1>6 DEF Sound, Over
  <1>8. call' = [call EXCEPT ![p] = d]
    BY DEF Register, IInv
  <1> QED BY <1>3, <1>7, <1>8, AddStep DEF Register

LEMMA FinishKeeps ==
  ASSUME IInv, NEW p \in Procs, Finish(p)
  PROVE  IInv'
  <1>1. call[p].held > 0 /\ NoCall.held = call[p].held - 1
    BY DEF Finish, NoCall
  <1>2. /\ call' = [call EXCEPT ![p] = NoCall] /\ Done
        /\ UNCHANGED <<closed, stop, early>>
    BY DEF Finish
  <1> QED BY <1>1, <1>2, NoCallSound, DoneStep

LEMMA CloseReaderKeeps ==
  ASSUME IInv, NEW p \in Procs, CloseReader(p)
  PROVE  IInv'
  <1> DEFINE c == call[p]
             d == [c EXCEPT !.pc = "readerClosed", !.held = 0]
  <1>1. Sound(c) /\ c \in Call /\ c.pc = "reader" /\ c.held = 1 /\ c.kind # "list"
    BY DEF CloseReader, IInv, Sound, Place
  <1>2. d.pc = "readerClosed" /\ d.held = 0 /\ d.kind = c.kind
    BY <1>1 DEF Call
  <1>3. Place(d)
    <2>1. d.kind # "list"
      BY <1>1, <1>2
    <2> QED BY <1>2, <2>1 DEF Place
  <1>4. Sound(d) /\ Over(d)
    <2>1. "readerClosed" \in PCs /\ 0 \in 0..2
      BY DEF PCs
    <2> QED BY <1>1, <1>2, <1>3, <2>1, MoveSound DEF Over
  <1>5. call' = [call EXCEPT ![p] = d]
    BY DEF CloseReader, IInv
  <1>6. c.held > 0 /\ d.held = c.held - 1 /\ Done /\ UNCHANGED <<closed, stop, early>>
    BY <1>1, <1>2 DEF CloseReader
  <1> QED BY <1>4, <1>5, <1>6, DoneStep

LEMMA FinishNestedKeeps ==
  ASSUME IInv, NEW p \in Procs, FinishNested(p)
  PROVE  IInv'
  <1> DEFINE c == call[p]
             d == [c EXCEPT !.pc = "ending", !.held = 1]
  <1>1. Sound(c) /\ c \in Call /\ c.held = 2 /\ c.kind = "upload"
    BY DEF FinishNested, At, IInv, Sound
  <1>2. d.pc = "ending" /\ d.held = 1 /\ d.kind = c.kind
    BY <1>1 DEF Call
  <1>3. Place(d)
    BY <1>1, <1>2 DEF Place
  <1>4. Sound(d)
    <2>1. "ending" \in PCs /\ 1 \in 0..2
      BY DEF PCs
    <2> QED BY <1>1, <1>3, <2>1, MoveSound
  <1>5. call' = [call EXCEPT ![p] = d]
    BY DEF FinishNested, IInv
  <1>6. /\ c.held > 0 /\ d.held = c.held - 1 /\ d.held > 0
        /\ Done /\ UNCHANGED <<closed, stop, early>>
    BY <1>1, <1>2 DEF FinishNested
  <1> QED BY <1>4, <1>5, <1>6, DoneStep

\* The steps of an operation, not a listing, that neither register nor finish.
LEMMA MoveKeeps ==
  ASSUME IInv, NEW p \in Procs, OpenReader(p) \/ BeginNested(p)
  PROVE  IInv'
  <1> DEFINE c == call[p]
  <1>1. PICK pc \in {"reader", "ending", "checked"} :
          /\ call' = [call EXCEPT ![p].pc = pc]
          /\ pc = "reader" => c.kind = "get"
          /\ pc # "reader" => c.kind = "upload" /\ c.held = 1
    BY DEF OpenReader, BeginNested, Goto, At
  <1>2. Sound(c) /\ c \in Call /\ c.pc = "working" /\ c.held \in {1, 2}
    BY DEF OpenReader, BeginNested, At, IInv, Sound, Place
  <1> DEFINE d == [c EXCEPT !.pc = pc, !.held = c.held]
  <1>3. d.pc = pc /\ d.held = c.held /\ d.kind = c.kind /\ d = [c EXCEPT !.pc = pc]
    BY <1>2 DEF Call
  <1>4. Place(d)
    BY <1>1, <1>2, <1>3 DEF Place, Sound
  <1>5. Sound(d)
    <2>1. pc \in PCs /\ c.held \in 0..2 /\ c.kind # "list"
      BY <1>1, <1>2 DEF PCs
    <2> QED BY <1>2, <1>4, <2>1, MoveSound
  <1>6. call' = [call EXCEPT ![p] = d] /\ ~Over(c)
    BY <1>1, <1>2, <1>3 DEF IInv, Over
  <1>7. UNCHANGED <<closed, count, waiter, stop, panicked, early>>
    BY DEF OpenReader, BeginNested
  <1> QED BY <1>3, <1>5, <1>6, <1>7, QuietStep

-----------------------------------------------------------------------------
(* The listing. *)

\* What a step of the goroutine or of the consumer leaves as it was.
SameList(c, d) == d.kind = c.kind /\ d.left = c.left /\ d.buf = c.buf /\ d.got = c.got
                  /\ d.hand = c.hand /\ d.failed = c.failed

LEMMA SameSum ==
  ASSUME NEW c, NEW d, SameList(c, d)
  PROVE  Sum(d) = Sum(c) /\ (Broken(d) <=> Broken(c))
  BY DEF SameList, Sum, Broken

\* The goroutine takes an object, or the error, from the server.
LEMMA SumTakes ==
  ASSUME NEW c, NEW d, c.left \in Nat, d.left \in Nat, c.got \in Nat, Len(c.buf) \in Nat,
         d.got = c.got, d.buf = c.buf, c.hand = "none",
         \/ d.hand = "item" /\ d.left + 1 = c.left
         \/ d.hand = "error" /\ d.left = c.left
  PROVE  Sum(d) = Sum(c)
  <1>1. Broken(d) <=> Broken(c)
    BY DEF Broken
  <1>2. Len(d.buf) = Len(c.buf)
    OBVIOUS
  <1>3. CASE d.hand = "item" /\ d.left + 1 = c.left
    <2> DEFINE b == IF Broken(c) THEN 1 ELSE 0
    <2>1. Sum(c) = c.got + Len(c.buf) - b + 0 + c.left
      BY <1>3 DEF Sum
    <2>2. Sum(d) = c.got + Len(c.buf) - b + 1 + d.left
      BY <1>1, <1>2, <1>3 DEF Sum
    <2>3. b \in {0, 1}
      OBVIOUS
    <2> HIDE DEF b
    <2> QED BY <1>3, <2>1, <2>2, <2>3
  <1>4. CASE d.hand = "error" /\ d.left = c.left
    <2>1. c.hand # "item" /\ d.hand # "item"
      BY <1>4
    <2> QED BY <1>1, <1>2, <1>4, <2>1 DEF Sum
  <1> QED BY <1>3, <1>4

LEMMA EndContextKeeps ==
  ASSUME IInv, NEW p \in Procs, EndContext(p)
  PROVE  IInv'
  <1> DEFINE c == call[p]
             d == [c EXCEPT !.over = TRUE]
  <1>1. Sound(c) /\ c \in Call
    BY DEF IInv, Sound
  <1>2. d \in Call /\ SameList(c, d) /\ d.pc = c.pc /\ d.held = c.held /\ d.over
    BY <1>1 DEF Call, SameList
  <1>3. Sum(d) = Sum(c) /\ (Broken(d) <=> Broken(c))
    BY <1>2, SameSum
  <1>4. Place(d) /\ Lists(d) /\ Len(d.buf) <= Buffer
    BY <1>1, <1>2, <1>3 DEF Sound, Place, Lists, SameList
  <1>5. Sound(d) /\ (Over(c) => Over(d))
    BY <1>2, <1>4 DEF Sound, Over
  <1>6. /\ call' = [call EXCEPT ![p] = d]
        /\ UNCHANGED <<closed, count, waiter, stop, panicked, early>>
    BY DEF EndContext, IInv
  <1> QED BY <1>2, <1>5, <1>6, QuietStep

\* The steps of a listing that only move its goroutine on.
LEMMA ListMoveSound ==
  ASSUME NEW c, Sound(c), c.kind = "list",
         NEW pc \in {"ending", "closeOut", "closedOut"}, NEW h \in {0, 1},
         (h = 1) <=> (pc = "ending"), NEW d, d = [c EXCEPT !.pc = pc, !.held = h],
         c.pc = "listing" => c.over \/ (c.left = 0 /\ c.hand = "none"),
         c.pc \in {"listing", "ending", "closeOut"}
  PROVE  Sound(d)
  <1>1. c \in Call
    BY DEF Sound
  <1>6. pc \in PCs /\ h \in 0..2
    BY DEF PCs
  <1>2. d \in Call /\ SameList(c, d) /\ d.pc = pc /\ d.held = h /\ d.over = c.over
    BY <1>1, <1>6 DEF Call, SameList
  <1>3. Sum(d) = Sum(c) /\ (Broken(d) <=> Broken(c))
    BY <1>2, SameSum
  <1>4. Place(d)
    BY <1>2 DEF Place, SameList
  <1>5. Lists(d)
    BY <1>2, <1>3 DEF Sound, Lists, SameList
  <1> QED BY <1>2, <1>4, <1>5 DEF Sound, SameList

LEMMA ListLeavesKeeps ==
  ASSUME IInv, NEW p \in Procs, ListGivesUp(p) \/ ListEnd(p) \/ ListCloseOut(p)
  PROVE  IInv'
  <1> DEFINE c == call[p]
  <1>1. Sound(c) /\ c \in Call
    BY DEF IInv, Sound
  <1>2. PICK pc \in {"ending", "closedOut"} :
          /\ call' = [call EXCEPT ![p].pc = pc]
          /\ pc = "ending" => c.pc = "listing"
          /\ pc = "closedOut" => c.pc = "closeOut"
          /\ c.pc = "listing" => c.over \/ (c.left = 0 /\ c.hand = "none")
    BY DEF ListGivesUp, ListEnd, ListCloseOut, Goto
  <1> DEFINE d == [c EXCEPT !.pc = pc, !.held = c.held]
  <1>3. c.kind = "list" /\ c.held \in {0, 1} /\ ((c.held = 1) <=> (pc = "ending"))
    BY <1>1, <1>2 DEF Sound, Place
  <1>4. Sound(d)
    BY <1>1, <1>2, <1>3, ListMoveSound
  <1>5. d = [c EXCEPT !.pc = pc] /\ d.held = c.held /\ (Over(c) => Over(d))
    BY <1>1, <1>2 DEF Call, Over
  <1>6. /\ call' = [call EXCEPT ![p] = d]
        /\ UNCHANGED <<closed, count, waiter, stop, panicked, early>>
    BY <1>2, <1>5 DEF IInv, ListGivesUp, ListEnd, ListCloseOut
  <1> QED BY <1>4, <1>5, <1>6, QuietStep

LEMMA ListFinishKeeps ==
  ASSUME IInv, NEW p \in Procs, ListFinish(p)
  PROVE  IInv'
  <1> DEFINE c == call[p]
             d == [c EXCEPT !.pc = "closeOut", !.held = 0]
  <1>1. Sound(c) /\ c \in Call /\ c.kind = "list" /\ c.pc = "ending" /\ c.held = 1
    BY DEF ListFinish, At, IInv, Sound, Place
  <1>2. Sound(d)
    <2>1. d = [c EXCEPT !.pc = "closeOut", !.held = 0] /\ 0 \in {0, 1}
      OBVIOUS
    <2>2. "closeOut" \in {"ending", "closeOut", "closedOut"} /\ ((0 = 1) <=> ("closeOut" = "ending"))
      OBVIOUS
    <2>3. c.pc # "listing" /\ c.pc \in {"listing", "ending", "closeOut"}
      BY <1>1
    <2> HIDE DEF d, c
    <2> QED BY <1>1, <2>1, <2>2, <2>3, ListMoveSound
  <1>3. d.held = 0 /\ Over(d)
    BY <1>1 DEF Call, Over
  <1>4. call' = [call EXCEPT ![p] = d]
    BY DEF ListFinish, IInv
  <1>5. c.held > 0 /\ d.held = c.held - 1 /\ Done /\ UNCHANGED <<closed, stop, early>>
    BY <1>1, <1>3 DEF ListFinish
  <1> QED BY <1>2, <1>3, <1>4, <1>5, DoneStep

LEMMA ListNextKeeps ==
  ASSUME IInv, NEW p \in Procs, ListNext(p)
  PROVE  IInv'
  <1> DEFINE c == call[p]
  <1>1. Sound(c) /\ c \in Call /\ c.pc = "listing" /\ c.hand = "none" /\ c.kind = "list"
    BY DEF IInv, Sound, Place, ListNext
  <1>2. PICK hand \in {"item", "error"}, left \in 0..Objects :
          /\ call' = [call EXCEPT ![p] = [c EXCEPT !.hand = hand, !.left = left]]
          /\ hand = "item" => c.left > 0 /\ left = c.left - 1
          /\ hand = "error" => left = c.left
    <2>1. c.left \in 0..Objects /\ Objects \in Nat
      BY <1>1, ConstantsAssumption DEF Call
    <2>2. CASE c.left > 0 /\ call' = [call EXCEPT ![p].hand = "item", ![p].left = @ - 1]
      <3>1. c.left - 1 \in 0..Objects
        BY <2>1, <2>2
      <3>2. call' = [call EXCEPT ![p] = [c EXCEPT !.hand = "item", !.left = c.left - 1]]
        BY <2>2 DEF IInv
      <3> QED BY <2>2, <3>1, <3>2
    <2>3. CASE call' = [call EXCEPT ![p].hand = "error"]
      <3>1. [c EXCEPT !.hand = "error"] = [c EXCEPT !.hand = "error", !.left = c.left]
        BY <1>1 DEF Call
      <3>2. call' = [call EXCEPT ![p] = [c EXCEPT !.hand = "error", !.left = c.left]]
        BY <2>3, <3>1 DEF IInv
      <3> QED BY <2>1, <3>2
    <2> QED BY <2>2, <2>3 DEF ListNext
  <1> DEFINE d == [c EXCEPT !.hand = hand, !.left = left]
  <1>3. /\ d \in Call /\ d.pc = c.pc /\ d.held = c.held /\ d.kind = c.kind /\ d.over = c.over
        /\ d.buf = c.buf /\ d.got = c.got /\ d.failed = c.failed
        /\ d.hand = hand /\ d.left = left
    BY <1>1 DEF Call
  <1>4. Broken(d) <=> Broken(c)
    BY <1>3 DEF Broken
  <1>5. Sum(d) = Sum(c)
    <2>1. c.left \in Nat /\ c.got \in Nat /\ Len(c.buf) \in Nat
      BY <1>1 DEF Call
    <2>2. hand = "item" => left + 1 = c.left
      BY <1>2, <2>1
    <2>3. \/ d.hand = "item" /\ d.left + 1 = c.left
          \/ d.hand = "error" /\ d.left = c.left
      BY <1>2, <1>3, <2>2
    <2>4. d.left \in Nat
      BY <1>3
    <2> HIDE DEF c, d
    <2> QED BY <1>1, <1>3, <2>1, <2>3, <2>4, SumTakes
  <1>6. Place(d) /\ Lists(d)
    BY <1>1, <1>3, <1>4, <1>5 DEF Sound, Place, Lists
  <1>7. Sound(d) /\ ~Over(c)
    BY <1>1, <1>3, <1>6 DEF Sound, Over
  <1>8. UNCHANGED <<closed, count, waiter, stop, panicked, early>>
    BY DEF ListNext
  <1> QED BY <1>2, <1>3, <1>7, <1>8, QuietStep

LEMMA SendSound ==
  ASSUME NEW c, Sound(c), c.pc = "listing", c.hand # "none", Len(c.buf) < Buffer,
         NEW pc, pc = IF c.hand = "error" THEN "ending" ELSE "listing",
         NEW d, d = [c EXCEPT !.buf = Append(c.buf, c.hand), !.hand = "none", !.pc = pc]
  PROVE  Sound(d) /\ d.held = c.held
  <1> DEFINE n == Len(c.buf)
             hand == c.hand
             buf == Append(c.buf, hand)
  <1>1. /\ c \in Call /\ c.kind = "list" /\ ~c.failed /\ ~Broken(c) /\ c.held = 1
        /\ hand \in {"item", "error"} /\ c.buf \in Seq({"item", "error"})
    <2>1. c \in Call
      BY DEF Sound
    <2> QED BY <2>1 DEF Sound, Place, Lists, Call
  <1>2. /\ n \in Nat /\ buf \in Seq({"item", "error"}) /\ Len(buf) = n + 1
        /\ buf[n + 1] = hand /\ \A k \in 1..n : buf[k] = c.buf[k]
    BY <1>1
  <1>3. pc \in PCs /\ pc \in {"listing", "ending"}
    BY DEF PCs
  <1> HIDE DEF buf
  <1>4. d = [c EXCEPT !.buf = buf, !.hand = "none", !.pc = pc]
    BY DEF buf
  <1>5. /\ d \in Call /\ d.pc = pc /\ d.held = c.held /\ d.kind = c.kind /\ d.over = c.over
        /\ d.buf = buf /\ d.got = c.got /\ d.failed = c.failed /\ d.hand = "none"
        /\ d.left = c.left
    BY <1>1, <1>2, <1>3, <1>4 DEF Call
  <1>6. Broken(d) <=> hand = "error"
    <2>1. buf # << >>
      BY <1>2
    <2> QED BY <1>2, <1>5, <2>1 DEF Broken
  <1>7. c.got \in Nat /\ c.left \in Nat
    BY <1>1, ConstantsAssumption DEF Call
  <1>8. Sum(d) = Sum(c)
    <2>1. Len(d.buf) = n + 1 /\ d.hand # "item"
      BY <1>2, <1>5
    <2>2. CASE hand = "item"
      <3>1. Sum(d) = c.got + (n + 1) - 0 + 0 + c.left
        BY <1>5, <1>6, <2>1, <2>2 DEF Sum
      <3>2. Sum(c) = c.got + n - 0 + 1 + c.left
        BY <1>1, <2>2 DEF Sum
      <3> QED BY <1>2, <1>7, <3>1, <3>2
    <2>3. CASE hand = "error"
      <3>1. Sum(d) = c.got + (n + 1) - 1 + 0 + c.left
        BY <1>5, <1>6, <2>1, <2>3 DEF Sum
      <3>2. Sum(c) = c.got + n - 0 + 0 + c.left
        BY <1>1, <2>3 DEF Sum
      <3> QED BY <1>2, <1>7, <3>1, <3>2
    <2> QED BY <1>1, <2>2, <2>3
  <1>9. ASSUME NEW k \in 1..Len(d.buf), d.buf[k] = "error" PROVE k = Len(d.buf)
    <2>1. CASE k \in 1..n
      <3>1. c.buf[k] = "error"
        BY <1>2, <1>5, <1>9, <2>1
      <3>2. k = n
        BY <2>1, <3>1 DEF Sound, Lists
      <3>3. c.buf # << >>
        BY <2>1
      <3> QED BY <1>1, <3>1, <3>2, <3>3 DEF Broken
    <2> QED BY <1>2, <1>5, <1>9, <2>1
  <1>10. Place(d)
    BY <1>1, <1>3, <1>5 DEF Place
  <1>11. Lists(d)
    <2>1. /\ d.kind = "list" /\ ~d.failed /\ Sum(d) <= Objects
          /\ ~d.over => Sum(d) = Objects
      BY <1>1, <1>5, <1>8 DEF Sound, Lists
    <2>2. d.pc \in {"listing", "ending"} /\ (d.pc = "listing" => ~Broken(d))
          /\ (d.pc = "ending" => Broken(d))
      <3>1. CASE hand = "error"
        BY <1>5, <1>6, <3>1
      <3>2. CASE hand = "item"
        <4>1. pc = "listing" /\ ~Broken(d)
          BY <1>6, <3>2
        <4> QED BY <1>5, <4>1
      <3> QED BY <1>1, <3>1, <3>2
    <2> QED BY <1>9, <2>1, <2>2 DEF Lists
  <1>12. Len(d.buf) <= Buffer
    BY <1>2, <1>5, ConstantsAssumption
  <1> QED BY <1>5, <1>10, <1>11, <1>12 DEF Sound

LEMMA ListSendKeeps ==
  ASSUME IInv, NEW p \in Procs, ListSend(p)
  PROVE  IInv'
  <1> DEFINE c == call[p]
             pc == IF c.hand = "error" THEN "ending" ELSE "listing"
             d == [c EXCEPT !.buf = Append(c.buf, c.hand), !.hand = "none", !.pc = pc]
  <1>1. /\ Sound(c) /\ c.pc = "listing" /\ c.hand # "none" /\ Len(c.buf) < Buffer
        /\ UNCHANGED <<closed, count, waiter, stop, panicked, early>>
    BY DEF IInv, ListSend
  <1>2. call' = [call EXCEPT ![p] = d]
    BY DEF IInv, ListSend
  <1>3. Sound(d) /\ d.held = c.held
    <2>1. /\ d = [c EXCEPT !.buf = Append(c.buf, c.hand), !.hand = "none", !.pc = pc]
          /\ pc = IF c.hand = "error" THEN "ending" ELSE "listing"
      OBVIOUS
    <2> HIDE DEF c, d, pc
    <2> QED BY <1>1, <2>1, SendSound
  <1>4. ~Over(c)
    BY <1>1 DEF Over
  <1> QED BY <1>1, <1>2, <1>3, <1>4, QuietStep

LEMMA ReceiveSound ==
  ASSUME NEW c, Sound(c), c.kind = "list", c.buf # << >>,
         NEW d,
         \/ /\ Head(c.buf) = "item"
            /\ d = [c EXCEPT !.buf = Tail(c.buf), !.got = c.got + 1, !.failed = FALSE]
         \/ /\ Head(c.buf) = "error"
            /\ d = [c EXCEPT !.buf = Tail(c.buf), !.got = c.got, !.failed = TRUE]
  PROVE  Sound(d) /\ d.held = c.held /\ d.pc = c.pc
  <1> DEFINE n == Len(c.buf)
             tail == Tail(c.buf)
             error == c.buf[1] = "error"
             got == IF error THEN c.got ELSE c.got + 1
             h == IF c.hand = "item" THEN 1 ELSE 0
             b == IF Broken(c) THEN 1 ELSE 0
  <1>1. /\ c \in Call /\ c.buf \in Seq({"item", "error"}) /\ c.got \in Nat
        /\ c.left \in Nat /\ n <= Buffer /\ Objects \in Nat /\ Buffer \in Nat
    <2>1. c \in Call
      BY DEF Sound
    <2> QED BY <2>1, ConstantsAssumption DEF Sound, Call
  <1>2. /\ n \in Nat \ {0} /\ tail \in Seq({"item", "error"}) /\ Len(tail) = n - 1
        /\ \A k \in 1..(n - 1) : tail[k] = c.buf[k + 1]
        /\ Head(c.buf) = c.buf[1] /\ c.buf[1] \in {"item", "error"}
    BY <1>1
  <1>3. error => n = 1 /\ Broken(c)
    <2>1. 1 \in 1..Len(c.buf)
      BY <1>2
    <2>2. error => 1 = Len(c.buf)
      BY <2>1 DEF Sound, Lists
    <2> QED BY <2>2 DEF Broken
  <1>4. ~error => (Broken(c) => n > 1)
    BY <1>2 DEF Broken
  <1>5. Sum(c) = c.got + n - b + h + c.left /\ h \in {0, 1} /\ b \in {0, 1}
    BY DEF Sum
  <1>6. got \in 0..Objects
    <2>1. CASE error
      BY <1>1, <1>2, <2>1 DEF Call
    <2>2. CASE ~error
      <3>1. Sum(c) <= Objects /\ got = c.got + 1
        BY <1>2, <2>2 DEF Sound, Lists
      <3>2. n - b >= 1
        BY <1>2, <1>4, <2>2
      <3>3. /\ c.got \in Nat /\ c.left \in Nat /\ n \in Int /\ b \in Int /\ h \in Nat
            /\ Objects \in Nat
        BY <1>1, <1>2, <1>5
      <3> HIDE DEF h, n, b
      <3>4. c.got + n - b + h + c.left <= Objects
        BY <1>5, <3>1
      <3>5. c.got + 1 \in 0..Objects
        BY <3>2, <3>3, <3>4
      <3> QED BY <3>1, <3>5
    <2> QED BY <2>1, <2>2
  <1>7. \/ /\ ~error /\ got = c.got + 1
           /\ d = [c EXCEPT !.buf = tail, !.got = got, !.failed = FALSE]
        \/ /\ error /\ got = c.got
           /\ d = [c EXCEPT !.buf = tail, !.got = got, !.failed = TRUE]
    BY <1>2
  <1> HIDE DEF tail, got
  <1>8. /\ d \in Call /\ d.pc = c.pc /\ d.held = c.held /\ d.kind = c.kind /\ d.over = c.over
        /\ d.buf = tail /\ d.got = got /\ d.failed = error /\ d.hand = c.hand
        /\ d.left = c.left
    <2>1. CASE ~error /\ d = [c EXCEPT !.buf = tail, !.got = got, !.failed = FALSE]
      <3>1. d \in Call /\ d.failed = FALSE
        BY <1>1, <1>2, <1>6, <2>1 DEF Call
      <3> QED BY <1>1, <2>1, <3>1 DEF Call
    <2>2. CASE error /\ d = [c EXCEPT !.buf = tail, !.got = got, !.failed = TRUE]
      <3>1. d \in Call /\ d.failed = TRUE
        BY <1>1, <1>2, <1>6, <2>2 DEF Call
      <3> QED BY <1>1, <2>2, <3>1 DEF Call
    <2> QED BY <1>7, <2>1, <2>2
  <1>9. Place(d)
    BY <1>8 DEF Sound, Place
  <1>10. Len(d.buf) <= Buffer
    BY <1>1, <1>2, <1>8
  <1>11. CASE error
    <2>1. d.buf = << >> /\ Len(d.buf) = 0
      BY <1>2, <1>3, <1>8, <1>11
    <2>2. ~Broken(d)
      BY <2>1 DEF Broken
    <2>3. Sum(d) = got + 0 - 0 + h + c.left /\ got = c.got /\ n = 1 /\ b = 1
      BY <1>2, <1>3, <1>8, <1>11, <2>1, <2>2 DEF Sum, got
    <2>4. Sum(d) = Sum(c)
      <3> HIDE DEF h, n, b
      <3> QED BY <1>1, <1>5, <2>3
    <2>5. d.failed /\ d.pc \notin {"checked", "listing"}
      BY <1>3, <1>8, <1>11 DEF Sound, Lists
    <2>6. Lists(d)
      BY <1>8, <2>1, <2>2, <2>4, <2>5 DEF Sound, Lists
    <2> QED BY <1>8, <1>9, <1>10, <2>6 DEF Sound
  <1>12. CASE ~error
    <2>1. Broken(d) <=> Broken(c)
      <3>1. CASE n = 1
        <4>1. tail = << >> /\ ~Broken(c)
          BY <1>2, <1>12, <3>1 DEF Broken
        <4> QED BY <1>8, <4>1 DEF Broken
      <3>2. CASE n > 1
        <4>1. tail # << >> /\ tail[n - 1] = c.buf[n] /\ Len(tail) = n - 1
          BY <1>2, <3>2
        <4> QED BY <1>8, <4>1 DEF Broken
      <3>3. n = 1 \/ n > 1
        <4> HIDE DEF n
        <4> QED BY <1>2
      <3> QED BY <3>1, <3>2, <3>3
    <2>6. got = c.got + 1
      BY <1>2, <1>12 DEF got
    <2>2. Sum(d) = (c.got + 1) + (n - 1) - b + h + c.left
      BY <1>2, <1>8, <2>1, <2>6 DEF Sum
    <2>3. Sum(d) = Sum(c)
      <3>1. c.got \in Int /\ c.left \in Int /\ n \in Int /\ b \in Int /\ h \in Int
        BY <1>1, <1>2, <1>5
      <3> HIDE DEF h, n, b
      <3>2. (c.got + 1) + (n - 1) - b + h + c.left = c.got + n - b + h + c.left
        BY <3>1
      <3> QED BY <1>5, <2>2, <3>2
    <2>4. ASSUME NEW k \in 1..Len(d.buf), d.buf[k] = "error" PROVE k = Len(d.buf)
      <3>1. k \in 1..(n - 1) /\ c.buf[k + 1] = "error" /\ k + 1 \in 1..n
        BY <1>2, <1>8, <2>4
      <3>2. k + 1 = n
        BY <3>1 DEF Sound, Lists
      <3> QED BY <1>2, <1>8, <3>1, <3>2
    <2>5. Lists(d)
      BY <1>8, <1>12, <2>1, <2>3, <2>4 DEF Sound, Lists
    <2> QED BY <1>8, <1>9, <1>10, <2>5 DEF Sound
  <1> QED BY <1>11, <1>12

LEMMA ReceiveKeeps ==
  ASSUME IInv, NEW p \in Procs, Receive(p)
  PROVE  IInv'
  <1> DEFINE c == call[p]
             d == call'[p]
  <1>1. /\ Sound(c) /\ c \in Call /\ c.kind = "list" /\ c.buf # << >>
        /\ UNCHANGED <<closed, count, waiter, stop, panicked, early>>
    BY DEF IInv, Sound, Receive
  <1>2. \/ /\ Head(c.buf) = "item"
           /\ d = [c EXCEPT !.buf = Tail(c.buf), !.got = c.got + 1, !.failed = FALSE]
        \/ /\ Head(c.buf) = "error"
           /\ d = [c EXCEPT !.buf = Tail(c.buf), !.got = c.got, !.failed = TRUE]
    <2>1. Head(c.buf) \in {"item", "error"}
      <3>1. c.buf \in Seq({"item", "error"})
        BY <1>1 DEF Call
      <3> QED BY <1>1, <3>1
    <2>2. d = [c EXCEPT !.buf = Tail(c.buf),
                        !.got = IF Head(c.buf) = "item" THEN c.got + 1 ELSE c.got,
                        !.failed = Head(c.buf) = "error"]
      BY DEF IInv, Receive
    <2>3. CASE Head(c.buf) = "item"
      <3>1. (Head(c.buf) = "error") = FALSE
        BY <2>3
      <3> QED BY <2>2, <2>3, <3>1
    <2>4. CASE Head(c.buf) = "error"
      <3>1. (Head(c.buf) = "error") = TRUE /\ Head(c.buf) # "item"
        BY <2>4
      <3> QED BY <2>2, <2>4, <3>1
    <2> QED BY <2>1, <2>3, <2>4
  <1>3. Sound(d) /\ d.held = c.held /\ d.pc = c.pc
    <2> HIDE DEF c, d
    <2> QED BY <1>1, <1>2, ReceiveSound
  <1>4. Over(c) => Over(d)
    BY <1>3 DEF Over
  <1>5. call' = [call EXCEPT ![p] = d]
    BY DEF IInv, Receive
  <1> QED BY <1>1, <1>3, <1>4, <1>5, QuietStep

-----------------------------------------------------------------------------
(* Shutdown. *)

\* Steps that leave the calls and the counter alone.
LEMMA StopStep ==
  ASSUME IInv, UNCHANGED <<count, call>>, Draining'
  PROVE  IInv'
  <1>1. Tokens' = Tokens
    BY DEF Tokens
  <1> QED BY <1>1 DEF IInv

\* What registered before closed was set is in early, and nothing else.
LEMMA StopBeginKeeps ==
  ASSUME IInv, NEW s \in Stoppers, StopBegin(s)
  PROVE  IInv'
  <1>1. CASE closed
    <2>1. Draining'
      BY <1>1 DEF IInv, Draining, StopBegin, Over
    <2> QED BY <2>1, StopStep DEF StopBegin
  <1>2. CASE ~closed
    <2>1. /\ early' = {p \in Procs : call[p].held > 0} /\ waiter' = "starting" /\ closed' = TRUE
          /\ stop' = [stop EXCEPT ![s] = "waiting"] /\ UNCHANGED <<count, call, panicked>>
      BY <1>2 DEF StopBegin
    <2>2. \A t \in Stoppers : stop[t] # "drained"
      BY <1>2 DEF IInv, Draining
    <2>3. \A t \in Stoppers : stop'[t] # "drained"
      BY <2>1, <2>2 DEF IInv, Draining
    <2>4. Draining'
      BY <2>1, <2>3 DEF IInv, Draining, Over
    <2> QED BY <2>1, <2>4, StopStep
  <1> QED BY <1>1, <1>2 DEF IInv, Draining

LEMMA WaitBeginKeeps ==
  ASSUME IInv, WaitBegin
  PROVE  IInv'
  <1>1. ASSUME count = 0, NEW p \in early PROVE Over(call[p])
    <2>1. call[p].held = 0
      BY <1>1, NothingHeld DEF IInv, Draining
    <2> QED BY <2>1 DEF IInv, Draining
  <1>2. Draining'
    BY <1>1 DEF IInv, Draining, WaitBegin, Over
  <1> QED BY <1>2, StopStep DEF WaitBegin

LEMMA WaitEndKeeps ==
  ASSUME IInv, WaitEnd
  PROVE  IInv'
  <1>1. Draining'
    BY DEF IInv, Draining, WaitEnd, Over
  <1> QED BY <1>1, StopStep DEF WaitEnd

LEMMA StopReturnsKeeps ==
  ASSUME IInv, NEW s \in Stoppers, StopDrained(s) \/ StopExpires(s)
  PROVE  IInv'
  <1>1. Draining'
    BY DEF IInv, Draining, StopDrained, StopExpires, Over
  <1> QED BY <1>1, StopStep DEF StopDrained, StopExpires

-----------------------------------------------------------------------------
(* The specification. *)

LEMMA InitIInv == Init => IInv
  <1> SUFFICES ASSUME Init PROVE IInv
    OBVIOUS
  <1>1. call \in [Procs -> Call] /\ \A p \in Procs : call[p] = NoCall
    BY NoCallSound DEF Init, Sound
  <1>2. \A p \in Procs : Sound(call[p])
    BY <1>1, NoCallSound
  <1>3. Tokens = {}
    <2>1. \A p \in Procs : call[p].held = 0
      BY <1>1 DEF NoCall
    <2> QED BY <2>1 DEF Tokens
  <1>4. count = Cardinality(Tokens)
    BY <1>3, FS_EmptySet DEF Init
  <1>5. Draining
    BY DEF Init, Draining
  <1> QED BY <1>1, <1>2, <1>4, <1>5 DEF IInv

LEMMA NextIInv == IInv /\ [Next]_vars => IInv'
  <1> SUFFICES ASSUME IInv, [Next]_vars PROVE IInv'
    OBVIOUS
  <1>1. CASE UNCHANGED vars
    BY <1>1 DEF vars, IInv, Draining, Tokens, Over
  <1>2. ASSUME NEW p \in Procs, NEW kind \in Kinds \ {"health"}, Begin(p, kind) PROVE IInv'
    BY <1>2, BeginKeeps
  <1>3. ASSUME NEW p \in Procs, BeginHealth(p) PROVE IInv'
    BY <1>3, BeginHealthKeeps
  <1>4. ASSUME NEW p \in Procs, EndContext(p) PROVE IInv'
    BY <1>4, EndContextKeeps
  <1>5. ASSUME NEW p \in Procs, Work(p) PROVE IInv'
    BY <1>5, RegisterKeeps, FinishKeeps, MoveKeeps, FinishNestedKeeps, ForgetKeeps,
       ListNextKeeps, ListSendKeeps, ListLeavesKeeps, ListFinishKeeps DEF Work
  <1>6. ASSUME NEW p \in Procs, CloseReader(p) \/ DropReader(p) \/ Receive(p) \/ ReceiveEnd(p)
        PROVE  IInv'
    BY <1>6, CloseReaderKeeps, ForgetKeeps, ReceiveKeeps
  <1>7. ASSUME NEW s \in Stoppers, StopBegin(s) \/ StopDrained(s) \/ StopExpires(s)
        PROVE  IInv'
    BY <1>7, StopBeginKeeps, StopReturnsKeeps
  <1>8. ASSUME WaitBegin \/ WaitEnd PROVE IInv'
    BY <1>8, WaitBeginKeeps, WaitEndKeeps
  <1> QED BY <1>1, <1>2, <1>3, <1>4, <1>5, <1>6, <1>7, <1>8 DEF Next

LEMMA Invariant == Spec => []IInv
  BY InitIInv, NextIInv, PTL DEF Spec

\* Type correctness: the counter of the WaitGroup never goes below zero, and
\* the channel of a listing never holds more than its capacity.
THEOREM TypeCorrect == Spec => []TypeOK
  <1>1. IInv => TypeOK
    BY TokensFinite DEF IInv, Draining, TypeOK, Sound
  <1> QED BY <1>1, Invariant, PTL

\* When Shutdown has returned nil, every operation registered before it began
\* is over, whatever registered since: so beginOp, finish and the WaitGroup
\* drain the readers of GetObject and the goroutines of ListObjects too.
THEOREM ShutdownDrains == Spec => []EarlyCallsDrained
  <1>1. ASSUME IInv, NEW s \in Stoppers, stop[s] = "drained", NEW p \in early
        PROVE  ~Busy(p)
    <2>1. Over(call[p])
      BY <1>1 DEF IInv, Draining
    <2> QED BY <2>1 DEF Over, Busy
  <1>2. IInv => EarlyCallsDrained
    BY <1>1 DEF EarlyCallsDrained
  <1> QED BY <1>2, Invariant, PTL

\* A listing under a live context that ends without an error item delivered
\* every object, through a channel of any capacity.
THEOREM ListingsComplete == Spec => []ListingComplete
  <1>1. ASSUME IInv, NEW p \in Procs, call[p].pc = "closedOut", call[p].buf = << >>,
               ~call[p].over, ~call[p].failed
        PROVE  call[p].got = Objects
    <2> DEFINE c == call[p]
    <2>1. Sound(c) /\ c.kind = "list" /\ c \in Call
      BY <1>1 DEF IInv, Sound, Place
    <2>2. ~Broken(c) /\ Len(c.buf) = 0
      BY <1>1 DEF Broken
    <2>3. Sum(c) = Objects /\ c.left = 0 /\ c.hand = "none"
      BY <1>1, <2>1, <2>2 DEF Sound, Lists
    <2>4. Sum(c) = c.got
      BY <2>1, <2>2, <2>3 DEF Sum, Call
    <2> QED BY <2>3, <2>4
  <1>2. IInv => ListingComplete
    BY <1>1 DEF ListingComplete
  <1> QED BY <1>2, Invariant, PTL
=============================================================================
