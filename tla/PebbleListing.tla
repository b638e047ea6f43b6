---------------------------- MODULE PebbleListing ----------------------------
(***************************************************************************)
(* List of the Pebble-backed repository and the iterator it returns        *)
(* (List in repository.go, iterator.go), beside goroutines that create,    *)
(* move and delete records.  The iterator walks the index as it was when   *)
(* List was called and reads each record as it is now.  A caller pages     *)
(* through a listing with the cursors it gets.                             *)
(*                                                                         *)
(* The repository is what PebbleRepository shows of it: a commit is one    *)
(* step, and records and index agree (IndexConsistent), so the index is    *)
(* given by the locations of the records.                                  *)
(***************************************************************************)
EXTENDS Integers, FiniteSets, KeySchema

CONSTANTS
    Ids,               \* object IDs
    Buckets, Keys,     \* names, as byte strings
    Absent,            \* no record under an ID
    Prefixes, Limits,  \* the prefixes and limits that callers pass
    DefaultListLimit,  \* the limit of a request without one
    MaxListLimit       \* the largest limit

Locs == [bucket: Buckets, key: Keys]

ASSUME ListingAssumption ==
    /\ IsFiniteSet(Ids)
    /\ Buckets \subseteq Bytes \ {<< >>}
    /\ Keys \subseteq Bytes \ {<< >>}
    /\ Absent \notin Locs
    /\ Prefixes \subseteq Bytes
    /\ Limits \subseteq Int
    /\ DefaultListLimit \in 1..MaxListLimit
    /\ MaxListLimit \in Nat

VARIABLES
    at,      \* the location of each record
    iter,    \* the iterator of the caller
    cursor,  \* the cursor the caller keeps, a key; empty if it has none
    paging   \* history: the listing that the pages belong to

vars == <<at, iter, cursor, paging>>

Scans == [bucket: Buckets \cup {<< >>}, prefix: Prefixes]
Requests == [scan: Scans, limit: Limits]

-----------------------------------------------------------------------------
(* The index. *)

Present == {i \in Ids : at[i] # Absent}
Free(l) == \A i \in Present : at[i] # l
SecondaryKey == [l \in Locs |-> encodeSecondaryKey(l.bucket, l.key)]
Precedes == {p \in Locs \X Locs : Before(SecondaryKey[p[1]], SecondaryKey[p[2]])}

\* What the caller may hold as a cursor.
Cursors == {<< >>} \cup {SecondaryKey[l] : l \in Locs}

\* The first of a set of entries in key order.
Least(entries) ==
    CHOOSE e \in entries : \A f \in entries : <<f.loc, e.loc>> \notin Precedes

-----------------------------------------------------------------------------
(* The iterator. *)

Closed == [open |-> FALSE, ahead |-> {}, limit |-> 0, count |-> 0,
           lastKey |-> << >>, end |-> "none"]

\* Mutant: a limit above the largest is taken as it is.
LimitUncapped(n) == IF n <= 0 THEN DefaultListLimit ELSE n

Limit(n) ==
    IF n <= 0 THEN DefaultListLimit
    ELSE IF n > MaxListLimit THEN MaxListLimit ELSE n

\* Mutant: the page after a cursor starts at the key of the cursor.
LowerAtCursor(req, c) ==
    IF c = << >> THEN LowerBound(req.bucket, req.prefix) ELSE c

\* A cursor replaces the lower bound of the request, whatever request it came
\* from.
Lower(req, c) ==
    IF c = << >> THEN LowerBound(req.bucket, req.prefix) ELSE incrementBytes(c)

\* The locations between the bounds of a request with a cursor.
Covered == {t \in Scans \X Cursors \X Locs :
              InScan(SecondaryKey[t[3]], Lower(t[1], t[2]), UpperBound(t[1].bucket, t[1].prefix))}

\* List: the iterator over a snapshot of the index between the bounds.  If the
\* first read of the index fails, List returns the empty iterator and no error,
\* as for a listing that finds nothing.
Listing(req, c, fails) ==
    [Closed EXCEPT !.open = TRUE, !.limit = Limit(req.limit),
                   !.ahead = {[id |-> i, loc |-> at[i]] :
                                i \in {j \in Present : /\ ~fails
                                                       /\ <<req.scan, c, at[j]>> \in Covered}}]

-----------------------------------------------------------------------------
(* The caller. *)

NoPaging == [active |-> FALSE, req |-> [scan |-> [bucket |-> << >>, prefix |-> << >>], limit |-> 0],
             own |-> TRUE, blind |-> FALSE, visited |-> {}, steady |-> {}, changed |-> {}]

\* A listing begins, with no cursor or with one that an earlier listing left
\* the caller, maybe of another request.
Begin(req, c, fails) ==
    /\ ~iter.open /\ ~paging.active
    /\ c \in {<< >>, cursor}
    /\ iter' = Listing(req, c, fails)
    /\ paging' = [NoPaging EXCEPT !.active = TRUE, !.req = req, !.own = (c = << >>),
                                  !.blind = fails, !.steady = Present]
    /\ cursor' = c
    /\ UNCHANGED at

\* Mutant: the caller asks the iterator for its cursor after Close, which
\* answers with none.
ContinueWithoutCursor(fails) ==
    /\ ~iter.open /\ paging.active
    /\ cursor # << >>
    /\ iter' = Listing(paging.req, << >>, fails)
    /\ paging' = [paging EXCEPT !.changed = {}, !.blind = fails]
    /\ UNCHANGED <<at, cursor>>

\* The next page, from the cursor of the last one.
Continue(fails) ==
    /\ ~iter.open /\ paging.active
    /\ cursor # << >>
    /\ iter' = Listing(paging.req, cursor, fails)
    /\ paging' = [paging EXCEPT !.changed = {}, !.blind = fails]
    /\ UNCHANGED <<at, cursor>>

\* Next finds an entry and reads its record from the live database.
NextItem ==
    /\ iter.open /\ iter.end = "none"
    /\ iter.count < iter.limit
    /\ iter.ahead # {}
    /\ LET e == Least(iter.ahead)
       IN  /\ at[e.id] # Absent
           /\ iter' = [iter EXCEPT !.ahead = @ \ {e}, !.count = @ + 1,
                                   !.lastKey = SecondaryKey[e.loc]]
           /\ paging' = [paging EXCEPT !.visited = @ \cup {e.loc}]
    /\ UNCHANGED <<at, cursor>>

\* The record of the entry is gone, or a read of index or record fails: the
\* iterator ends with an error.
NextFails ==
    /\ iter.open /\ iter.end = "none"
    /\ iter.count < iter.limit
    /\ iter' = [iter EXCEPT !.end = "error"]
    /\ UNCHANGED <<at, cursor, paging>>

\* Next returns false: the page is full, or the scan is over.
NextEnds ==
    /\ iter.open /\ iter.end = "none"
    /\ iter.count >= iter.limit \/ iter.ahead = {}
    /\ iter' = [iter EXCEPT !.end = IF iter.count >= iter.limit THEN "limit" ELSE "exhausted"]
    /\ UNCHANGED <<at, cursor, paging>>

\* The caller keeps the cursor and closes the iterator, at the end of a page
\* or before; the listing is over when the scan was, or there is no cursor.
CloseIterator ==
    /\ iter.open
    /\ iter' = Closed
    /\ cursor' = iter.lastKey
    /\ paging' = IF iter.end = "exhausted" \/ iter.lastKey = << >>
                 THEN NoPaging ELSE paging
    /\ UNCHANGED at
-----------------------------------------------------------------------------
(* Concurrent writers: batches of Create, of an Update that changes the key,  *)
(* and of Delete, under the discipline of PebbleRepository's Permitted.       *)

Placed(i, l) ==
    /\ at' = [at EXCEPT ![i] = l]
    /\ paging' = [paging EXCEPT !.steady = @ \ {i},
                                !.changed = IF iter.open THEN @ \cup {i} ELSE @]
    /\ UNCHANGED <<iter, cursor>>

CommitCreate(i, l) == at[i] = Absent /\ Free(l) /\ Placed(i, l)
CommitMove(i, l)   == at[i] # Absent /\ Free(l) /\ Placed(i, l)
CommitDelete(i)    == at[i] # Absent /\ Placed(i, Absent)

-----------------------------------------------------------------------------

Init ==
    /\ at \in [Ids -> Locs \cup {Absent}]
    /\ \A i, j \in Present : i # j => at[i] # at[j]
    /\ iter = Closed
    /\ cursor = << >>
    /\ paging = NoPaging

Read == NextItem \/ NextFails \/ NextEnds \/ CloseIterator

Next ==
    \/ \E req \in Requests, c \in {<< >>, cursor}, fails \in BOOLEAN : Begin(req, c, fails)
    \/ \E fails \in BOOLEAN : Continue(fails)
    \/ NextItem \/ NextFails \/ NextEnds \/ CloseIterator
    \/ \E i \in Ids : \/ \E l \in Locs : CommitCreate(i, l) \/ CommitMove(i, l)
                      \/ CommitDelete(i)

Spec == Init /\ [][Next]_vars

\* The caller goes on reading and paging until its listing is over; nothing
\* is assumed of the writers.
FairSpec == Spec /\ WF_vars(Read \/ \E fails \in BOOLEAN : Continue(fails))

-----------------------------------------------------------------------------
(* Properties. *)

\* Type correctness: a page holds at most its limit, and no limit is above
\* MaxListLimit.
TypeOK ==
    /\ at \in [Ids -> Locs \cup {Absent}]
    /\ iter \in [open: BOOLEAN, ahead: SUBSET [id: Ids, loc: Locs],
                 limit: 0..MaxListLimit, count: 0..MaxListLimit,
                 lastKey: Cursors,
                 end: {"none", "limit", "exhausted", "error"}]
    /\ iter.count <= iter.limit
    /\ cursor \in Cursors
    /\ paging \in [active: BOOLEAN, req: Requests \cup {NoPaging.req}, own: BOOLEAN,
                   blind: BOOLEAN, visited: SUBSET Locs, steady: SUBSET Ids, changed: SUBSET Ids]

\* The pages of one listing run through the keys in order and no key comes
\* twice, neither within a page nor on the next one, whatever is created,
\* moved or deleted between them and whatever cursor the listing began with.
KeysAscend ==
    [][NextItem => \A k \in paging.visited : <<k, Least(iter.ahead).loc>> \in Precedes]_vars

\* The objects a request finds: of its bucket and, with a prefix, of exactly
\* the key that the prefix is.
Finds(req, l) ==
    /\ req.bucket \in {<< >>, l.bucket}
    /\ req.bucket # << >> => req.prefix \in {<< >>, l.key}

\* A listing that ended with no error has found every record that stood at
\* one place from its first page to its last, on some page; unless List itself
\* failed to read the index, which it does not report.
ListingComplete ==
    iter.end = "exhausted" /\ paging.own /\ ~paging.blind =>
        \A i \in paging.steady : Finds(paging.req.scan, at[i]) => at[i] \in paging.visited

\* What the iterator hands out beside its request is explained: it visits
\* only entries that the request finds, unless the cursor came from another
\* listing, and the record it reads is at the entry's place unless it changed
\* after List.
ReadsExplained ==
    iter.open =>
        /\ paging.own => \A e \in iter.ahead : Finds(paging.req.scan, e.loc)
        /\ \A e \in iter.ahead : at[e.id] = e.loc \/ e.id \in paging.changed

\* A caller that reads and pages on comes to the end of the listing.
ListingEnds == paging.active ~> ~paging.active

\* "Prefix filters object keys by prefix within the bucket."
PrefixFilters ==
    iter.end = "exhausted" /\ paging.own /\ ~paging.blind =>
        \A i \in paging.steady :
            paging.req.scan.bucket = at[i].bucket /\ StartsWith(at[i].key, paging.req.scan.prefix)
            => at[i] \in paging.visited
=============================================================================
