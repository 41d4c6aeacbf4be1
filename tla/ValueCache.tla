------------------------------ MODULE ValueCache ------------------------------
(***************************************************************************)
(* The cached values of lib/cache-manager.ts, for one key in one page: a map *)
(* in memory in front of IndexedDB, filled by shared fetches and emptied by  *)
(* clearCachedValues.  Every call opens the database for itself; one page's  *)
(* requests are carried out in the order they were made, and the code after  *)
(* a request runs before the next one ends.                                  *)
(*                                                                           *)
(* A value is the number of the fetch that asked for it, 0 is none.  How old *)
(* a value may be is an option of each call, so that any call may find any   *)
(* value fresh, stale or expired.                                            *)
(***************************************************************************)
EXTENDS Naturals, Sequences

CONSTANTS
    Readers,        \* calls of getOrFetchCachedValue that may be under way at once
    MaxAsked,       \* bound on the values asked for
    MaxRequests,    \* bound on the requests to the database that are under way
    Caches          \* environments: other pages use the database, requests may fail

ASSUME CacheAssumption ==
    /\ MaxAsked \in Nat \ {0} /\ MaxRequests \in Nat
    /\ Caches \subseteq [others : BOOLEAN, fails : BOOLEAN]

VARIABLES
    cache,          \* the environment, fixed for a behaviour
    memory,         \* memoryMetadata: the value or 0
    indexed,        \* the value in IndexedDB or 0
    requests,       \* requests to the database, in their order
    revalidation,   \* pendingRevalidations: the fetch, until its value is stored
    reader,         \* what each call of getOrFetchCachedValue awaits
    asked,          \* values asked for so far
    (* history *)
    cleared,        \* values 1..cleared were cleared
    excused         \* values put back by a read or fetch that a change overtook

cacheVars == <<cache, memory, indexed, requests, revalidation, reader, asked, cleared, excused>>

Value == 0..MaxAsked
\* by: the reader that waits, if one does.  late: memory has changed since.
DbRequest ==
    [op : {"get", "put", "delete", "clear"}, by : SUBSET Readers, n : Value, late : BOOLEAN]
NoFetch == [pc |-> "none", n |-> 0]

CacheTypeOK ==
    /\ cache \in Caches
    /\ memory \in Value /\ indexed \in Value /\ asked \in Value /\ cleared \in Value
    /\ requests \in Seq(DbRequest) /\ Len(requests) <= MaxRequests
    /\ revalidation \in [pc : {"none", "asked", "storing"}, n : Value]
    /\ reader \in [Readers -> {"idle", "reading", "deleting", "waiting"}]
    /\ excused \subseteq Value

\* The database may hold a value of an earlier visit.
CacheInit ==
    /\ cache \in Caches
    /\ asked \in {0, 1} /\ indexed = asked
    /\ memory = 0
    /\ requests = <<>>
    /\ revalidation = NoFetch
    /\ reader = [c \in Readers |-> "idle"]
    /\ cleared = 0 /\ excused = {}

------------------------------------------------------------------------------
(* getOrFetchCachedValue                                                     *)

Ask(op, by, n) == [op |-> op, by |-> by, n |-> n, late |-> FALSE]
Overtaken(rs) == [i \in DOMAIN rs |-> [rs[i] EXCEPT !.late = TRUE]]
Becomes(c, pc) == reader' = [reader EXCEPT ![c] = pc]
Released == [c \in Readers |-> IF reader[c] = "waiting" THEN "idle" ELSE reader[c]]

\* fetchAndStore: callers share the fetch that is under way.
fetchAndStore ==
    \/ /\ revalidation.pc = "none"
       /\ asked < MaxAsked
       /\ asked' = asked + 1
       /\ revalidation' = [pc |-> "asked", n |-> asked + 1]
    \/ /\ revalidation.pc # "none"
       /\ UNCHANGED <<asked, revalidation>>

\* A call has found value n.  An expired one is deleted, in memory at once, in the
\* database after the requests rs; the call fetches when that is done.
Found(c, n, rs) ==
    \/ /\ memory' = n /\ Becomes(c, "idle") /\ requests' = rs
       /\ fetchAndStore \/ UNCHANGED <<asked, revalidation>>
    \/ /\ memory' = 0 /\ Becomes(c, "deleting")
       /\ requests' = Append(Overtaken(rs), Ask("delete", {c}, 0))
       /\ UNCHANGED <<asked, revalidation>>

getOrFetchCachedValue(c) ==
    /\ reader[c] = "idle" /\ Len(requests) < MaxRequests
    /\ \/ memory # 0 /\ Found(c, memory, requests)
       \/ /\ memory = 0
          /\ requests' = Append(requests, Ask("get", {c}, 0)) /\ Becomes(c, "reading")
          /\ UNCHANGED <<memory, asked, revalidation>>
    /\ UNCHANGED <<cache, indexed, cleared, excused>>

\* The fetcher resolves, and writeCacheEntry sets the memory before it opens the database.
FetchResolves ==
    /\ revalidation.pc = "asked" /\ Len(requests) < MaxRequests
    /\ memory' = revalidation.n
    /\ requests' = Append(Overtaken(requests), Ask("put", {}, revalidation.n))
    /\ revalidation' = [revalidation EXCEPT !.pc = "storing"]
    /\ UNCHANGED <<cache, indexed, reader, asked, cleared, excused>>

FetchRejects ==
    /\ revalidation.pc = "asked"
    /\ revalidation' = NoFetch /\ reader' = Released
    /\ UNCHANGED <<cache, memory, indexed, requests, asked, cleared, excused>>

------------------------------------------------------------------------------
(* clearCachedValues                                                         *)

ClearStoreOnly ==       \* mutant: the map in memory is not cleared
    /\ Len(requests) < MaxRequests
    /\ requests' = Append(requests, Ask("clear", {}, asked))
    /\ excused' = IF revalidation.pc = "asked" THEN excused \cup {revalidation.n} ELSE excused
    /\ UNCHANGED <<cache, memory, indexed, revalidation, reader, asked, cleared>>

\* The map is cleared at once; a fetch under way will bring its value all the same.
clearCachedValues ==
    /\ Len(requests) < MaxRequests
    /\ memory' = 0
    /\ requests' = Append(Overtaken(requests), Ask("clear", {}, asked))
    /\ excused' = IF revalidation.pc = "asked" THEN excused \cup {revalidation.n} ELSE excused
    /\ UNCHANGED <<cache, indexed, revalidation, reader, asked, cleared>>

------------------------------------------------------------------------------
(* The database ends the first request, and the code after it runs           *)

Ends(op) == requests # <<>> /\ Head(requests).op = op

\* readCacheEntry goes on: it does not look at the memory again.
GetEnds(c) ==
    /\ Ends("get") /\ Head(requests).by = {c}
    /\ \/ indexed # 0 /\ Found(c, indexed, Tail(requests))
       \/ /\ indexed = 0 /\ fetchAndStore /\ Becomes(c, "waiting")
          /\ requests' = Tail(requests) /\ UNCHANGED memory
    /\ excused' = IF Head(requests).late /\ memory' # memory
                  THEN excused \cup {memory'} ELSE excused
    /\ UNCHANGED <<cache, indexed, cleared>>

DeleteEnds(c) ==
    /\ Ends("delete") /\ Head(requests).by = {c}
    /\ indexed' = 0 /\ requests' = Tail(requests)
    /\ fetchAndStore /\ Becomes(c, "waiting")
    /\ UNCHANGED <<cache, memory, cleared, excused>>

PutEnds ==
    /\ Ends("put")
    /\ indexed' = Head(requests).n /\ requests' = Tail(requests)
    /\ revalidation' = NoFetch /\ reader' = Released
    /\ UNCHANGED <<cache, memory, asked, cleared, excused>>

ClearEnds ==
    /\ Ends("clear")
    /\ indexed' = 0 /\ requests' = Tail(requests)
    /\ cleared' = Head(requests).n
    /\ UNCHANGED <<cache, memory, revalidation, reader, asked, excused>>

\* The call that awaits the request rejects; a value that could not be stored stays in
\* memory.
RequestFails ==
    /\ cache.fails /\ requests # <<>>
    /\ requests' = Tail(requests)
    /\ IF Ends("put")
       THEN /\ revalidation' = NoFetch /\ reader' = Released
            /\ excused' = excused \cup {Head(requests).n}
       ELSE /\ reader' = [c \in Readers |-> IF c \in Head(requests).by THEN "idle" ELSE reader[c]]
            /\ UNCHANGED <<revalidation, excused>>
    /\ UNCHANGED <<cache, memory, indexed, asked, cleared>>

\* Another page stores a value, which counts as asked for now, deletes it or clears.
OtherPage ==
    /\ cache.others
    /\ \/ asked < MaxAsked /\ asked' = asked + 1 /\ indexed' = asked + 1
       \/ indexed # 0 /\ indexed' = 0 /\ UNCHANGED asked
    /\ UNCHANGED <<cache, memory, requests, revalidation, reader, cleared, excused>>

CacheNext ==
    \/ \E c \in Readers : getOrFetchCachedValue(c) \/ GetEnds(c) \/ DeleteEnds(c)
    \/ FetchResolves \/ FetchRejects \/ clearCachedValues
    \/ PutEnds \/ ClearEnds \/ RequestFails \/ OtherPage

CacheSpec == CacheInit /\ [][CacheNext]_cacheVars

------------------------------------------------------------------------------
(* Properties                                                                *)

\* After clearCachedValues neither the memory nor the database gets a value back that
\* was asked for before, whatever is being read, written, expired or refused then; and
\* when nothing is under way the memory has what the database has, or nothing.  The
\* exceptions are exactly these: a fetch that was unanswered at the clear, a read that a
\* change of the memory overtook, and a value that could not be stored.
NothingComesBack ==
    /\ \A n \in {memory, indexed} \ (excused \cup {0}) : n > cleared
    /\ requests = <<>> /\ revalidation.pc = "none" /\ ~cache.others
            => memory \in {0, indexed} \cup excused
==============================================================================
