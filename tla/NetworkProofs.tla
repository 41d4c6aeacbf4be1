---------------------------- MODULE NetworkProofs ----------------------------
(***************************************************************************)
(* ValueCache, Payouts, OfflineQueue, SideEffects and EventSync: what was    *)
(* cleared stays away, a key never pays twice, an attempt leads to one       *)
(* payout, a queued submission is accounted for, a failure is shown and a    *)
(* key keeps its contract, and of a contract's events none is passed over    *)
(* and none delivered twice, for any calls, requests, retries, losses, tabs, *)
(* pages and events; and the five of them side by side.                      *)
(***************************************************************************)
EXTENDS MCNetwork,
    FiniteSetTheorems, SequenceTheorems, WellFoundedInduction, TLAPS

------------------------------------------------------------------------------
(* Sequences                                                                 *)

\* A set of numbers has a least one.
LEMMA LeastIndex ==
    ASSUME NEW I \in SUBSET Nat, I # {}
    PROVE  Min(I) \in I /\ \A k \in I : Min(I) <= k
  <1>1. PICK m \in I : \A k \in I : ~ (<<k, m>> \in OpToRel(<, Nat))
    BY WFMin, NatLessThanWellFounded
  <1>2. \A k \in I : ~ (k < m)
    BY <1>1 DEF OpToRel
  <1>3. \A k \in I : m <= k
    BY <1>2
  <1> QED
    BY <1>3 DEF Min

\* What is left of a sequence without its n-th entry.
LEMMA OneRemoved ==
    ASSUME NEW S, NEW q \in Seq(S), NEW n \in 1..Len(q)
    PROVE  /\ RemoveAt(q, n) \in Seq(S) /\ Len(RemoveAt(q, n)) = Len(q) - 1
           /\ DOMAIN RemoveAt(q, n) = 1..(Len(q) - 1)
           /\ \A k \in 1..(Len(q) - 1) : RemoveAt(q, n)[k] = IF k < n THEN q[k] ELSE q[k + 1]
  <1> DEFINE r == RemoveAt(q, n)
             a == SubSeq(q, 1, n - 1)
             b == SubSeq(q, n + 1, Len(q))
  <1>1. /\ a \in Seq(S) /\ Len(a) = n - 1 /\ DOMAIN a = 1..(n - 1)
        /\ \A k \in 1..(n - 1) : a[k] = q[k]
    OBVIOUS
  <1>2. /\ b \in Seq(S) /\ Len(b) = Len(q) - n /\ DOMAIN b = 1..(Len(q) - n)
        /\ \A k \in 1..(Len(q) - n) : b[k] = q[n + k]
    OBVIOUS
  <1>3. r = a \o b
    BY DEF RemoveAt
  <1>4. Len(q) \in Nat /\ DOMAIN q = 1..Len(q) /\ n \in 1..Len(q)
    OBVIOUS
  <1> HIDE DEF r, a, b
  <1>5. /\ r \in Seq(S) /\ Len(r) = Len(q) - 1 /\ DOMAIN r = 1..(Len(q) - 1)
        /\ \A k \in 1..(Len(q) - 1) : r[k] = IF k < n THEN a[k] ELSE b[k - (n - 1)]
    <2>1. /\ a \o b \in Seq(S) /\ Len(a \o b) = Len(a) + Len(b)
          /\ \A k \in 1..(Len(a) + Len(b)) :
                (a \o b)[k] = IF k <= Len(a) THEN a[k] ELSE b[k - Len(a)]
      BY <1>1, <1>2, ConcatProperties
    <2>2. Len(a) + Len(b) = Len(q) - 1 /\ \A k \in Nat : k <= n - 1 <=> k < n
      BY <1>1, <1>2, <1>4
    <2>3. Len(a) \in Nat /\ Len(b) \in Nat /\ Len(a) = n - 1
      BY <1>1, <1>2
    <2>4. r \in Seq(S) /\ Len(r) = Len(q) - 1
      BY <1>3, <2>1, <2>2
    <2>5. ASSUME NEW k \in 1..(Len(q) - 1)
          PROVE  r[k] = IF k < n THEN a[k] ELSE b[k - (n - 1)]
      BY <1>3, <2>1, <2>2, <2>3
    <2> QED
      BY <2>4, <2>5
  <1>6. ASSUME NEW k \in 1..(Len(q) - 1)
        PROVE  r[k] = IF k < n THEN q[k] ELSE q[k + 1]
    <2>1. CASE k < n
      BY <1>1, <1>4, <1>5, <2>1
    <2>2. CASE k >= n
      <3> DEFINE m == k - (n - 1)
      <3>1. m \in 1..(Len(q) - n) /\ n + m = k + 1
        BY <1>4, <2>2
      <3>2. r[k] = b[m]
        BY <1>4, <1>5, <2>2
      <3> HIDE DEF m
      <3>3. b[m] = q[n + m]
        BY <1>2, <3>1
      <3> QED
        BY <1>4, <2>2, <3>1, <3>2, <3>3
    <2> QED
      BY <1>4, <2>1, <2>2
  <1> QED
    BY <1>5, <1>6 DEF r

\* The others are there, and nothing else.
LEMMA OthersLeft ==
    ASSUME NEW S, NEW q \in Seq(S), NEW n \in 1..Len(q), NEW r, r = RemoveAt(q, n)
    PROVE  /\ \A i \in DOMAIN r : \E j \in DOMAIN q : j # n /\ r[i] = q[j]
           /\ \A j \in DOMAIN q : j # n => \E i \in DOMAIN r : r[i] = q[j]
           /\ \A i, k \in DOMAIN r : i # k =>
                \E j, l \in DOMAIN q : j # l /\ r[i] = q[j] /\ r[k] = q[l]
  <1>1. /\ DOMAIN r = 1..(Len(q) - 1)
        /\ \A k \in 1..(Len(q) - 1) : r[k] = IF k < n THEN q[k] ELSE q[k + 1]
    BY OneRemoved
  <1>2. Len(q) \in Nat /\ DOMAIN q = 1..Len(q) /\ n \in 1..Len(q)
    OBVIOUS
  <1> DEFINE at == [k \in 1..(Len(q) - 1) |-> IF k < n THEN k ELSE k + 1]
  <1>3. ASSUME NEW k \in 1..(Len(q) - 1)
        PROVE  at[k] \in 1..Len(q) /\ at[k] # n /\ r[k] = q[at[k]]
    <2>1. k \in 1..Len(q) /\ k + 1 \in 1..Len(q) /\ (k < n => k # n) /\ (~(k < n) => k + 1 # n)
      BY <1>2
    <2> QED
      BY <1>1, <2>1
  <1>4. ASSUME NEW i \in 1..(Len(q) - 1), NEW k \in 1..(Len(q) - 1), i # k
        PROVE  at[i] # at[k]
    BY <1>2, <1>4
  <1>5. ASSUME NEW j \in 1..Len(q), j # n
        PROVE  \E i \in 1..(Len(q) - 1) : r[i] = q[j]
    <2>1. CASE j < n
      <3>1. j \in 1..(Len(q) - 1)
        BY <1>2, <2>1
      <3> QED
        BY <1>1, <2>1, <3>1
    <2>2. CASE j > n
      <3>1. j - 1 \in 1..(Len(q) - 1) /\ ~(j - 1 < n) /\ (j - 1) + 1 = j
        BY <1>2, <2>2
      <3> QED
        BY <1>1, <3>1
    <2> QED
      BY <1>2, <1>5, <2>1, <2>2
  <1> HIDE DEF at
  <1>6. \A i \in DOMAIN r : \E j \in DOMAIN q : j # n /\ r[i] = q[j]
    BY ONLY <1>1, <1>2, <1>3
  <1>7. \A i, k \in DOMAIN r : i # k =>
            \E j, l \in DOMAIN q : j # l /\ r[i] = q[j] /\ r[k] = q[l]
    BY ONLY <1>1, <1>2, <1>3, <1>4
  <1> QED
    BY ONLY <1>1, <1>2, <1>5, <1>6, <1>7

------------------------------------------------------------------------------
(* ValueCache                                                                *)

\* Value n is newer than what was cleared, and than what the requests rs will clear.
Clean(n) == n \notin excused => n > cleared
Newer(n, rs) ==
    n \notin excused =>
        n > cleared /\ \A i \in DOMAIN rs : rs[i].op = "clear" => n > rs[i].n

\* A write is newer than the clears before it, and a read that no change of the memory
\* has overtaken has only reads after it.
OrderClean(rs) ==
    \A i \in DOMAIN rs :
        /\ rs[i].op = "put" => Clean(rs[i].n)
        /\ rs[i].op = "clear" => rs[i].n <= asked
        /\ \A j \in DOMAIN rs : i < j =>
            /\ rs[i].op = "clear" /\ rs[j].op = "put" => rs[j].n \in excused \/ rs[j].n > rs[i].n
            /\ rs[i].op = "get" => rs[i].late \/ rs[j].op = "get"

\* What is under way cannot bring a cleared value back: what the memory has, or a fetch
\* will put there, is newer than all that was cleared or will be.
NoOldValues ==
    /\ memory # 0 => Newer(memory, requests)
    /\ indexed # 0 => Clean(indexed)
    /\ revalidation.pc = "asked" => Newer(revalidation.n, requests)
    /\ cleared <= asked
    /\ OrderClean(requests)

\* The database has value n, or will have it when the requests rs are done.
OnlyReads(rs) == \A i \in DOMAIN rs : rs[i].op = "get"
WillWrite(n, rs) ==
    \E i \in DOMAIN rs :
        /\ rs[i].op = "put" /\ rs[i].n = n
        /\ \A j \in DOMAIN rs : i < j => rs[j].op = "get"
WillBe(n, rs) == (indexed = n /\ OnlyReads(rs)) \/ WillWrite(n, rs)

MemoryAgrees == memory \notin excused \cup {0} /\ ~cache.others => WillBe(memory, requests)

CacheInv == CacheTypeOK /\ NoOldValues /\ MemoryAgrees

\* The requests after one more was made, and after the first one ended.
LEMMA Appended ==
    ASSUME NEW rs \in Seq(DbRequest), NEW x \in DbRequest
    PROVE  /\ Append(rs, x) \in Seq(DbRequest)
           /\ DOMAIN Append(rs, x) = 1..(Len(rs) + 1) /\ Len(Append(rs, x)) = Len(rs) + 1
           /\ Append(rs, x)[Len(rs) + 1] = x
           /\ \A i \in 1..Len(rs) : Append(rs, x)[i] = rs[i]
  OBVIOUS

LEMMA Marked ==
    ASSUME NEW rs \in Seq(DbRequest)
    PROVE  /\ Overtaken(rs) \in Seq(DbRequest) /\ Len(Overtaken(rs)) = Len(rs)
           /\ \A i \in 1..Len(rs) : /\ Overtaken(rs)[i].op = rs[i].op
                                    /\ Overtaken(rs)[i].n = rs[i].n
                                    /\ Overtaken(rs)[i].late
  <1>1. DOMAIN rs = 1..Len(rs) /\ Len(rs) \in Nat
    OBVIOUS
  <1>2. \A i \in 1..Len(rs) : rs[i] \in DbRequest
    OBVIOUS
  <1>3. \A i \in 1..Len(rs) :
            /\ [rs[i] EXCEPT !.late = TRUE] \in DbRequest
            /\ [rs[i] EXCEPT !.late = TRUE].op = rs[i].op
            /\ [rs[i] EXCEPT !.late = TRUE].n = rs[i].n
            /\ [rs[i] EXCEPT !.late = TRUE].late
    BY <1>2 DEF DbRequest
  <1>4. Overtaken(rs) = [i \in 1..Len(rs) |-> [rs[i] EXCEPT !.late = TRUE]]
    BY <1>1 DEF Overtaken
  <1> HIDE DEF Overtaken
  <1>5. Overtaken(rs) \in [1..Len(rs) -> DbRequest]
    BY <1>3, <1>4
  <1>6. Overtaken(rs) \in Seq(DbRequest)
    BY <1>1, <1>5
  <1>7. Len(Overtaken(rs)) = Len(rs)
    BY <1>1, <1>5, <1>6
  <1>8. \A i \in 1..Len(rs) : Overtaken(rs)[i] = [rs[i] EXCEPT !.late = TRUE]
    BY <1>4
  <1> QED
    BY <1>3, <1>6, <1>7, <1>8

LEMMA Ended ==
    ASSUME NEW rs \in Seq(DbRequest), rs # <<>>
    PROVE  /\ Tail(rs) \in Seq(DbRequest) /\ Len(Tail(rs)) = Len(rs) - 1
           /\ DOMAIN Tail(rs) = 1..(Len(rs) - 1)
           /\ \A i \in 1..(Len(rs) - 1) : Tail(rs)[i] = rs[i + 1]
           /\ Head(rs) = rs[1] /\ Head(rs) \in DbRequest /\ 1 \in DOMAIN rs
  OBVIOUS

(* Types                                                                     *)

\* A reader waits for something else; the readers that wait for a fetch go on.
LEMMA ReaderTyped ==
    ASSUME CacheTypeOK, NEW c \in Readers, NEW pc \in {"idle", "reading", "deleting", "waiting"}
    PROVE  /\ Becomes(c, pc) => reader' \in [Readers -> {"idle", "reading", "deleting", "waiting"}]
           /\ Released \in [Readers -> {"idle", "reading", "deleting", "waiting"}]
  BY DEF CacheTypeOK, Becomes, Released

LEMMA FetchTyped ==
    ASSUME CacheTypeOK, fetchAndStore
    PROVE  /\ asked' \in Value
           /\ revalidation' \in [pc : {"none", "asked", "storing"}, n : Value]
  BY CacheAssumption DEF CacheTypeOK, fetchAndStore, Value

LEMMA FoundTyped ==
    ASSUME CacheTypeOK, NEW c \in Readers, NEW n \in Value, NEW rs \in Seq(DbRequest),
           Found(c, n, rs)
    PROVE  /\ memory' \in Value /\ asked' \in Value
           /\ revalidation' \in [pc : {"none", "asked", "storing"}, n : Value]
           /\ reader' \in [Readers -> {"idle", "reading", "deleting", "waiting"}]
           /\ requests' \in Seq(DbRequest) /\ Len(requests') <= Len(rs) + 1
  <1>1. Ask("delete", {c}, 0) \in DbRequest /\ 0 \in Value
    BY CacheAssumption DEF Ask, DbRequest, Value
  <1>2. CASE memory' = n /\ Becomes(c, "idle") /\ requests' = rs
             /\ (fetchAndStore \/ UNCHANGED <<asked, revalidation>>)
    BY <1>2, ReaderTyped, FetchTyped DEF CacheTypeOK
  <1>3. CASE memory' = 0 /\ Becomes(c, "deleting")
             /\ requests' = Append(Overtaken(rs), Ask("delete", {c}, 0))
             /\ UNCHANGED <<asked, revalidation>>
    <2>1. requests' \in Seq(DbRequest) /\ Len(requests') <= Len(rs) + 1
      BY <1>1, <1>3, Marked, Appended
    <2> QED
      BY <1>1, <1>3, <2>1, ReaderTyped DEF CacheTypeOK
  <1> QED
    BY <1>2, <1>3 DEF Found

LEMMA CacheTyped ==
    ASSUME CacheTypeOK, [CacheNext]_cacheVars
    PROVE  CacheTypeOK'
  <1> USE DEF CacheTypeOK
  <1>1. /\ 0 \in Value /\ requests \in Seq(DbRequest) /\ Len(requests) \in Nat
        /\ NoFetch \in [pc : {"none", "asked", "storing"}, n : Value]
        /\ MaxRequests \in Nat
    BY CacheAssumption DEF Value, NoFetch
  <1>2. ASSUME NEW c \in Readers, getOrFetchCachedValue(c) PROVE CacheTypeOK'
    <2>1. CASE memory # 0 /\ Found(c, memory, requests)
      BY <1>1, <1>2, <2>1, FoundTyped DEF getOrFetchCachedValue
    <2>2. CASE /\ memory = 0
               /\ requests' = Append(requests, Ask("get", {c}, 0)) /\ Becomes(c, "reading")
               /\ UNCHANGED <<memory, asked, revalidation>>
      <3>1. Ask("get", {c}, 0) \in DbRequest
        BY <1>1 DEF Ask, DbRequest
      <3>2. requests' \in Seq(DbRequest) /\ Len(requests') = Len(requests) + 1
        BY <1>1, <2>2, <3>1, Appended
      <3> QED
        BY <1>1, <1>2, <2>2, <3>2, ReaderTyped DEF getOrFetchCachedValue
    <2> QED
      BY <1>2, <2>1, <2>2 DEF getOrFetchCachedValue
  <1>3. ASSUME NEW c \in Readers, GetEnds(c) PROVE CacheTypeOK'
    <2>1. requests # <<>>
      BY <1>3 DEF GetEnds, Ends
    <2>2. Tail(requests) \in Seq(DbRequest) /\ Len(Tail(requests)) = Len(requests) - 1
      BY <1>1, <2>1, Ended
    <2>3. /\ memory' \in Value /\ asked' \in Value
          /\ revalidation' \in [pc : {"none", "asked", "storing"}, n : Value]
          /\ reader' \in [Readers -> {"idle", "reading", "deleting", "waiting"}]
          /\ requests' \in Seq(DbRequest) /\ Len(requests') <= Len(requests)
      <3>1. CASE indexed # 0 /\ Found(c, indexed, Tail(requests))
        <4> DEFINE rs == Tail(requests)
        <4>1. rs \in Seq(DbRequest) /\ Len(rs) + 1 = Len(requests) /\ Found(c, indexed, rs)
          BY <1>1, <2>2, <3>1
        <4> HIDE DEF rs
        <4>2. indexed \in Value
          OBVIOUS
        <4> QED
          BY <4>1, <4>2, FoundTyped
      <3>2. CASE /\ indexed = 0 /\ fetchAndStore /\ Becomes(c, "waiting")
                 /\ requests' = Tail(requests) /\ UNCHANGED memory
        BY <1>1, <2>2, <3>2, FetchTyped, ReaderTyped
      <3> QED
        BY <1>3, <3>1, <3>2 DEF GetEnds
    <2> QED
      BY <1>1, <1>3, <2>3 DEF GetEnds
  <1>4. ASSUME NEW c \in Readers, DeleteEnds(c) PROVE CacheTypeOK'
    <2>1. Tail(requests) \in Seq(DbRequest) /\ Len(Tail(requests)) = Len(requests) - 1
      BY <1>1, <1>4, Ended DEF DeleteEnds, Ends
    <2> QED
      BY <1>1, <1>4, <2>1, FetchTyped, ReaderTyped DEF DeleteEnds
  <1>5. CASE FetchResolves
    <2>1. Ask("put", {}, revalidation.n) \in DbRequest
      BY DEF Ask, DbRequest
    <2>2. requests' \in Seq(DbRequest) /\ Len(requests') = Len(requests) + 1
      BY <1>1, <1>5, <2>1, Marked, Appended DEF FetchResolves
    <2> QED
      BY <1>1, <1>5, <2>2 DEF FetchResolves
  <1>6. CASE clearCachedValues
    <2>1. Ask("clear", {}, asked) \in DbRequest
      BY DEF Ask, DbRequest
    <2>2. requests' \in Seq(DbRequest) /\ Len(requests') = Len(requests) + 1
      BY <1>1, <1>6, <2>1, Marked, Appended DEF clearCachedValues
    <2> QED
      BY <1>1, <1>6, <2>2 DEF clearCachedValues
  <1>7. CASE FetchRejects \/ OtherPage
    <2>1. CASE FetchRejects
      <3>1. reader' \in [Readers -> {"idle", "reading", "deleting", "waiting"}]
        BY <2>1 DEF FetchRejects, Released
      <3> QED
        BY <1>1, <2>1, <3>1 DEF FetchRejects
    <2>2. CASE OtherPage
      <3>1. asked' \in Value /\ indexed' \in Value
        BY <1>1, <2>2, CacheAssumption DEF OtherPage, Value
      <3> QED
        BY <1>1, <2>2, <3>1 DEF OtherPage
    <2> QED
      BY <1>7, <2>1, <2>2
  <1>8. CASE PutEnds \/ ClearEnds \/ RequestFails
    <2>1. requests # <<>>
      BY <1>8 DEF PutEnds, ClearEnds, RequestFails, Ends
    <2>2. /\ Tail(requests) \in Seq(DbRequest) /\ Len(Tail(requests)) = Len(requests) - 1
          /\ Head(requests).n \in Value
      BY <1>1, <2>1, Ended DEF DbRequest
    <2>3. requests' \in Seq(DbRequest) /\ Len(requests') <= MaxRequests
      <3>1. requests' = Tail(requests)
        BY <1>8 DEF PutEnds, ClearEnds, RequestFails
      <3> QED
        BY <1>1, <2>2, <3>1
    <2>4. indexed' \in Value /\ cleared' \in Value /\ excused' \subseteq Value
      BY <1>1, <1>8, <2>2 DEF PutEnds, ClearEnds, RequestFails
    <2>5. /\ revalidation' \in [pc : {"none", "asked", "storing"}, n : Value]
          /\ UNCHANGED <<cache, memory, asked>>
      BY <1>1, <1>8 DEF PutEnds, ClearEnds, RequestFails
    <2>6. reader' \in [Readers -> {"idle", "reading", "deleting", "waiting"}]
      BY <1>8 DEF PutEnds, ClearEnds, RequestFails, Released
    <2> QED
      BY <2>3, <2>4, <2>5, <2>6
  <1>9. CASE UNCHANGED cacheVars
    BY <1>9 DEF cacheVars
  <1> QED
    BY <1>2, <1>3, <1>4, <1>5, <1>6, <1>7, <1>8, <1>9 DEF CacheNext

------------------------------------------------------------------------------
(* No old values                                                             *)

\* When a request has ended the rest is in order, and after a read that was not
\* overtaken nothing will be cleared.
LEMMA RestInOrder ==
    ASSUME CacheTypeOK, requests # <<>>, OrderClean(requests)
    PROVE  /\ OrderClean(Tail(requests))
           /\ \A n \in Value : Newer(n, requests) => Newer(n, Tail(requests))
           /\ \A n \in Value : Head(requests).op = "get" /\ ~Head(requests).late /\ Clean(n)
                    => Newer(n, Tail(requests))
  <1> DEFINE rs == Tail(requests)
  <1>1. /\ requests \in Seq(DbRequest) /\ Len(requests) \in Nat /\ Len(requests) > 0
        /\ DOMAIN requests = 1..Len(requests)
    BY DEF CacheTypeOK
  <1>2. /\ DOMAIN rs = 1..(Len(requests) - 1) /\ Head(requests) = requests[1]
        /\ \A i \in 1..(Len(requests) - 1) : rs[i] = requests[i + 1]
    BY <1>1, Ended
  <1> HIDE DEF rs
  <1>3. OrderClean(rs)
    <2> SUFFICES ASSUME NEW i \in 1..(Len(requests) - 1)
                 PROVE  /\ rs[i].op = "put" => Clean(rs[i].n)
                        /\ rs[i].op = "clear" => rs[i].n <= asked
                        /\ \A j \in DOMAIN rs : i < j =>
                            /\ rs[i].op = "clear" /\ rs[j].op = "put"
                                    => rs[j].n \in excused \/ rs[j].n > rs[i].n
                            /\ rs[i].op = "get" => rs[i].late \/ rs[j].op = "get"
      BY <1>2 DEF OrderClean
    <2>1. i + 1 \in DOMAIN requests /\ rs[i] = requests[i + 1]
      BY <1>1, <1>2
    <2>2. \A j \in DOMAIN rs : i < j => /\ j + 1 \in DOMAIN requests /\ i + 1 < j + 1
                                        /\ rs[j] = requests[j + 1]
      BY <1>1, <1>2
    <2> QED
      BY <2>1, <2>2 DEF OrderClean
  <1>4. \A n \in Value : Newer(n, requests) => Newer(n, rs)
    BY <1>1, <1>2 DEF Newer
  <1>5. \A n \in Value : Head(requests).op = "get" /\ ~Head(requests).late /\ Clean(n)
                    => Newer(n, rs)
    <2> SUFFICES ASSUME Head(requests).op = "get", ~Head(requests).late
                 PROVE  \A i \in DOMAIN rs : rs[i].op = "get"
      BY DEF Newer, Clean
    <2>1. \A j \in DOMAIN requests : 1 < j => requests[j].op = "get"
      BY <1>1, <1>2 DEF OrderClean
    <2> QED
      BY <1>1, <1>2, <2>1
  <1> QED
    BY <1>3, <1>4, <1>5 DEF rs

\* Values that are excused, and values asked for, only become more.
LEMMA OrderKept ==
    ASSUME NEW rs \in Seq(DbRequest), OrderClean(rs), requests' = rs, CacheTypeOK, CacheTypeOK',
           cleared' = cleared, excused \subseteq excused', asked <= asked'
    PROVE  /\ OrderClean(requests)'
           /\ \A n \in Value : Newer(n, rs) => Newer(n, requests)'
           /\ \A n \in Value : Clean(n) => Clean(n)'
  <1>1. \A i \in DOMAIN rs : rs[i] \in DbRequest
    OBVIOUS
  <1>2. \A i \in DOMAIN rs : rs[i].n \in Nat
    BY <1>1 DEF DbRequest, Value
  <1>3. asked \in Nat /\ asked' \in Nat
    BY DEF CacheTypeOK, Value
  <1> QED
    BY <1>2, <1>3 DEF OrderClean, Newer, Clean

\* A read is asked for.
LEMMA ReadAsked ==
    ASSUME CacheTypeOK, OrderClean(requests), NEW x \in DbRequest, x.op = "get",
           requests' = Append(requests, x), UNCHANGED <<cleared, excused, asked>>
    PROVE  /\ OrderClean(requests)'
           /\ \A n \in Value : Newer(n, requests) => Newer(n, requests)'
  <1> DEFINE l == Len(requests)
  <1>1. /\ requests \in Seq(DbRequest) /\ DOMAIN requests = 1..l /\ l \in Nat
    BY DEF CacheTypeOK
  <1>2. /\ DOMAIN requests' = 1..(l + 1) /\ requests'[l + 1] = x
        /\ \A i \in 1..l : requests'[i] = requests[i]
    BY <1>1, Appended
  <1> HIDE DEF l
  <1>3. \A i \in 1..(l + 1) : i \in 1..l \/ i = l + 1
    BY <1>1
  <1>4. OrderClean(requests)'
    BY <1>1, <1>2, <1>3 DEF OrderClean, Clean
  <1>5. \A n \in Value : Newer(n, requests) => Newer(n, requests)'
    BY <1>1, <1>2, <1>3 DEF Newer
  <1> QED
    BY <1>4, <1>5

\* A change is asked for, after the requests rs, which are overtaken.
LEMMA ChangeAsked ==
    ASSUME NEW rs \in Seq(DbRequest), OrderClean(rs), NEW x \in DbRequest, x.op # "get",
           x.op = "put" => Newer(x.n, rs),
           x.op = "clear" => x.n <= asked,
           requests' = Append(Overtaken(rs), x),
           cleared' = cleared, asked' = asked, excused \subseteq excused'
    PROVE  /\ OrderClean(requests)'
           /\ \A n \in Value :
                Newer(n, rs) /\ (x.op = "clear" => n \in excused' \/ n > x.n) => Newer(n, requests)'
  <1> DEFINE l == Len(rs)
  <1>1. DOMAIN rs = 1..l /\ l \in Nat
    OBVIOUS
  <1>2. /\ DOMAIN requests' = 1..(l + 1) /\ requests'[l + 1] = x
        /\ \A i \in 1..l : /\ requests'[i].op = rs[i].op /\ requests'[i].n = rs[i].n
                          /\ requests'[i].late
    BY <1>1, Marked, Appended
  <1> HIDE DEF l
  <1>3. \A i \in 1..(l + 1) : i \in 1..l \/ i = l + 1
    BY <1>1
  <1>4. OrderClean(requests)'
    <2> SUFFICES ASSUME NEW i \in 1..(l + 1)
                 PROVE  /\ requests'[i].op = "put" => requests'[i].n \in excused' \/ requests'[i].n > cleared'
                        /\ requests'[i].op = "clear" => requests'[i].n <= asked'
                        /\ \A j \in 1..(l + 1) : i < j =>
                            /\ requests'[i].op = "clear" /\ requests'[j].op = "put"
                                 => requests'[j].n \in excused' \/ requests'[j].n > requests'[i].n
                            /\ requests'[i].op = "get" => requests'[i].late \/ requests'[j].op = "get"
      BY <1>2, ZenonT(60) DEF OrderClean, Clean
    <2>1. CASE i \in 1..l
      BY <1>1, <1>2, <1>3, <2>1, SMTT(30) DEF OrderClean, Clean, Newer
    <2>2. CASE i = l + 1
      BY <1>1, <1>2, <2>2 DEF Clean, Newer
    <2> QED
      BY <1>3, <2>1, <2>2
  <1>5. \A n \in Value :
           Newer(n, rs) /\ (x.op = "clear" => n \in excused' \/ n > x.n) => Newer(n, requests)'
    BY <1>1, <1>2, <1>3 DEF Newer
  <1> QED
    BY <1>4, <1>5

\* A fetch that starts brings a value newer than whatever will be cleared.
LEMMA FetchNewer ==
    ASSUME CacheTypeOK, cleared <= asked, NEW rs \in Seq(DbRequest), OrderClean(rs),
           revalidation.pc = "asked" => Newer(revalidation.n, rs),
           fetchAndStore \/ UNCHANGED <<asked, revalidation>>
    PROVE  /\ asked <= asked'
           /\ revalidation'.pc = "asked" => Newer(revalidation'.n, rs)
  <1>1. asked \in Nat /\ cleared \in Nat
    BY DEF CacheTypeOK, Value
  <1>2. \A i \in DOMAIN rs : rs[i].n \in Nat
    <2>1. \A i \in DOMAIN rs : rs[i] \in DbRequest
      OBVIOUS
    <2> QED
      BY <2>1 DEF DbRequest, Value
  <1>3. Newer(asked + 1, rs)
    BY <1>1, <1>2 DEF Newer, OrderClean
  <1> QED
    BY <1>1, <1>3 DEF fetchAndStore

\* A call that has found a value newer than the clears, or one that is excused.
LEMMA FoundKeeps ==
    ASSUME CacheTypeOK, CacheTypeOK', NoOldValues, NEW c \in Readers, NEW n \in Value,
           NEW rs \in Seq(DbRequest), OrderClean(rs), Found(c, n, rs),
           n \in excused' \/ Newer(n, rs),
           revalidation.pc = "asked" => Newer(revalidation.n, rs),
           excused \subseteq excused', UNCHANGED <<indexed, cleared>>
    PROVE  NoOldValues'
  <1>1. cleared <= asked /\ (indexed # 0 => Clean(indexed))
    BY DEF NoOldValues
  <1>2. revalidation.n \in Value /\ revalidation'.n \in Value
    BY DEF CacheTypeOK
  <1>3. CASE memory' = n /\ requests' = rs
             /\ (fetchAndStore \/ UNCHANGED <<asked, revalidation>>)
    <2>1. /\ asked <= asked'
          /\ revalidation'.pc = "asked" => Newer(revalidation'.n, rs)
      BY <1>1, <1>3, FetchNewer
    <2>2. /\ OrderClean(requests)'
          /\ \A m \in Value : Newer(m, rs) => Newer(m, requests)'
      BY <1>3, <2>1, OrderKept
    <2>3. cleared' <= asked' /\ (indexed' # 0 => Clean(indexed)')
      BY <1>1, <2>1 DEF Clean, CacheTypeOK, Value
    <2> QED
      BY <1>2, <1>3, <2>1, <2>2, <2>3 DEF NoOldValues, Newer
  <1>4. CASE memory' = 0
             /\ requests' = Append(Overtaken(rs), Ask("delete", {c}, 0))
             /\ UNCHANGED <<asked, revalidation>>
    <2> DEFINE x == Ask("delete", {c}, 0)
    <2>1. x \in DbRequest /\ x.op = "delete" /\ requests' = Append(Overtaken(rs), x)
      BY <1>4, CacheAssumption DEF Ask, DbRequest, Value
    <2> HIDE DEF x
    <2>2. /\ OrderClean(requests)'
          /\ \A m \in Value : Newer(m, rs) => Newer(m, requests)'
      BY <1>4, <2>1, ChangeAsked
    <2>3. cleared' <= asked' /\ (indexed' # 0 => Clean(indexed)')
      BY <1>1, <1>4 DEF Clean
    <2> QED
      BY <1>2, <1>4, <2>2, <2>3 DEF NoOldValues, Newer
  <1> QED
    BY <1>3, <1>4 DEF Found

LEMMA NoOldValuesKept ==
    ASSUME CacheTypeOK, CacheTypeOK', NoOldValues, [CacheNext]_cacheVars
    PROVE  NoOldValues'
  <1>1. /\ requests \in Seq(DbRequest) /\ OrderClean(requests) /\ cleared <= asked
        /\ indexed # 0 => Clean(indexed)
        /\ memory # 0 => Newer(memory, requests)
        /\ revalidation.pc = "asked" => Newer(revalidation.n, requests)
        /\ memory \in Value /\ memory' \in Value /\ indexed \in Value /\ indexed' \in Value
        /\ revalidation.n \in Value /\ revalidation'.n \in Value
        /\ asked \in Nat /\ asked' \in Nat /\ cleared \in Nat /\ cleared' \in Nat
    BY DEF CacheTypeOK, NoOldValues, Value
  \* what is left when the first request has ended
  <1> DEFINE rs == Tail(requests)
  <1>2. ASSUME requests # <<>>
        PROVE  /\ rs \in Seq(DbRequest) /\ OrderClean(rs)
               /\ \A n \in Value : Newer(n, requests) => Newer(n, rs)
               /\ \A n \in Value : Head(requests).op = "get" /\ ~Head(requests).late /\ Clean(n)
                    => Newer(n, rs)
               /\ Head(requests) = requests[1] /\ 1 \in DOMAIN requests
               /\ Head(requests) \in DbRequest
               /\ DOMAIN rs = 1..(Len(requests) - 1)
               /\ \A i \in 1..(Len(requests) - 1) : rs[i] = requests[i + 1]
               /\ DOMAIN requests = 1..Len(requests) /\ Len(requests) \in Nat
    BY <1>1, <1>2, Ended, RestInOrder
  <1> HIDE DEF rs
  <1>3. ASSUME NEW c \in Readers, getOrFetchCachedValue(c) PROVE NoOldValues'
    <2>1. CASE memory # 0 /\ Found(c, memory, requests)
      BY <1>1, <1>3, <2>1, FoundKeeps DEF getOrFetchCachedValue
    <2>2. CASE /\ memory = 0 /\ requests' = Append(requests, Ask("get", {c}, 0))
               /\ UNCHANGED <<memory, asked, revalidation>>
      <3> DEFINE x == Ask("get", {c}, 0)
      <3>1. x \in DbRequest /\ x.op = "get" /\ requests' = Append(requests, x)
        BY <2>2, CacheAssumption DEF Ask, DbRequest, Value
      <3> HIDE DEF x
      <3>2. UNCHANGED <<indexed, cleared, excused, asked>>
        BY <1>3, <2>2 DEF getOrFetchCachedValue
      <3>3. /\ OrderClean(requests)'
            /\ \A n \in Value : Newer(n, requests) => Newer(n, requests)'
        BY <1>1, <3>1, <3>2, ReadAsked
      <3> QED
        BY <1>1, <2>2, <3>2, <3>3 DEF NoOldValues, Newer, Clean
    <2> QED
      BY <1>3, <2>1, <2>2 DEF getOrFetchCachedValue
  <1>4. ASSUME NEW c \in Readers, GetEnds(c) PROVE NoOldValues'
    <2>1. /\ requests # <<>> /\ Head(requests).op = "get"
          /\ excused \subseteq excused' /\ UNCHANGED <<indexed, cleared>>
      BY <1>4 DEF GetEnds, Ends
    <2>2. CASE indexed # 0 /\ Found(c, indexed, rs)
      <3>1. memory' = 0 \/ memory' = indexed
        BY <2>2 DEF Found
      <3>2. memory' = indexed => indexed \in excused' \/ Newer(indexed, rs)
        <4>1. Head(requests).late => memory' = memory \/ memory' \in excused'
          BY <1>4 DEF GetEnds
        <4>2. ~Head(requests).late => Newer(indexed, rs)
          BY <1>1, <1>2, <2>1, <2>2
        <4>3. memory' = memory /\ memory' # 0 => Newer(memory', rs)
          BY <1>1, <1>2, <2>1
        <4> QED
          BY <2>2, <4>1, <4>2, <4>3
      <3>3. revalidation.pc = "asked" => Newer(revalidation.n, rs)
        BY <1>1, <1>2, <2>1
      <3>4. CASE memory' = indexed
        BY <1>1, <1>2, <2>1, <2>2, <3>2, <3>3, <3>4, FoundKeeps
      <3>5. CASE memory' = 0
        <4>1. /\ requests' = Append(Overtaken(rs), Ask("delete", {c}, 0))
              /\ UNCHANGED <<asked, revalidation>>
          BY <2>2, <3>5 DEF Found
        <4> DEFINE x == Ask("delete", {c}, 0)
        <4>2. x \in DbRequest /\ x.op = "delete" /\ requests' = Append(Overtaken(rs), x)
          BY <4>1, CacheAssumption DEF Ask, DbRequest, Value
        <4> HIDE DEF x
        <4>3. /\ OrderClean(requests)'
              /\ \A m \in Value : Newer(m, rs) => Newer(m, requests)'
          BY <1>2, <2>1, <4>1, <4>2, ChangeAsked
        <4> QED
          BY <1>1, <2>1, <3>3, <3>5, <4>1, <4>3 DEF NoOldValues, Newer, Clean
      <3> QED
        BY <3>1, <3>4, <3>5
    <2>3. CASE fetchAndStore /\ requests' = rs /\ UNCHANGED memory
      <3>1. /\ asked <= asked'
            /\ revalidation'.pc = "asked" => Newer(revalidation'.n, rs)
        BY <1>1, <1>2, <2>1, <2>3, FetchNewer
      <3>2. /\ OrderClean(requests)'
            /\ \A n \in Value : Newer(n, rs) => Newer(n, requests)'
        BY <1>2, <2>1, <2>3, <3>1, OrderKept
      <3>3. memory # 0 => Newer(memory, rs)
        BY <1>1, <1>2, <2>1
      <3>4. memory' # 0 => Newer(memory, requests)'
        BY <1>1, <2>3, <3>2, <3>3 DEF Newer
      <3>5. revalidation'.pc = "asked" => Newer(revalidation.n, requests)'
        BY <1>1, <3>1, <3>2 DEF Newer
      <3>6. (indexed' # 0 => Clean(indexed)') /\ cleared' <= asked'
        BY <1>1, <2>1, <3>1 DEF Clean
      <3> QED
        BY <3>2, <3>4, <3>5, <3>6 DEF NoOldValues
    <2> QED
      BY <1>4, <2>2, <2>3 DEF GetEnds, rs
  <1>5. ASSUME NEW c \in Readers, DeleteEnds(c) PROVE NoOldValues'
    <2>1. /\ requests # <<>> /\ requests' = rs /\ indexed' = 0 /\ fetchAndStore
          /\ UNCHANGED <<memory, cleared, excused>>
      BY <1>5 DEF DeleteEnds, Ends, rs
    <2>2. /\ asked <= asked'
          /\ revalidation'.pc = "asked" => Newer(revalidation'.n, rs)
      BY <1>1, <1>2, <2>1, FetchNewer
    <2>3. /\ OrderClean(requests)'
          /\ \A n \in Value : Newer(n, rs) => Newer(n, requests)'
      BY <1>2, <2>1, <2>2, OrderKept
    <2>4. memory # 0 => Newer(memory, rs)
      BY <1>1, <1>2, <2>1
    <2> QED
      BY <1>1, <2>1, <2>2, <2>3, <2>4 DEF NoOldValues, Newer
  <1>6. CASE FetchResolves
    <2> DEFINE x == Ask("put", {}, revalidation.n)
    <2>1. /\ x \in DbRequest /\ x.op = "put" /\ x.n = revalidation.n
          /\ requests' = Append(Overtaken(requests), x)
      BY <1>1, <1>6 DEF FetchResolves, Ask, DbRequest
    <2> HIDE DEF x
    <2>2. /\ memory' = revalidation.n /\ revalidation'.pc = "storing"
          /\ Newer(revalidation.n, requests)
          /\ UNCHANGED <<indexed, asked, cleared, excused>>
      BY <1>1, <1>6 DEF FetchResolves, CacheTypeOK
    <2>3. /\ OrderClean(requests)'
          /\ \A n \in Value : Newer(n, requests) => Newer(n, requests)'
      BY <1>1, <2>1, <2>2, ChangeAsked
    <2> QED
      BY <1>1, <2>2, <2>3 DEF NoOldValues, Newer, Clean
  <1>7. CASE clearCachedValues
    <2> DEFINE x == Ask("clear", {}, asked)
    <2>1. /\ x \in DbRequest /\ x.op = "clear" /\ x.n = asked
          /\ requests' = Append(Overtaken(requests), x)
      BY <1>7 DEF clearCachedValues, Ask, DbRequest, CacheTypeOK
    <2> HIDE DEF x
    <2>2. /\ memory' = 0 /\ UNCHANGED <<indexed, asked, cleared, revalidation>>
          /\ excused \subseteq excused'
          /\ revalidation.pc = "asked" => revalidation.n \in excused'
      BY <1>7 DEF clearCachedValues
    <2>3. OrderClean(requests)'
      BY <1>1, <2>1, <2>2, ChangeAsked
    <2> QED
      BY <1>1, <2>2, <2>3 DEF NoOldValues, Newer, Clean
  <1>8. CASE PutEnds
    <2>1. /\ requests # <<>> /\ requests' = rs /\ indexed' = Head(requests).n
          /\ Head(requests).op = "put" /\ revalidation'.pc = "none"
          /\ UNCHANGED <<memory, asked, cleared, excused>>
      BY <1>8 DEF PutEnds, Ends, rs, NoFetch
    <2>2. /\ OrderClean(requests)'
          /\ \A n \in Value : Newer(n, rs) => Newer(n, requests)'
      BY <1>1, <1>2, <2>1, OrderKept
    <2>3. memory # 0 => Newer(memory, rs)
      BY <1>1, <1>2, <2>1
    <2>4. Clean(Head(requests).n)
      BY <1>1, <1>2, <2>1 DEF OrderClean
    <2> QED
      BY <1>1, <2>1, <2>2, <2>3, <2>4 DEF NoOldValues, Newer, Clean
  <1>9. CASE ClearEnds
    <2>1. /\ requests # <<>> /\ requests' = rs /\ indexed' = 0 /\ cleared' = requests[1].n
          /\ requests[1].op = "clear"
          /\ UNCHANGED <<memory, revalidation, asked, excused>>
      BY <1>2, <1>9 DEF ClearEnds, Ends, rs
    <2>2. cleared' <= asked'
      BY <1>1, <1>2, <2>1 DEF OrderClean
    <2>3. \A n \in Value : Newer(n, requests) => Newer(n, requests)'
      BY <1>1, <1>2, <2>1 DEF Newer
    <2>4. OrderClean(requests)'
      <3>1. \A i \in DOMAIN rs : rs[i].op = "put" => rs[i].n \in excused \/ rs[i].n > cleared'
        <4> TAKE i \in DOMAIN rs
        <4>1. i + 1 \in DOMAIN requests /\ 1 < i + 1 /\ rs[i] = requests[i + 1]
          BY <1>2, <2>1
        <4> QED
          BY <1>1, <1>2, <2>1, <4>1 DEF OrderClean
      <3> QED
        BY <1>2, <2>1, <3>1 DEF OrderClean, Clean
    <2> QED
      BY <1>1, <2>1, <2>2, <2>3, <2>4 DEF NoOldValues, Newer
  <1>10. CASE RequestFails
    <2>1. /\ requests # <<>> /\ requests' = rs /\ excused \subseteq excused'
          /\ revalidation' = revalidation \/ revalidation'.pc = "none"
          /\ UNCHANGED <<memory, indexed, asked, cleared>>
      BY <1>10 DEF RequestFails, rs, NoFetch
    <2>2. /\ OrderClean(requests)'
          /\ \A n \in Value : Newer(n, rs) => Newer(n, requests)'
      BY <1>1, <1>2, <2>1, OrderKept
    <2>3. /\ memory # 0 => Newer(memory, rs)
          /\ revalidation.pc = "asked" => Newer(revalidation.n, rs)
      BY <1>1, <1>2, <2>1
    <2> QED
      BY <1>1, <2>1, <2>2, <2>3 DEF NoOldValues, Newer, Clean
  <1>11. CASE FetchRejects \/ OtherPage
    <2>1. /\ UNCHANGED <<memory, requests, cleared, excused>> /\ asked <= asked'
          /\ revalidation' = revalidation \/ revalidation'.pc = "none"
          /\ indexed' \in {0, indexed} \/ indexed' > cleared
      BY <1>1, <1>11 DEF FetchRejects, OtherPage, NoFetch
    <2>2. /\ OrderClean(requests)'
          /\ \A n \in Value : Newer(n, requests) => Newer(n, requests)'
      BY <1>1, <2>1, OrderKept
    <2> QED
      BY <1>1, <2>1, <2>2 DEF NoOldValues, Newer, Clean
  <1>12. CASE UNCHANGED cacheVars
    BY <1>12 DEF cacheVars, NoOldValues, Newer, Clean, OrderClean
  <1> QED
    BY <1>3, <1>4, <1>5, <1>6, <1>7, <1>8, <1>9, <1>10, <1>11, <1>12 DEF CacheNext

------------------------------------------------------------------------------
(* The memory and the database agree                                         *)

\* When the first request ends, the value settles in what is left, or just has.
LEMMA AgreesOn ==
    ASSUME CacheTypeOK, requests # <<>>, NEW n \in Value, WillBe(n, requests)
    PROVE  \/ WillWrite(n, Tail(requests))
           \/ /\ OnlyReads(Tail(requests))
              /\ \/ Head(requests).op = "get" /\ indexed = n
                 \/ Head(requests).op = "put" /\ Head(requests).n = n
  <1> DEFINE rs == Tail(requests)
  <1>1. /\ DOMAIN requests = 1..Len(requests) /\ Len(requests) \in Nat /\ Len(requests) > 0
        /\ DOMAIN rs = 1..(Len(requests) - 1) /\ Head(requests) = requests[1]
        /\ \A i \in 1..(Len(requests) - 1) : rs[i] = requests[i + 1]
    BY Ended DEF CacheTypeOK
  <1> HIDE DEF rs
  <1>2. \A i \in DOMAIN rs : i + 1 \in DOMAIN requests /\ rs[i] = requests[i + 1] /\ 1 < i + 1
    BY <1>1
  <1>3. CASE indexed = n /\ OnlyReads(requests)
    BY <1>1, <1>2, <1>3 DEF OnlyReads, rs
  <1>4. CASE WillWrite(n, requests)
    <2>1. PICK i \in DOMAIN requests :
            /\ requests[i].op = "put" /\ requests[i].n = n
            /\ \A j \in DOMAIN requests : i < j => requests[j].op = "get"
      BY <1>4 DEF WillWrite
    <2>2. CASE i = 1
      BY <1>1, <1>2, <2>1, <2>2 DEF OnlyReads, rs
    <2>3. CASE i # 1
      <3>1. i - 1 \in DOMAIN rs /\ rs[i - 1] = requests[i]
        BY <1>1, <2>1, <2>3
      <3>2. \A j \in DOMAIN rs : i - 1 < j => rs[j].op = "get"
        BY <1>1, <1>2, <2>1
      <3> QED
        BY <2>1, <3>1, <3>2 DEF WillWrite, rs
    <2> QED
      BY <2>2, <2>3
  <1> QED
    BY <1>3, <1>4 DEF WillBe

\* A read changes nothing; a write settles its value.
LEMMA AgreesAsked ==
    ASSUME NEW rs \in Seq(DbRequest), NEW x \in DbRequest, NEW n \in Value
    PROVE  /\ x.op = "get" /\ WillBe(n, rs) => WillBe(n, Append(rs, x))
           /\ x.op = "put" /\ x.n = n => WillWrite(n, Append(Overtaken(rs), x))
  <1>1. /\ DOMAIN rs = 1..Len(rs) /\ Len(rs) \in Nat
        /\ Overtaken(rs) \in Seq(DbRequest) /\ Len(Overtaken(rs)) = Len(rs)
    BY Marked
  <1>2. \A i \in 1..(Len(rs) + 1) : i \in 1..Len(rs) \/ i = Len(rs) + 1
    BY <1>1
  <1>3. ASSUME x.op = "get", WillBe(n, rs) PROVE WillBe(n, Append(rs, x))
    <2> DEFINE qs == Append(rs, x)
    <2>1. /\ DOMAIN qs = 1..(Len(rs) + 1) /\ qs[Len(rs) + 1] = x
          /\ \A i \in 1..Len(rs) : qs[i] = rs[i]
      BY Appended
    <2> HIDE DEF qs
    <2>2. OnlyReads(rs) => OnlyReads(qs)
      BY <1>1, <1>2, <1>3, <2>1 DEF OnlyReads
    <2>3. WillWrite(n, rs) => WillWrite(n, qs)
      BY <1>1, <1>2, <1>3, <2>1 DEF WillWrite
    <2> QED
      BY <1>3, <2>2, <2>3 DEF WillBe, qs
  <1>4. ASSUME x.op = "put", x.n = n PROVE WillWrite(n, Append(Overtaken(rs), x))
    <2> DEFINE qs == Append(Overtaken(rs), x)
    <2>1. DOMAIN qs = 1..(Len(rs) + 1) /\ qs[Len(rs) + 1] = x
      BY <1>1, Appended
    <2> HIDE DEF qs
    <2>2. WillWrite(n, qs)
      BY <1>1, <1>4, <2>1 DEF WillWrite
    <2> QED
      BY <2>2 DEF qs
  <1> QED
    BY <1>3, <1>4

LEMMA MemoryAgreesKept ==
    ASSUME CacheTypeOK, CacheTypeOK', NoOldValues, MemoryAgrees, [CacheNext]_cacheVars
    PROVE  MemoryAgrees'
  <1> DEFINE rs == Tail(requests)
  <1>1. /\ requests \in Seq(DbRequest) /\ memory \in Value /\ indexed \in Value
        /\ OrderClean(requests)
    BY DEF CacheTypeOK, NoOldValues
  <1>2. SUFFICES ASSUME memory' \notin excused' \cup {0}, ~cache'.others
                 PROVE  WillBe(memory, requests)'
    BY DEF MemoryAgrees
  <1>3. cache' = cache /\ ~cache.others
    BY <1>2 DEF CacheNext, cacheVars, getOrFetchCachedValue, GetEnds, DeleteEnds, FetchResolves,
        FetchRejects, clearCachedValues, PutEnds, ClearEnds, RequestFails, OtherPage
  <1>4. ASSUME memory' = memory, excused \subseteq excused' PROVE WillBe(memory, requests)
    BY <1>2, <1>3, <1>4 DEF MemoryAgrees
  \* the first request ends and is not the one that settles the memory's value
  <1>5. ASSUME requests # <<>>, requests' = rs, memory' = memory, excused \subseteq excused',
               \/ indexed' = indexed /\ Head(requests).op \notin {"put"}
               \/ Head(requests).op = "put" /\ indexed' = Head(requests).n
               \/ Head(requests).op = "put" /\ Head(requests).n \in excused'
               \/ Head(requests).op \notin {"put", "get"}
        PROVE  WillBe(memory, requests)'
    <2>1. \/ WillWrite(memory, rs)
          \/ /\ OnlyReads(rs)
             /\ \/ Head(requests).op = "get" /\ indexed = memory
                \/ Head(requests).op = "put" /\ Head(requests).n = memory
      BY <1>1, <1>4, <1>5, AgreesOn
    <2> HIDE DEF rs
    <2> QED
      BY <1>2, <1>5, <2>1 DEF WillBe, WillWrite, OnlyReads
  <1> HIDE DEF rs
  <1>6. ASSUME NEW c \in Readers, getOrFetchCachedValue(c) PROVE WillBe(memory, requests)'
    <2>1. excused' = excused /\ indexed' = indexed
      BY <1>6 DEF getOrFetchCachedValue
    <2>2. CASE memory # 0 /\ Found(c, memory, requests)
      <3>1. memory' = memory /\ requests' = requests
        BY <1>2, <2>2 DEF Found
      <3> QED
        BY <1>4, <2>1, <3>1 DEF WillBe, WillWrite, OnlyReads
    <2>3. CASE memory = 0 /\ UNCHANGED memory
      BY <1>2, <2>3
    <2> QED
      BY <1>6, <2>2, <2>3 DEF getOrFetchCachedValue
  <1>7. ASSUME NEW c \in Readers, GetEnds(c) PROVE WillBe(memory, requests)'
    <2>1. /\ requests # <<>> /\ Head(requests).op = "get" /\ indexed' = indexed
          /\ excused \subseteq excused' /\ requests' = rs
      BY <1>2, <1>7 DEF GetEnds, Ends, Found, rs
    <2>2. memory' = memory \/ (memory' = indexed /\ ~Head(requests).late)
      <3>1. memory' \in {memory, indexed}
        BY <1>2, <1>7 DEF GetEnds, Found
      <3>2. excused' = IF Head(requests).late /\ memory' # memory
                       THEN excused \cup {memory'} ELSE excused
        BY <1>7 DEF GetEnds
      <3> QED
        BY <1>2, <3>1, <3>2
    <2>3. CASE memory' = memory
      BY <1>5, <2>1, <2>3
    <2>4. CASE memory' = indexed /\ ~Head(requests).late
      <3>1. /\ DOMAIN rs = 1..(Len(requests) - 1) /\ Head(requests) = requests[1]
            /\ \A i \in 1..(Len(requests) - 1) : rs[i] = requests[i + 1]
            /\ DOMAIN requests = 1..Len(requests) /\ Len(requests) \in Nat /\ 1 \in DOMAIN requests
        BY <1>1, <2>1, Ended DEF rs
      <3>2. \A i \in DOMAIN requests : 1 < i => requests[i].op = "get"
        BY <1>1, <2>1, <2>4, <3>1 DEF OrderClean
      <3>3. OnlyReads(rs)
        BY <3>1, <3>2 DEF OnlyReads
      <3> QED
        BY <2>1, <2>4, <3>3 DEF WillBe, OnlyReads
    <2> QED
      BY <2>2, <2>3, <2>4
  <1>8. ASSUME NEW c \in Readers, DeleteEnds(c) PROVE WillBe(memory, requests)'
    <2>1. /\ requests # <<>> /\ requests' = rs /\ memory' = memory
          /\ excused' = excused /\ Head(requests).op = "delete"
      BY <1>8 DEF DeleteEnds, Ends, rs
    <2> QED
      BY <1>5, <2>1
  <1>9. CASE FetchResolves
    <2> DEFINE x == Ask("put", {}, revalidation.n)
    <2>1. /\ x \in DbRequest /\ x.op = "put" /\ x.n = revalidation.n
          /\ requests' = Append(Overtaken(requests), x)
      BY <1>9 DEF FetchResolves, Ask, DbRequest, CacheTypeOK
    <2> HIDE DEF x
    <2>2. revalidation.n \in Value /\ memory' = revalidation.n
      BY <1>9 DEF FetchResolves, CacheTypeOK
    <2>3. WillWrite(revalidation.n, requests')
      BY <1>1, <2>1, <2>2, AgreesAsked
    <2> QED
      BY <2>2, <2>3 DEF WillBe, WillWrite
  <1>10. CASE clearCachedValues
    BY <1>2, <1>10 DEF clearCachedValues
  <1>11. CASE PutEnds
    <2>1. /\ requests # <<>> /\ requests' = rs /\ memory' = memory
          /\ excused' = excused /\ Head(requests).op = "put" /\ indexed' = Head(requests).n
      BY <1>11 DEF PutEnds, Ends, rs
    <2> QED
      BY <1>5, <2>1
  <1>12. CASE ClearEnds
    <2>1. /\ requests # <<>> /\ requests' = rs /\ memory' = memory
          /\ excused' = excused /\ Head(requests).op = "clear"
      BY <1>12 DEF ClearEnds, Ends, rs
    <2> QED
      BY <1>5, <2>1
  <1>13. CASE RequestFails
    <2>1. /\ requests # <<>> /\ requests' = rs /\ memory' = memory /\ indexed' = indexed
          /\ excused \subseteq excused'
          /\ Head(requests).op = "put" => Head(requests).n \in excused'
      BY <1>13 DEF RequestFails, Ends, rs
    <2> QED
      BY <1>5, <2>1
  <1>14. CASE FetchRejects \/ UNCHANGED cacheVars
    <2>1. UNCHANGED <<memory, indexed, requests, excused>>
      BY <1>14 DEF FetchRejects, cacheVars
    <2> QED
      BY <1>4, <2>1 DEF WillBe, WillWrite, OnlyReads
  <1>15. ~OtherPage
    BY <1>3 DEF OtherPage
  <1> QED
    BY <1>6, <1>7, <1>8, <1>9, <1>10, <1>11, <1>12, <1>13, <1>14, <1>15 DEF CacheNext

------------------------------------------------------------------------------
(* The theorems                                                              *)

LEMMA CacheStarts ==
    ASSUME CacheInit
    PROVE  CacheInv
  <1>1. CacheTypeOK
    BY CacheAssumption DEF CacheInit, CacheTypeOK, Value, DbRequest, NoFetch
  <1>2. NoOldValues
    BY DEF CacheInit, NoOldValues, OrderClean, Newer, Clean, NoFetch
  <1>3. MemoryAgrees
    BY DEF CacheInit, MemoryAgrees
  <1> QED
    BY <1>1, <1>2, <1>3 DEF CacheInv

\* The order of what is under way keeps cleared values away.
THEOREM CacheInvariant == CacheSpec => []CacheInv
  <1>1. CacheInv /\ [CacheNext]_cacheVars => CacheInv'
    BY CacheTyped, NoOldValuesKept, MemoryAgreesKept DEF CacheInv
  <1> QED
    BY <1>1, CacheStarts, PTL DEF CacheSpec

\* The types of the cache's state, its bounds included.
THEOREM CacheTypesAlways == CacheSpec => []CacheTypeOK
  BY CacheInvariant, PTL DEF CacheInv

\* clearCachedValues is final: neither the memory nor the database gets a value back that
\* was asked for before, but for the values that are excused, for any readers and bounds.
THEOREM NothingComesBackEver == CacheSpec => []NothingComesBack
  <1>1. CacheInv => NothingComesBack
    <2> SUFFICES ASSUME CacheInv PROVE NothingComesBack
      OBVIOUS
    <2>1. \A n \in {memory, indexed} \ (excused \cup {0}) : n > cleared
      BY DEF CacheInv, NoOldValues, Newer, Clean
    <2>2. ASSUME requests = <<>>, ~cache.others PROVE memory \in {0, indexed} \cup excused
      <3>1. DOMAIN requests = {}
        BY <2>2
      <3> QED
        BY <2>2, <3>1 DEF CacheInv, MemoryAgrees, WillBe, WillWrite
    <2> QED
      BY <2>1, <2>2 DEF NothingComesBack
  <1> QED
    BY <1>1, CacheInvariant, PTL

------------------------------------------------------------------------------
(* Payouts                                                                   *)

\* What a call has while it does what it does.
ClickOK(x) ==
    /\ x.pc = "idle" => x = NoClick
    /\ x.pc \in {"minting", "posting"} => x.tries = 0
    /\ x.pc \in {"posting", "waiting", "backoff"} => x.key \in AttemptKeys
    /\ x.pc = "waiting" => x.tries \in 1..(HttpRetries + 1)
    /\ x.pc = "backoff" => x.tries \in 1..HttpRetries
ClicksOK == \A c \in Clicks : ClickOK(click[c])

\* The index has every payout under its key, so that a key is known from its first
\* payout on; a key that is remembered as done is known.
IndexOK ==
    /\ \A p \in DOMAIN payouts : index[payouts[p].key] = p
    /\ \A k \in AttemptKeys : outcome[k] = "ok" => Known(k)
    /\ \A p, q \in DOMAIN payouts :
        /\ payouts[p].amount = payouts[q].amount
        /\ payouts[p].status \in {"pending", "processing"}
        /\ payouts[q].status \in {"pending", "processing"}
        => p = q

\* One attempt per amount: calls work under the key of the attempt, a request under
\* another key repeats one that was paid, and what was accepted is the attempt's.
OneAttempt ==
    /\ \A a \in Amounts : ~attempt[a].over /\ (attempt[a].key = 0 => fresh[a] = {})
    /\ \A a \in Amounts : \A p \in fresh[a] : payouts[p].key = attempt[a].key
    /\ \A c, d \in Clicks :
        click[c].pc # "idle" /\ click[d].pc # "idle" /\ click[c].amount = click[d].amount => c = d
    /\ \A c \in Clicks :
        /\ click[c].pc = "minting" => attempt[click[c].amount].key = 0
        /\ click[c].pc \in {"posting", "waiting", "backoff"}
                => click[c].key = attempt[click[c].amount].key
    /\ \A r \in net : r.key = attempt[r.amount].key \/ Known(r.key)

\* What is said of the index and of each call.
PayoutBase == PayoutTypeOK /\ ClicksOK /\ IndexOK

PayoutInv ==
    /\ PayoutBase
    /\ ~web.expires /\ ~web.double => OneAttempt

\* A call goes on to do something else.
LEMMA ClickMoves ==
    ASSUME PayoutTypeOK, ClicksOK, NEW c \in Clicks, NEW x \in Click, ClickOK(x),
           click' = [click EXCEPT ![c] = x]
    PROVE  click' \in [Clicks -> Click] /\ ClicksOK'
  <1>1. click' \in [Clicks -> Click]
    BY DEF PayoutTypeOK
  <1>2. \A d \in Clicks : click'[d] = IF d = c THEN x ELSE click[d]
    BY DEF PayoutTypeOK
  <1>3. \A d \in Clicks : ClickOK(click'[d])
    BY <1>2 DEF ClicksOK
  <1> QED
    BY <1>1, <1>3 DEF ClicksOK

LEMMA Idle ==
    NoClick \in Click /\ ClickOK(NoClick) /\ NoClick.pc = "idle"
  BY PayoutBoundsAssumption DEF NoClick, Becoming, Click, ClickOK

\* A call that waits retries while its budget lasts, or ends.
LEMMA RetryTyped ==
    ASSUME PayoutTypeOK, ClicksOK, NEW c \in Clicks, click[c].pc = "waiting", RetriesOrFails(c)
    PROVE  /\ click' \in [Clicks -> Click] /\ ClicksOK'
           /\ outcome' \in [AttemptKeys -> {"none", "busy", "ok"}]
           /\ \A k \in AttemptKeys : outcome'[k] = "ok" => outcome[k] = "ok"
           /\ \/ click' = [click EXCEPT ![c] = [click[c] EXCEPT !.pc = "backoff"]]
              \/ click' = [click EXCEPT ![c] = NoClick]
  <1>1. click[c] \in Click /\ ClickOK(click[c])
    BY DEF PayoutTypeOK, ClicksOK
  <1>2. CASE click[c].tries <= HttpRetries
    <2> DEFINE x == [click[c] EXCEPT !.pc = "backoff"]
    <2>1. x \in Click /\ ClickOK(x)
      BY <1>1, <1>2, PayoutBoundsAssumption DEF Click, ClickOK
    <2>2. click' = [click EXCEPT ![c] = x] /\ outcome' = outcome
      <3>1. click' = [click EXCEPT ![c].pc = "backoff"] /\ outcome' = outcome
        BY <1>2 DEF RetriesOrFails
      <3> QED
        BY <3>1
    <2> QED
      BY <2>1, <2>2, ClickMoves DEF PayoutTypeOK
  <1>3. CASE ~(click[c].tries <= HttpRetries)
    <2>1. EndsFailed(c)
      BY <1>3 DEF RetriesOrFails
    <2> QED
      BY <2>1, Idle, ClickMoves DEF EndsFailed, PayoutTypeOK
  <1> QED
    BY <1>2, <1>3

\* A call is told of payout p, or is not there to be told.
LEMMA ReportTyped ==
    ASSUME PayoutTypeOK, ClicksOK, NEW c \in Clicks, NEW p \in 1..(Len(payouts) + 1),
           ReportsQueued(c, p)
    PROVE  /\ click' \in [Clicks -> Click] /\ ClicksOK'
           /\ attempt' \in [Amounts -> [key : 0..MaxKeys, over : BOOLEAN]]
           /\ told' \subseteq 1..(Len(payouts) + 1) /\ told' \subseteq told \cup {p}
  <1>1. NoAttempt \in [key : 0..MaxKeys, over : BOOLEAN]
    BY PayoutBoundsAssumption DEF NoAttempt
  <1>2. click' \in [Clicks -> Click] /\ ClicksOK'
    BY Idle, ClickMoves DEF ReportsQueued
  <1>3. attempt' \in [Amounts -> [key : 0..MaxKeys, over : BOOLEAN]]
    BY <1>1 DEF ReportsQueued, PayoutTypeOK
  <1>4. told' \subseteq 1..(Len(payouts) + 1) /\ told' \subseteq told \cup {p}
    BY DEF ReportsQueued, PayoutTypeOK
  <1> QED
    BY <1>2, <1>3, <1>4

LEMMA SameServer ==
    ASSUME PayoutBase, UNCHANGED <<web, payouts, index>>,
           \A k \in AttemptKeys : outcome'[k] = "ok" => outcome[k] = "ok"
    PROVE  IndexOK'
  BY DEF PayoutBase, IndexOK, Known

LEMMA CallTyped ==
    ASSUME PayoutBase, NEW c \in Clicks,
           \/ \E a \in Amounts : Begin(c, a)
           \/ Mint(c) \/ Send(c) \/ AnswerFromRecord(c) \/ NoAnswer(c) \/ ReloadTab(c)
    PROVE  PayoutBase'
  <1> USE DEF PayoutBase
  <1>1. /\ click[c] \in Click /\ ClickOK(click[c])
        /\ web \in Webs /\ minted \in 0..MaxKeys /\ MaxKeys \in Nat /\ HttpRetries \in Nat
        /\ outcome \in [AttemptKeys -> {"none", "busy", "ok"}] /\ net \subseteq Request
    BY PayoutBoundsAssumption DEF PayoutTypeOK, ClicksOK
  <1>2. ASSUME NEW a \in Amounts, Begin(c, a) PROVE PayoutBase'
    <2> DEFINE x == Becoming(IF OpenKey(a) = 0 THEN "minting" ELSE "posting", a, OpenKey(a), 0)
    <2>1. OpenKey(a) \in 0..MaxKeys
      BY <1>1 DEF OpenKey, PayoutTypeOK
    <2>2. x \in Click /\ ClickOK(x)
      BY <1>1, <2>1 DEF Becoming, Click, ClickOK, AttemptKeys
    <2>3. click' = [click EXCEPT ![c] = x]
      BY <1>2 DEF Begin
    <2> HIDE DEF x
    <2>4. click' \in [Clicks -> Click] /\ ClicksOK'
      BY <2>2, <2>3, ClickMoves
    <2>5. UNCHANGED <<web, attempt, minted, outcome, net, payouts, index, told, fresh>>
      BY <1>2 DEF Begin, UNCHANGED_Server
    <2> QED
      BY <2>4, <2>5, SameServer DEF PayoutTypeOK
  <1>3. CASE Mint(c)
    <2> DEFINE x == Becoming("posting", click[c].amount, minted + 1, 0)
    <2>1. minted + 1 \in AttemptKeys /\ minted' = minted + 1 /\ click[c].pc = "minting"
      BY <1>1, <1>3 DEF Mint, AttemptKeys
    <2>2. x \in Click /\ ClickOK(x)
      BY <1>1, <2>1 DEF Becoming, Click, ClickOK, AttemptKeys
    <2>3. click' = [click EXCEPT ![c] = x]
      BY <1>3 DEF Mint
    <2> HIDE DEF x
    <2>4. click' \in [Clicks -> Click] /\ ClicksOK'
      BY <2>2, <2>3, ClickMoves
    <2>5. attempt' \in [Amounts -> [key : 0..MaxKeys, over : BOOLEAN]]
      <3>1. [key |-> minted + 1, over |-> FALSE] \in [key : 0..MaxKeys, over : BOOLEAN]
        BY <1>1, <2>1 DEF AttemptKeys
      <3> QED
        BY <1>3, <3>1 DEF Mint, PayoutTypeOK
    <2>6. UNCHANGED <<web, outcome, net, payouts, index, told, fresh>>
      BY <1>3 DEF Mint, UNCHANGED_Server
    <2>7. minted' \in 0..MaxKeys
      BY <1>1, <2>1 DEF AttemptKeys
    <2> QED
      BY <2>4, <2>5, <2>6, <2>7, SameServer DEF PayoutTypeOK
  <1>4. CASE Send(c)
    <2> DEFINE x == Becoming("waiting", click[c].amount, click[c].key, click[c].tries + 1)
    <2>1. click[c].pc \in {"posting", "backoff"} /\ click[c].key \in AttemptKeys
      BY <1>1, <1>4 DEF Send, ClickOK
    <2>2. click[c].tries + 1 \in 1..(HttpRetries + 1)
      BY <1>1, <2>1 DEF ClickOK
    <2>3. x \in Click /\ ClickOK(x)
      BY <1>1, <2>1, <2>2 DEF Becoming, Click, ClickOK
    <2>4. click' = [click EXCEPT ![c] = x]
      BY <1>4 DEF Send
    <2> HIDE DEF x
    <2>5. click' \in [Clicks -> Click] /\ ClicksOK'
      BY <2>3, <2>4, ClickMoves
    <2>6. RequestOf(c, click[c].tries + 1) \in Request
      BY <1>1, <2>1, <2>2 DEF RequestOf, Request, Click
    <2>7. UNCHANGED <<web, attempt, minted, payouts, index, told, fresh>>
      BY <1>4 DEF Send, UNCHANGED_Server
    <2>8. /\ outcome' \in [AttemptKeys -> {"none", "busy", "ok"}]
          /\ \A k \in AttemptKeys : outcome'[k] = "ok" => outcome[k] = "ok"
      BY <1>1, <1>4 DEF Send
    <2>9. net' \subseteq Request
      BY <1>1, <1>4, <2>6 DEF Send
    <2> QED
      BY <2>5, <2>7, <2>8, <2>9, SameServer DEF PayoutTypeOK
  <1>5. CASE AnswerFromRecord(c)
    <2> DEFINE p == index[click[c].key]
    <2>1. click[c].key \in AttemptKeys /\ outcome[click[c].key] = "ok"
      BY <1>1, <1>5 DEF AnswerFromRecord, ClickOK
    <2>2. p \in 1..Len(payouts)
      BY <2>1 DEF IndexOK, Known, PayoutTypeOK
    <2>3. ReportsQueued(c, p)
      BY <1>5 DEF AnswerFromRecord
    <2> HIDE DEF p
    <2>4. /\ click' \in [Clicks -> Click] /\ ClicksOK'
          /\ attempt' \in [Amounts -> [key : 0..MaxKeys, over : BOOLEAN]]
          /\ told' \subseteq told \cup {p}
      <3>1. p \in 1..(Len(payouts) + 1)
        BY <2>2 DEF PayoutTypeOK
      <3> QED
        BY <2>3, <3>1, ReportTyped
    <2>5. UNCHANGED <<web, minted, outcome, net, payouts, index>>
      BY <1>5 DEF AnswerFromRecord, UNCHANGED_Server
    <2>6. fresh' \in [Amounts -> SUBSET DOMAIN payouts]
      BY <1>5 DEF AnswerFromRecord, PayoutTypeOK
    <2>7. told' \subseteq DOMAIN payouts
      BY <2>2, <2>4 DEF PayoutTypeOK
    <2> QED
      BY <2>4, <2>5, <2>6, <2>7, SameServer DEF PayoutTypeOK
  <1>6. CASE NoAnswer(c)
    <2>1. /\ click' \in [Clicks -> Click] /\ ClicksOK'
          /\ outcome' \in [AttemptKeys -> {"none", "busy", "ok"}]
          /\ \A k \in AttemptKeys : outcome'[k] = "ok" => outcome[k] = "ok"
      BY <1>6, RetryTyped DEF NoAnswer
    <2>2. UNCHANGED <<web, attempt, minted, net, payouts, index, told, fresh>>
      BY <1>6 DEF NoAnswer, UNCHANGED_Server
    <2> QED
      BY <2>1, <2>2, SameServer DEF PayoutTypeOK
  <1>7. CASE ReloadTab(c)
    <2>1. click' \in [Clicks -> Click] /\ ClicksOK'
      BY <1>7, Idle, ClickMoves DEF ReloadTab
    <2>2. /\ outcome' \in [AttemptKeys -> {"none", "busy", "ok"}]
          /\ \A k \in AttemptKeys : outcome'[k] = "ok" => outcome[k] = "ok"
      BY <1>1, <1>7 DEF ReloadTab
    <2>3. UNCHANGED <<web, attempt, minted, net, payouts, index, told, fresh>>
      BY <1>7 DEF ReloadTab, UNCHANGED_Server
    <2> QED
      BY <2>1, <2>2, <2>3, SameServer DEF PayoutTypeOK
  <1> QED
    BY <1>2, <1>3, <1>4, <1>5, <1>6, <1>7

\* A payout is made under a key that was not known.
LEMMA PayoutAdded ==
    ASSUME PayoutBase, NEW x \in Payout, ~Known(x.key),
           x.status = "failed" \/ ~InFlight(x.amount),
           payouts' = Append(payouts, x),
           index' = [index EXCEPT ![x.key] = Len(payouts) + 1],
           \A k \in AttemptKeys : outcome'[k] = "ok" => outcome[k] = "ok" \/ k = x.key
    PROVE  /\ payouts' \in Seq(Payout) /\ DOMAIN payouts' = 1..(Len(payouts) + 1)
           /\ index' \in [AttemptKeys -> 0..Len(payouts')]
           /\ \A p \in DOMAIN payouts : payouts'[p] = payouts[p]
           /\ DOMAIN payouts = 1..Len(payouts)
           /\ IndexOK'
  <1> DEFINE l == Len(payouts)
  <1>1. /\ payouts \in Seq(Payout) /\ DOMAIN payouts = 1..l /\ l \in Nat
        /\ index \in [AttemptKeys -> 0..l] /\ x.key \in AttemptKeys
        /\ \A p \in 1..l : payouts[p] \in Payout /\ payouts[p].key \in AttemptKeys
    <2>1. /\ payouts \in Seq(Payout) /\ DOMAIN payouts = 1..l /\ l \in Nat
          /\ index \in [AttemptKeys -> 0..l]
      BY DEF PayoutBase, PayoutTypeOK
    <2>2. \A y \in Payout : y.key \in AttemptKeys
      BY DEF Payout
    <2>3. \A p \in 1..l : payouts[p] \in Payout
      BY <2>1
    <2> QED
      BY <2>1, <2>2, <2>3
  <1>2. /\ payouts' \in Seq(Payout) /\ DOMAIN payouts' = 1..(l + 1) /\ Len(payouts') = l + 1
        /\ \A p \in 1..l : payouts'[p] = payouts[p]
        /\ payouts'[l + 1] = x
    BY <1>1
  <1> HIDE DEF l
  <1>3. index' \in [AttemptKeys -> 0..(l + 1)]
    BY <1>1 DEF l
  <1>4. \A k \in AttemptKeys : index'[k] = IF k = x.key THEN l + 1 ELSE index[k]
    BY <1>1 DEF l
  <1>5. \A p \in 1..l : payouts[p].key # x.key /\ payouts[p].key \in AttemptKeys
    <2>1. \A p \in 1..l : index[payouts[p].key] = p
      BY <1>1 DEF PayoutBase, IndexOK
    <2>2. index[x.key] = 0
      BY DEF Known
    <2> QED
      BY <1>1, <2>1, <2>2
  <1>6. \A p \in 1..(l + 1) : p \in 1..l \/ p = l + 1
    BY <1>1
  <1>7. \A p \in DOMAIN payouts' : index'[payouts'[p].key] = p
    BY <1>1, <1>2, <1>4, <1>5, <1>6 DEF PayoutBase, IndexOK
  <1>8. \A k \in AttemptKeys : outcome'[k] = "ok" => Known(k)'
    BY <1>1, <1>4 DEF PayoutBase, IndexOK, Known
  <1>9. \A p \in 1..l : ~(/\ payouts[p].amount = x.amount
                          /\ payouts[p].status \in {"pending", "processing"}
                          /\ x.status \in {"pending", "processing"})
    BY <1>1 DEF InFlight
  <1>10. \A p, q \in DOMAIN payouts' :
            /\ payouts'[p].amount = payouts'[q].amount
            /\ payouts'[p].status \in {"pending", "processing"}
            /\ payouts'[q].status \in {"pending", "processing"}
            => p = q
    BY <1>1, <1>2, <1>6, <1>9 DEF PayoutBase, IndexOK
  <1>11. IndexOK'
    BY <1>7, <1>8, <1>10 DEF IndexOK
  <1> QED
    BY <1>1, <1>2, <1>3, <1>11 DEF l

\* Who awaits a request works under its key and for its amount.
LEMMA AwaitedTyped ==
    ASSUME PayoutBase, NEW r \in net, Awaited(r)
    PROVE  /\ r.by \in Clicks /\ click[r.by].pc = "waiting"
           /\ click[r.by].amount = r.amount /\ click[r.by].key = r.key
  BY DEF PayoutBase, PayoutTypeOK, Request, Awaited, RequestOf

\* An answer with a payout that is there keeps the types.
LEMMA AnswerTyped ==
    ASSUME PayoutBase, NEW r \in net, NEW p \in 1..(Len(payouts) + 1),
           NEW D, NEW before \in [Amounts -> SUBSET D], AnswersOk(r, p, before)
    PROVE  /\ click' \in [Clicks -> Click] /\ ClicksOK'
           /\ attempt' \in [Amounts -> [key : 0..MaxKeys, over : BOOLEAN]]
           /\ outcome' \in [AttemptKeys -> {"none", "busy", "ok"}]
           /\ \A k \in AttemptKeys : outcome'[k] = "ok" => outcome[k] = "ok" \/ k = r.key
           /\ told' \subseteq told \cup {p}
           /\ fresh' \in [Amounts -> SUBSET D]
  <1>1. CASE Awaited(r) /\ ReportsQueued(r.by, p)
             /\ outcome' = [outcome EXCEPT ![r.key] = "ok"]
             /\ fresh' = [before EXCEPT ![r.amount] = {}]
    <2>1. r.by \in Clicks
      BY <1>1, AwaitedTyped
    <2>2. /\ click' \in [Clicks -> Click] /\ ClicksOK'
          /\ attempt' \in [Amounts -> [key : 0..MaxKeys, over : BOOLEAN]]
          /\ told' \subseteq told \cup {p}
      BY <1>1, <2>1, ReportTyped DEF PayoutBase
    <2>3. /\ outcome' \in [AttemptKeys -> {"none", "busy", "ok"}]
          /\ \A k \in AttemptKeys : outcome'[k] = "ok" => outcome[k] = "ok" \/ k = r.key
      BY <1>1 DEF PayoutBase, PayoutTypeOK
    <2>4. fresh' \in [Amounts -> SUBSET D]
      BY <1>1
    <2> QED
      BY <2>2, <2>3, <2>4
  <1>2. CASE Lost /\ fresh' = before
    BY <1>2 DEF Lost, PayoutBase, PayoutTypeOK, ClicksOK
  <1> QED
    BY <1>1, <1>2 DEF AnswersOk

LEMMA ServerTyped ==
    ASSUME PayoutBase, NEW r \in net,
           ServeReplay(r) \/ ServeNew(r) \/ ServeDown(r) \/ ServeRefusal(r)
    PROVE  PayoutBase'
  <1> DEFINE l == Len(payouts)
  <1>1. /\ payouts \in Seq(Payout) /\ DOMAIN payouts = 1..l /\ l \in Nat
        /\ index \in [AttemptKeys -> 0..l] /\ told \subseteq 1..l
        /\ fresh \in [Amounts -> SUBSET (1..l)]
        /\ r \in Request /\ r.key \in AttemptKeys /\ r.amount \in Amounts
        /\ web \in Webs /\ minted \in 0..MaxKeys /\ net \subseteq Request
        /\ outcome \in [AttemptKeys -> {"none", "busy", "ok"}]
    BY DEF PayoutBase, PayoutTypeOK, Request
  <1>2. net' \subseteq Request /\ UNCHANGED <<web, minted>>
    BY <1>1 DEF ServeReplay, ServeNew, ServeDown, ServeRefusal
  <1>3. CASE ServeReplay(r)
    <2>1. /\ UNCHANGED <<payouts, index>> /\ Known(r.key) /\ AnswersOk(r, index[r.key], fresh)
      BY <1>3 DEF ServeReplay
    <2>2. index[r.key] \in 1..l
      BY <1>1, <2>1 DEF Known
    <2>3. /\ click' \in [Clicks -> Click] /\ ClicksOK'
          /\ attempt' \in [Amounts -> [key : 0..MaxKeys, over : BOOLEAN]]
          /\ outcome' \in [AttemptKeys -> {"none", "busy", "ok"}]
          /\ \A k \in AttemptKeys : outcome'[k] = "ok" => outcome[k] = "ok" \/ k = r.key
          /\ told' \subseteq told \cup {index[r.key]}
          /\ fresh' \in [Amounts -> SUBSET (1..l)]
      <3>1. index[r.key] \in 1..(Len(payouts) + 1)
        BY <1>1, <2>2
      <3> HIDE DEF l
      <3> QED
        BY <1>1, <2>1, <3>1, AnswerTyped
    <2>4. IndexOK'
      BY <2>1, <2>3 DEF PayoutBase, IndexOK, Known
    <2> QED
      BY <1>1, <1>2, <2>1, <2>2, <2>3, <2>4 DEF PayoutBase, PayoutTypeOK
  <1>4. CASE ServeNew(r)
    <2> DEFINE x == [amount |-> r.amount, key |-> r.key, accepted |-> TRUE, status |-> "pending"]
               before == [fresh EXCEPT ![r.amount] = fresh[r.amount] \cup {l + 1}]
    <2>1. /\ x \in Payout /\ x.key = r.key /\ x.amount = r.amount
          /\ payouts' = Append(payouts, x) /\ ~Known(x.key) /\ ~InFlight(x.amount)
          /\ index' = [index EXCEPT ![x.key] = l + 1]
          /\ AnswersOk(r, l + 1, before)
      BY <1>1, <1>4 DEF ServeNew, Admitted, Payout
    <2>2. before \in [Amounts -> SUBSET (1..(l + 1))]
      BY <1>1
    <2> HIDE DEF x, before
    <2>3. /\ click' \in [Clicks -> Click] /\ ClicksOK'
          /\ attempt' \in [Amounts -> [key : 0..MaxKeys, over : BOOLEAN]]
          /\ outcome' \in [AttemptKeys -> {"none", "busy", "ok"}]
          /\ \A k \in AttemptKeys : outcome'[k] = "ok" => outcome[k] = "ok" \/ k = r.key
          /\ told' \subseteq told \cup {l + 1}
          /\ fresh' \in [Amounts -> SUBSET (1..(l + 1))]
      <3>1. l + 1 \in 1..(Len(payouts) + 1)
        BY <1>1
      <3> QED
        BY <1>1, <2>1, <2>2, <3>1, AnswerTyped
    <2>4. /\ payouts' \in Seq(Payout) /\ DOMAIN payouts' = 1..(l + 1)
          /\ index' \in [AttemptKeys -> 0..Len(payouts')]
          /\ IndexOK'
      BY <2>1, <2>3, PayoutAdded
    <2>5. told' \subseteq DOMAIN payouts'
      <3>1. told \subseteq 1..(l + 1) /\ l + 1 \in 1..(l + 1)
        BY <1>1
      <3> QED
        BY <2>3, <2>4, <3>1
    <2> HIDE DEF l
    <2> QED
      BY <1>1, <1>2, <2>3, <2>4, <2>5 DEF PayoutBase, PayoutTypeOK
  <1>5. CASE ServeDown(r)
    <2> DEFINE x == [amount |-> r.amount, key |-> r.key, accepted |-> FALSE, status |-> "failed"]
    <2>1. /\ x \in Payout /\ x.key = r.key /\ x.amount = r.amount /\ x.status = "failed"
          /\ payouts' = Append(payouts, x) /\ ~Known(x.key)
          /\ index' = [index EXCEPT ![x.key] = l + 1]
          /\ UNCHANGED <<attempt, told, fresh>>
      BY <1>1, <1>5 DEF ServeDown, Payout, Lost
    <2> HIDE DEF x
    <2>2. /\ click' \in [Clicks -> Click] /\ ClicksOK'
          /\ outcome' \in [AttemptKeys -> {"none", "busy", "ok"}]
          /\ \A k \in AttemptKeys : outcome'[k] = "ok" => outcome[k] = "ok"
      <3>1. CASE Awaited(r) /\ RetriesOrFails(r.by)
        BY <3>1, AwaitedTyped, RetryTyped DEF PayoutBase
      <3>2. CASE Lost
        BY <3>2 DEF Lost, PayoutBase, PayoutTypeOK, ClicksOK
      <3> QED
        BY <1>5, <3>1, <3>2 DEF ServeDown
    <2>3. /\ payouts' \in Seq(Payout) /\ DOMAIN payouts' = 1..(l + 1)
          /\ index' \in [AttemptKeys -> 0..Len(payouts')]
          /\ IndexOK'
      BY <2>1, <2>2, PayoutAdded
    <2>4. /\ told' \subseteq DOMAIN payouts' /\ fresh' \in [Amounts -> SUBSET DOMAIN payouts']
          /\ attempt' \in [Amounts -> [key : 0..MaxKeys, over : BOOLEAN]]
      BY <1>1, <2>1, <2>3 DEF PayoutBase, PayoutTypeOK
    <2> HIDE DEF l
    <2> QED
      BY <1>1, <1>2, <2>2, <2>3, <2>4 DEF PayoutBase, PayoutTypeOK
  <1>6. CASE ServeRefusal(r)
    <2>1. UNCHANGED <<web, payouts, index, fresh, attempt, told>>
      BY <1>6 DEF ServeRefusal, Lost
    <2>2. /\ click' \in [Clicks -> Click] /\ ClicksOK'
          /\ outcome' \in [AttemptKeys -> {"none", "busy", "ok"}]
          /\ \A k \in AttemptKeys : outcome'[k] = "ok" => outcome[k] = "ok"
      <3>1. CASE Awaited(r) /\ EndsFailed(r.by)
        <4>1. r.by \in Clicks
          BY <3>1, AwaitedTyped
        <4>2. click' \in [Clicks -> Click] /\ ClicksOK'
          BY <3>1, <4>1, Idle, ClickMoves DEF EndsFailed, PayoutBase
        <4> QED
          BY <1>1, <3>1, <4>2 DEF EndsFailed
      <3>2. CASE Lost
        BY <1>1, <3>2 DEF Lost, PayoutBase, PayoutTypeOK, ClicksOK
      <3> QED
        BY <1>6, <3>1, <3>2 DEF ServeRefusal
    <2>3. IndexOK'
      BY <2>1, <2>2, SameServer
    <2> QED
      BY <1>1, <1>2, <2>1, <2>2, <2>3 DEF PayoutBase, PayoutTypeOK
  <1> QED
    BY <1>3, <1>4, <1>5, <1>6

LEMMA OthersTyped ==
    ASSUME PayoutBase,
           \/ \E a \in Amounts : AttemptExpires(a)
           \/ \E p \in DOMAIN payouts : Advance(p)
           \/ UNCHANGED payoutVars
    PROVE  PayoutBase'
  <1>1. ASSUME NEW a \in Amounts, AttemptExpires(a) PROVE PayoutBase'
    <2>1. attempt' \in [Amounts -> [key : 0..MaxKeys, over : BOOLEAN]]
      BY <1>1 DEF AttemptExpires, PayoutBase, PayoutTypeOK
    <2>2. UNCHANGED <<web, click, minted, outcome, net, payouts, index, told, fresh>>
      BY <1>1 DEF AttemptExpires, UNCHANGED_Server
    <2> QED
      BY <2>1, <2>2, SameServer DEF PayoutBase, PayoutTypeOK, ClicksOK
  <1>2. ASSUME NEW p \in DOMAIN payouts, Advance(p) PROVE PayoutBase'
    <2> DEFINE l == Len(payouts)
    <2>1. /\ payouts \in Seq(Payout) /\ DOMAIN payouts = 1..l /\ l \in Nat
          /\ \A q \in 1..l : payouts[q] \in Payout
      BY DEF PayoutBase, PayoutTypeOK
    <2>2. PICK s \in {"processing", "completed", "failed"} :
            payouts' = [payouts EXCEPT ![p].status = s]
      BY <1>2 DEF Advance
    <2>3. payouts[p].status \in {"pending", "processing"}
      BY <1>2 DEF Advance
    <2>4. [payouts[p] EXCEPT !.status = s] \in Payout
      BY <2>1, <2>2 DEF Payout
    <2>5. payouts' \in Seq(Payout) /\ Len(payouts') = l /\ DOMAIN payouts' = 1..l
      BY <2>1, <2>2, <2>4
    <2>6. \A q \in 1..l : payouts'[q] = IF q = p THEN [payouts[p] EXCEPT !.status = s]
                                                 ELSE payouts[q]
      BY <2>1, <2>2
    <2>7. \A q \in 1..l : payouts'[q].key = payouts[q].key /\ payouts'[q].amount = payouts[q].amount
      BY <2>1, <2>6 DEF Payout
    <2>8. \A q \in 1..l : payouts'[q].status \in {"pending", "processing"}
                            => payouts[q].status \in {"pending", "processing"}
      BY <2>3, <2>6
    <2>9. UNCHANGED <<web, click, attempt, minted, outcome, net, index, told, fresh>>
      BY <1>2 DEF Advance
    <2> HIDE DEF l
    <2>10. IndexOK'
      BY <2>1, <2>5, <2>7, <2>8, <2>9 DEF PayoutBase, IndexOK, Known
    <2> QED
      BY <2>1, <2>5, <2>9, <2>10 DEF PayoutBase, PayoutTypeOK, ClicksOK, l
  <1>3. CASE UNCHANGED payoutVars
    BY <1>3 DEF payoutVars, PayoutBase, PayoutTypeOK, ClicksOK, IndexOK, Known
  <1> QED
    BY <1>1, <1>2, <1>3

\* The server forgets no key and changes no payout's key.
ServerGrows ==
    /\ \A k \in AttemptKeys : Known(k) => Known(k)'
    /\ \A p \in DOMAIN payouts : payouts'[p].key = payouts[p].key

\* A call goes back to wait for its turn, or ends without a report.
LEMMA OneAttemptStays ==
    ASSUME PayoutBase, OneAttempt, ServerGrows, UNCHANGED <<attempt, fresh>>, net' \subseteq net,
           NEW c \in Clicks,
           \/ click' = click
           \/ click[c].pc = "waiting" /\ click' = [click EXCEPT ![c] = [click[c] EXCEPT !.pc = "backoff"]]
           \/ click' = [click EXCEPT ![c] = NoClick]
    PROVE  OneAttempt'
  <1>1. /\ click \in [Clicks -> Click] /\ fresh \in [Amounts -> SUBSET DOMAIN payouts]
        /\ \A r \in net : r.key \in AttemptKeys
    BY DEF PayoutBase, PayoutTypeOK, Request
  <1>2. \A d \in Clicks :
            \/ click'[d] = click[d]
            \/ click'[d].pc = "idle"
            \/ /\ click[d].pc = "waiting" /\ click'[d].pc = "backoff"
               /\ click'[d].amount = click[d].amount /\ click'[d].key = click[d].key
    <2> TAKE d \in Clicks
    <2>1. click[c] \in Click /\ NoClick.pc = "idle"
      BY <1>1, Idle
    <2>2. /\ [click[c] EXCEPT !.pc = "backoff"].pc = "backoff"
          /\ [click[c] EXCEPT !.pc = "backoff"].amount = click[c].amount
          /\ [click[c] EXCEPT !.pc = "backoff"].key = click[c].key
      BY <2>1 DEF Click
    <2> QED
      BY <1>1, <2>1, <2>2
  <1>3. \A a \in Amounts : \A p \in fresh'[a] : payouts'[p].key = attempt'[a].key
    BY <1>1 DEF OneAttempt, ServerGrows
  <1>4. \A d, e \in Clicks :
            click'[d].pc # "idle" /\ click'[e].pc # "idle" /\ click'[d].amount = click'[e].amount => d = e
    BY <1>2 DEF OneAttempt
  <1>5. \A d \in Clicks :
            /\ click'[d].pc = "minting" => attempt'[click'[d].amount].key = 0
            /\ click'[d].pc \in {"posting", "waiting", "backoff"}
                => click'[d].key = attempt'[click'[d].amount].key
    BY <1>2 DEF OneAttempt
  <1>6. \A r \in net' : r.key = attempt'[r.amount].key \/ Known(r.key)'
    BY <1>1 DEF OneAttempt, ServerGrows
  <1> QED
    BY <1>3, <1>4, <1>5, <1>6 DEF OneAttempt

\* A call is told of the payout of its key: the attempt is over, and whatever is still on
\* the wire under its key will be recognised.
LEMMA OneAttemptReported ==
    ASSUME PayoutBase, OneAttempt, ServerGrows, net' \subseteq net,
           NEW c \in Clicks, click[c].pc \in {"posting", "waiting"}, click[c].key \in AttemptKeys,
           index'[click[c].key] # 0,
           NEW p, ReportsQueued(c, p),
           fresh' \in [Amounts -> SUBSET DOMAIN payouts'],
           \A a \in Amounts : fresh'[a] = IF a = click[c].amount THEN {} ELSE fresh[a]
    PROVE  OneAttempt'
  <1>1. /\ click \in [Clicks -> Click] /\ fresh \in [Amounts -> SUBSET DOMAIN payouts]
        /\ attempt \in [Amounts -> [key : 0..MaxKeys, over : BOOLEAN]]
        /\ \A r \in net : r.key \in AttemptKeys /\ r.amount \in Amounts
        /\ \A d \in Clicks : click[d].amount \in Amounts
    BY DEF PayoutBase, PayoutTypeOK, Request, Click
  <1> DEFINE b == click[c].amount
  <1>2. \A d \in Clicks : click'[d] = IF d = c THEN NoClick ELSE click[d]
    BY <1>1 DEF ReportsQueued
  <1>3. \A a \in Amounts : attempt'[a] = IF a = b THEN NoAttempt ELSE attempt[a]
    BY <1>1 DEF ReportsQueued
  <1>4. NoClick.pc = "idle" /\ NoAttempt.key = 0 /\ ~NoAttempt.over
    BY Idle DEF NoAttempt
  <1>5. click[c].key = attempt[b].key /\ click[c].pc # "idle"
    BY DEF OneAttempt
  <1>6. \A a \in Amounts : ~attempt'[a].over /\ (attempt'[a].key = 0 => fresh'[a] = {})
    BY <1>3, <1>4 DEF OneAttempt
  <1>7. \A a \in Amounts : \A q \in fresh'[a] : payouts'[q].key = attempt'[a].key
    BY <1>1, <1>3 DEF OneAttempt, ServerGrows
  <1>8. \A d, e \in Clicks :
            click'[d].pc # "idle" /\ click'[e].pc # "idle" /\ click'[d].amount = click'[e].amount => d = e
    BY <1>2, <1>4 DEF OneAttempt
  <1>9. \A d \in Clicks \ {c} : click[d].pc # "idle" => click[d].amount # b
    BY <1>5 DEF OneAttempt
  <1>10. \A d \in Clicks :
            /\ click'[d].pc = "minting" => attempt'[click'[d].amount].key = 0
            /\ click'[d].pc \in {"posting", "waiting", "backoff"}
                => click'[d].key = attempt'[click'[d].amount].key
    <2> SUFFICES ASSUME NEW d \in Clicks, click'[d].pc # "idle"
                 PROVE  /\ click'[d].pc = "minting" => attempt'[click'[d].amount].key = 0
                        /\ click'[d].pc \in {"posting", "waiting", "backoff"}
                                => click'[d].key = attempt'[click'[d].amount].key
      OBVIOUS
    <2>1. d # c /\ click'[d] = click[d] /\ click[d].amount # b
      BY <1>2, <1>4, <1>9
    <2>2. attempt'[click[d].amount] = attempt[click[d].amount]
      BY <1>1, <1>3, <2>1
    <2> QED
      BY <2>1, <2>2 DEF OneAttempt
  <1>11. \A r \in net' : r.key = attempt'[r.amount].key \/ Known(r.key)'
    <2> TAKE r \in net'
    <2>1. r \in net /\ r.key \in AttemptKeys /\ r.amount \in Amounts
      BY <1>1
    <2>2. CASE r.amount = b
      <3>1. r.key = click[c].key \/ Known(r.key)
        BY <1>5, <2>1, <2>2 DEF OneAttempt
      <3> QED
        BY <2>1, <3>1 DEF ServerGrows, Known
    <2>3. CASE r.amount # b
      <3>1. attempt'[r.amount] = attempt[r.amount]
        BY <1>3, <2>1, <2>3
      <3> QED
        BY <2>1, <3>1 DEF OneAttempt, ServerGrows
    <2> QED
      BY <2>2, <2>3
  <1> QED
    BY <1>6, <1>7, <1>8, <1>10, <1>11 DEF OneAttempt

LEMMA OneAttemptByCall ==
    ASSUME PayoutBase, PayoutBase', ~web.expires, ~web.double, OneAttempt, NEW c \in Clicks,
           \/ \E a \in Amounts : Begin(c, a)
           \/ Mint(c) \/ Send(c) \/ AnswerFromRecord(c) \/ NoAnswer(c) \/ ReloadTab(c)
    PROVE  OneAttempt'
  <1>1. /\ click \in [Clicks -> Click] /\ click[c].amount \in Amounts
        /\ attempt \in [Amounts -> [key : 0..MaxKeys, over : BOOLEAN]]
        /\ fresh \in [Amounts -> SUBSET DOMAIN payouts]
        /\ \A r \in net : r.key \in AttemptKeys /\ r.amount \in Amounts
        /\ \A d \in Clicks : click[d].amount \in Amounts
        /\ ClickOK(click[c])
    BY DEF PayoutBase, PayoutTypeOK, Request, Click, ClicksOK
  <1>2. UNCHANGED <<payouts, index>> => ServerGrows
    BY DEF ServerGrows, Known
  <1>3. ASSUME NEW a \in Amounts, Begin(c, a) PROVE OneAttempt'
    <2> DEFINE x == Becoming(IF OpenKey(a) = 0 THEN "minting" ELSE "posting", a, OpenKey(a), 0)
    <2>1. /\ click' = [click EXCEPT ![c] = x]
          /\ \A d \in Clicks : click[d].pc # "idle" => click[d].amount # a
          /\ UNCHANGED <<attempt, net, payouts, index, fresh>>
      BY <1>3 DEF Begin, UNCHANGED_Server
    <2>2. /\ x.amount = a /\ x.key = attempt[a].key
          /\ x.pc = IF attempt[a].key = 0 THEN "minting" ELSE "posting"
      BY DEF Becoming, OneAttempt, OpenKey
    <2> HIDE DEF x
    <2>3. \A d \in Clicks : click'[d] = IF d = c THEN x ELSE click[d]
      BY <1>1, <2>1
    <2>4. \A d, e \in Clicks :
            click'[d].pc # "idle" /\ click'[e].pc # "idle" /\ click'[d].amount = click'[e].amount => d = e
      BY <2>1, <2>2, <2>3 DEF OneAttempt
    <2>5. \A d \in Clicks :
            /\ click'[d].pc = "minting" => attempt'[click'[d].amount].key = 0
            /\ click'[d].pc \in {"posting", "waiting", "backoff"}
                => click'[d].key = attempt'[click'[d].amount].key
      BY <2>1, <2>2, <2>3 DEF OneAttempt
    <2> QED
      BY <2>1, <2>4, <2>5 DEF OneAttempt, Known
  <1>4. CASE Mint(c)
    <2> DEFINE x == Becoming("posting", click[c].amount, minted + 1, 0)
               b == click[c].amount
               t == [key |-> minted + 1, over |-> FALSE]
    <2>1. /\ click' = [click EXCEPT ![c] = x] /\ attempt' = [attempt EXCEPT ![b] = t]
          /\ click[c].pc = "minting" /\ UNCHANGED <<net, payouts, index, fresh>>
          /\ minted \in Nat
      BY <1>4 DEF Mint, UNCHANGED_Server, PayoutBase, PayoutTypeOK
    <2>2. /\ x.pc = "posting" /\ x.amount = b /\ x.key = minted + 1
          /\ t.key = minted + 1 /\ ~t.over /\ t.key # 0
      BY <2>1 DEF Becoming
    <2> HIDE DEF x, t
    <2>3. /\ \A d \in Clicks : click'[d] = IF d = c THEN x ELSE click[d]
          /\ \A a \in Amounts : attempt'[a] = IF a = b THEN t ELSE attempt[a]
      BY <1>1, <2>1
    <2>4. attempt[b].key = 0 /\ fresh[b] = {}
      BY <1>1, <2>1 DEF OneAttempt
    <2>5. \A a \in Amounts : ~attempt'[a].over /\ (attempt'[a].key = 0 => fresh'[a] = {})
      BY <2>1, <2>2, <2>3 DEF OneAttempt
    <2>6. \A a \in Amounts : \A q \in fresh'[a] : payouts'[q].key = attempt'[a].key
      BY <2>1, <2>3, <2>4 DEF OneAttempt
    <2>7. \A d, e \in Clicks :
            click'[d].pc # "idle" /\ click'[e].pc # "idle" /\ click'[d].amount = click'[e].amount => d = e
      BY <2>1, <2>2, <2>3 DEF OneAttempt
    <2>8. \A d \in Clicks \ {c} : click[d].pc # "idle" => click[d].amount # b
      BY <2>1 DEF OneAttempt
    <2>9. \A d \in Clicks :
            /\ click'[d].pc = "minting" => attempt'[click'[d].amount].key = 0
            /\ click'[d].pc \in {"posting", "waiting", "backoff"}
                => click'[d].key = attempt'[click'[d].amount].key
      <3> TAKE d \in Clicks
      <3>1. CASE d = c
        BY <1>1, <2>2, <2>3, <3>1
      <3>2. CASE d # c
        BY <1>1, <2>3, <2>8, <3>2 DEF OneAttempt
      <3> QED
        BY <3>1, <3>2
    <2>10. \A r \in net : r.key = attempt'[r.amount].key \/ Known(r.key)'
      <3> TAKE r \in net
      <3>1. r.amount = b => Known(r.key)
        BY <1>1, <2>4 DEF OneAttempt, AttemptKeys
      <3> QED
        BY <1>1, <2>1, <2>3, <3>1 DEF OneAttempt, Known
    <2> QED
      BY <2>1, <2>5, <2>6, <2>7, <2>9, <2>10 DEF OneAttempt
  <1>5. CASE Send(c)
    <2> DEFINE x == Becoming("waiting", click[c].amount, click[c].key, click[c].tries + 1)
               r0 == RequestOf(c, click[c].tries + 1)
    <2>1. /\ click' = [click EXCEPT ![c] = x] /\ net' = net \cup {r0}
          /\ click[c].pc \in {"posting", "backoff"}
          /\ UNCHANGED <<attempt, payouts, index, fresh>>
      BY <1>5 DEF Send, UNCHANGED_Server
    <2>2. /\ x.pc = "waiting" /\ x.amount = click[c].amount /\ x.key = click[c].key
          /\ r0.amount = click[c].amount /\ r0.key = click[c].key
      BY DEF Becoming, RequestOf
    <2> HIDE DEF x, r0
    <2>3. \A d \in Clicks : click'[d] = IF d = c THEN x ELSE click[d]
      BY <1>1, <2>1
    <2>4. click[c].key = attempt[click[c].amount].key
      BY <2>1 DEF OneAttempt
    <2>5. \A d, e \in Clicks :
            click'[d].pc # "idle" /\ click'[e].pc # "idle" /\ click'[d].amount = click'[e].amount => d = e
      BY <2>1, <2>2, <2>3 DEF OneAttempt
    <2>6. \A d \in Clicks :
            /\ click'[d].pc = "minting" => attempt'[click'[d].amount].key = 0
            /\ click'[d].pc \in {"posting", "waiting", "backoff"}
                => click'[d].key = attempt'[click'[d].amount].key
      BY <2>1, <2>2, <2>3, <2>4 DEF OneAttempt
    <2>7. \A r \in net' : r.key = attempt'[r.amount].key \/ Known(r.key)'
      BY <2>1, <2>2, <2>4 DEF OneAttempt, Known
    <2> QED
      BY <2>1, <2>5, <2>6, <2>7 DEF OneAttempt
  <1>6. CASE AnswerFromRecord(c)
    <2>1. /\ click[c].pc = "posting" /\ outcome[click[c].key] = "ok"
          /\ ReportsQueued(c, index[click[c].key])
          /\ fresh' = [fresh EXCEPT ![click[c].amount] = {}]
          /\ UNCHANGED <<net, payouts, index>>
      BY <1>6 DEF AnswerFromRecord, UNCHANGED_Server
    <2>2. click[c].key \in AttemptKeys /\ index[click[c].key] # 0
      BY <1>1, <2>1 DEF ClickOK, PayoutBase, IndexOK, Known
    <2>3. \A a \in Amounts : fresh'[a] = IF a = click[c].amount THEN {} ELSE fresh[a]
      BY <1>1, <2>1
    <2>4. fresh' \in [Amounts -> SUBSET DOMAIN payouts']
      BY DEF PayoutBase, PayoutTypeOK
    <2> QED
      BY <1>2, <2>1, <2>2, <2>3, <2>4, OneAttemptReported
  <1>7. CASE NoAnswer(c)
    <2>1. /\ click[c].pc = "waiting" /\ RetriesOrFails(c)
          /\ UNCHANGED <<attempt, fresh, net, payouts, index>>
      BY <1>7 DEF NoAnswer, UNCHANGED_Server
    <2> QED
      BY <1>2, <2>1, RetryTyped, OneAttemptStays DEF PayoutBase
  <1>8. CASE ReloadTab(c)
    <2>1. /\ click' = [click EXCEPT ![c] = NoClick]
          /\ UNCHANGED <<attempt, fresh, net, payouts, index>>
      BY <1>8 DEF ReloadTab, UNCHANGED_Server
    <2> QED
      BY <1>2, <2>1, OneAttemptStays
  <1> QED
    BY <1>3, <1>4, <1>5, <1>6, <1>7, <1>8

LEMMA OneAttemptByServer ==
    ASSUME PayoutBase, PayoutBase', OneAttempt, NEW r \in net,
           ServeReplay(r) \/ ServeNew(r) \/ ServeDown(r) \/ ServeRefusal(r)
    PROVE  OneAttempt'
  <1> DEFINE l == Len(payouts)
  <1>1. /\ payouts \in Seq(Payout) /\ DOMAIN payouts = 1..l /\ l \in Nat
        /\ index \in [AttemptKeys -> 0..l] /\ fresh \in [Amounts -> SUBSET (1..l)]
        /\ fresh' \in [Amounts -> SUBSET DOMAIN payouts']
        /\ r.key \in AttemptKeys /\ r.amount \in Amounts /\ r.by \in Clicks
        /\ click' = click => \A d \in Clicks : click'[d] = click[d]
    BY DEF PayoutBase, PayoutTypeOK, Request
  <1>2. net' \subseteq net
    BY DEF ServeReplay, ServeNew, ServeDown, ServeRefusal
  <1>3. ServerGrows
    <2>1. CASE UNCHANGED <<payouts, index>>
      BY <2>1 DEF ServerGrows, Known
    <2>2. ASSUME NEW x, payouts' = Append(payouts, x), index' = [index EXCEPT ![r.key] = l + 1]
          PROVE  ServerGrows
      <3>1. \A p \in DOMAIN payouts : payouts'[p] = payouts[p]
        BY <1>1, <2>2
      <3>2. \A k \in AttemptKeys : index[k] # 0 => index'[k] # 0
        BY <1>1, <2>2
      <3> QED
        BY <3>1, <3>2 DEF ServerGrows, Known
    <2> QED
      BY <2>1, <2>2 DEF ServeReplay, ServeNew, ServeDown, ServeRefusal
  <1>4. CASE ServeReplay(r)
    <2>1. AnswersOk(r, index[r.key], fresh) /\ Known(r.key)
      BY <1>4 DEF ServeReplay
    <2>2. CASE /\ Awaited(r) /\ ReportsQueued(r.by, index[r.key])
               /\ fresh' = [fresh EXCEPT ![r.amount] = {}]
      <3>1. /\ click[r.by].pc = "waiting" /\ click[r.by].amount = r.amount
            /\ click[r.by].key = r.key /\ index'[click[r.by].key] # 0
        BY <1>1, <1>3, <2>1, <2>2, AwaitedTyped DEF ServerGrows, Known
      <3>2. \A a \in Amounts : fresh'[a] = IF a = click[r.by].amount THEN {} ELSE fresh[a]
        BY <1>1, <2>2, <3>1
      <3> HIDE DEF l
      <3> QED
        BY <1>1, <1>2, <1>3, <2>2, <3>1, <3>2, OneAttemptReported
    <2>3. CASE Lost /\ fresh' = fresh
      BY <1>1, <1>2, <1>3, <2>3, OneAttemptStays DEF Lost
    <2> QED
      BY <2>1, <2>2, <2>3 DEF AnswersOk
  <1>5. CASE ServeNew(r)
    <2> DEFINE before == [fresh EXCEPT ![r.amount] = fresh[r.amount] \cup {l + 1}]
               x == [amount |-> r.amount, key |-> r.key, accepted |-> TRUE, status |-> "pending"]
    <2>1. /\ AnswersOk(r, l + 1, before) /\ ~Known(r.key)
          /\ index' = [index EXCEPT ![r.key] = l + 1]
          /\ payouts' = Append(payouts, x) /\ x.key = r.key
      BY <1>5 DEF ServeNew
    <2> HIDE DEF x
    <2>2. index'[r.key] # 0 /\ payouts'[l + 1].key = r.key
      BY <1>1, <2>1
    <2>3. \A a \in Amounts : before[a] = IF a = r.amount THEN fresh[a] \cup {l + 1} ELSE fresh[a]
      BY <1>1
    <2>4. CASE /\ Awaited(r) /\ ReportsQueued(r.by, l + 1)
               /\ fresh' = [before EXCEPT ![r.amount] = {}]
      <3>1. /\ click[r.by].pc = "waiting" /\ click[r.by].amount = r.amount
            /\ click[r.by].key = r.key /\ index'[click[r.by].key] # 0
        BY <1>1, <2>2, <2>4, AwaitedTyped
      <3>2. \A a \in Amounts : fresh'[a] = IF a = click[r.by].amount THEN {} ELSE fresh[a]
        BY <1>1, <2>4, <3>1
      <3> HIDE DEF l
      <3> QED
        BY <1>1, <1>2, <1>3, <2>4, <3>1, <3>2, OneAttemptReported
    <2>5. CASE Lost /\ fresh' = before
      <3>1. UNCHANGED <<click, attempt>>
        BY <2>5 DEF Lost
      <3>2. r.key = attempt[r.amount].key /\ attempt[r.amount].key # 0
        BY <1>1, <2>1 DEF OneAttempt, AttemptKeys
      <3>3. \A a \in Amounts : ~attempt'[a].over /\ (attempt'[a].key = 0 => fresh'[a] = {})
        BY <2>3, <2>5, <3>1, <3>2 DEF OneAttempt
      <3>4. \A a \in Amounts : \A q \in fresh'[a] : payouts'[q].key = attempt'[a].key
        BY <1>1, <1>3, <2>2, <2>3, <2>5, <3>1, <3>2 DEF OneAttempt, ServerGrows
      <3>5. \A q \in net' : q.key = attempt'[q.amount].key \/ Known(q.key)'
        <4>1. \A q \in net : q.key \in AttemptKeys
          BY DEF PayoutBase, PayoutTypeOK, Request
        <4> QED
          BY <1>2, <1>3, <3>1, <4>1 DEF OneAttempt, ServerGrows
      <3> QED
        BY <3>1, <3>3, <3>4, <3>5 DEF OneAttempt
    <2> QED
      BY <2>1, <2>4, <2>5 DEF AnswersOk
  <1>6. CASE ServeDown(r) \/ ServeRefusal(r)
    <2>1. UNCHANGED <<attempt, fresh>>
      BY <1>6 DEF ServeDown, ServeRefusal, Lost
    <2>2. \/ click' = click
          \/ /\ click[r.by].pc = "waiting"
             /\ click' = [click EXCEPT ![r.by] = [click[r.by] EXCEPT !.pc = "backoff"]]
          \/ click' = [click EXCEPT ![r.by] = NoClick]
      <3>1. CASE Awaited(r) /\ RetriesOrFails(r.by)
        BY <1>1, <3>1, AwaitedTyped, RetryTyped DEF PayoutBase
      <3>2. CASE Awaited(r) /\ EndsFailed(r.by)
        BY <3>2 DEF EndsFailed
      <3>3. CASE Lost
        BY <3>3 DEF Lost
      <3> QED
        BY <1>6, <3>1, <3>2, <3>3 DEF ServeDown, ServeRefusal
    <2> QED
      BY <1>1, <1>2, <1>3, <2>1, <2>2, OneAttemptStays
  <1> QED
    BY <1>4, <1>5, <1>6

LEMMA PayoutStep ==
    ASSUME PayoutInv, [PayoutNext]_payoutVars
    PROVE  PayoutInv'
  <1>1. PayoutBase'
    BY CallTyped, ServerTyped, OthersTyped DEF PayoutInv, PayoutNext
  <1>2. ASSUME ~web'.expires, ~web'.double PROVE OneAttempt'
    <2>1. web' = web
      BY DEF PayoutNext, payoutVars, Begin, Mint, Send, AnswerFromRecord, NoAnswer, ReloadTab,
          AttemptExpires, ServeReplay, ServeNew, ServeDown, ServeRefusal, Advance, UNCHANGED_Server
    <2>2. PayoutBase /\ OneAttempt /\ ~web.expires /\ ~web.double
      BY <1>2, <2>1 DEF PayoutInv
    <2>3. ASSUME NEW p \in DOMAIN payouts, Advance(p) PROVE OneAttempt'
      <3>1. PICK s \in {"processing", "completed", "failed"} :
              payouts' = [payouts EXCEPT ![p].status = s]
        BY <2>3 DEF Advance
      <3>2. \A q \in DOMAIN payouts : payouts'[q].key = payouts[q].key
        <4>1. \A q \in DOMAIN payouts : payouts[q] \in Payout
          BY <2>2 DEF PayoutBase, PayoutTypeOK
        <4>2. \A q \in DOMAIN payouts : payouts'[q] = IF q = p THEN [payouts[p] EXCEPT !.status = s]
                                                     ELSE payouts[q]
          BY <3>1
        <4> QED
          BY <4>1, <4>2 DEF Payout
      <3>3. UNCHANGED <<click, attempt, net, index, fresh>>
        BY <2>3 DEF Advance
      <3>4. \A a \in Amounts : fresh[a] \subseteq DOMAIN payouts
        BY <2>2 DEF PayoutBase, PayoutTypeOK
      <3> QED
        BY <2>2, <3>2, <3>3, <3>4 DEF OneAttempt, Known
    <2>4. CASE UNCHANGED payoutVars
      BY <2>2, <2>4 DEF payoutVars, OneAttempt, Known
    <2>5. ~(\E a \in Amounts : AttemptExpires(a))
      BY <2>2 DEF AttemptExpires
    <2> QED
      BY <1>1, <2>2, <2>3, <2>4, <2>5, OneAttemptByCall, OneAttemptByServer DEF PayoutNext
  <1> QED
    BY <1>1, <1>2 DEF PayoutInv

LEMMA PayoutStarts ==
    ASSUME PayoutInit
    PROVE  PayoutInv
  <1>1. NoAttempt \in [key : 0..MaxKeys, over : BOOLEAN] /\ ~NoAttempt.over
    BY PayoutBoundsAssumption DEF NoAttempt
  <1>2. PayoutTypeOK
    BY <1>1, Idle, PayoutBoundsAssumption DEF PayoutInit, PayoutTypeOK
  <1>3. ClicksOK /\ IndexOK
    BY Idle DEF PayoutInit, ClicksOK, IndexOK
  <1>4. OneAttempt
    BY <1>1, Idle DEF PayoutInit, OneAttempt
  <1> QED
    BY <1>2, <1>3, <1>4 DEF PayoutInv, PayoutBase

\* The index and the attempts agree with the payouts in every state.
THEOREM PayoutInvariant == PayoutSpec => []PayoutInv
  BY PayoutStarts, PayoutStep, PTL DEF PayoutSpec

\* The types of the payouts' state: what was told and what counts is a payout that exists.
THEOREM PayoutTypesAlways == PayoutSpec => []PayoutTypeOK
  BY PayoutInvariant, PTL DEF PayoutInv, PayoutBase

\* requestPayout of the server pays at most once under a key and never has two payouts of
\* an amount on their way, however many calls, retries, reloads and losses there are.
THEOREM NeverPaysTwiceEver == PayoutSpec => []NeverPaysTwice
  <1>1. PayoutInv => NeverPaysTwice
    BY DEF PayoutInv, PayoutBase, IndexOK, NeverPaysTwice
  <1> QED
    BY <1>1, PayoutInvariant, PTL

\* The attempt's key joins all calls for an amount until one reports a queued payout: of
\* all payouts accepted in between there is one at most.
THEOREM OnePayoutPerIntentEver == PayoutSpec => []OnePayoutPerIntent
  <1>1. PayoutInv => OnePayoutPerIntent
    <2> SUFFICES ASSUME PayoutInv, ~web.expires, ~web.double, NEW a \in Amounts
                 PROVE  Cardinality(fresh[a]) <= 1
      BY DEF OnePayoutPerIntent
    <2>1. \A p, q \in fresh[a] : p = q
      <3>1. fresh[a] \subseteq DOMAIN payouts
        BY DEF PayoutInv, PayoutBase, PayoutTypeOK
      <3> QED
        BY <3>1 DEF PayoutInv, PayoutBase, IndexOK, OneAttempt
    <2>2. CASE fresh[a] = {}
      BY <2>2, FS_EmptySet
    <2>3. CASE fresh[a] # {}
      <3>1. PICK p \in fresh[a] : fresh[a] = {p}
        BY <2>1, <2>3
      <3>2. Cardinality({p}) = 1
        BY FS_Singleton
      <3> QED
        BY <3>1, <3>2
    <2> QED
      BY <2>2, <2>3
  <1> QED
    BY <1>1, PayoutInvariant, PTL

------------------------------------------------------------------------------
(* OfflineQueue                                                              *)

\* No entry, in the queue or in a flush, counts more errors than there were.
CountsReal(q) == \A i \in DOMAIN q : q[i].attempts <= errors[q[i].id]

OfflineInv ==
    /\ OfflineTypeOK
    /\ CountsReal(queue)
    /\ \A f \in Flushes : CountsReal(flush[f])
    /\ SubmissionsAccounted

\* Removing a submission by its id leaves the others, and adds nothing.
LEMMA EntryRemoved ==
    ASSUME NEW q \in Seq(Entry), NEW s, NEW r, r = Without(q, s)
    PROVE  /\ r \in Seq(Entry)
           /\ \A i \in DOMAIN r : \E j \in DOMAIN q : r[i] = q[j]
           /\ \A j \in DOMAIN q : q[j].id # s => \E i \in DOMAIN r : r[i] = q[j]
  <1> DEFINE I == {i \in 1..Len(q) : q[i].id = s}
             n == Min(I)
  <1>1. CASE I = {}
    <2>1. r = q
      BY <1>1 DEF Without, RemoveFirstMatch
    <2> QED
      BY <2>1
  <1>2. CASE I # {}
    <2>1. n \in I
      <3>1. I \in SUBSET Nat
        OBVIOUS
      <3> HIDE DEF I
      <3> QED
        BY <1>2, <3>1, LeastIndex
    <2>2. r = RemoveAt(q, n)
      BY <1>2 DEF Without, RemoveFirstMatch, SelectInSeq, RemoveAt
    <2>3. n \in 1..Len(q) /\ q[n].id = s
      BY <2>1
    <2> HIDE DEF n
    <2>4. r \in Seq(Entry)
      BY <2>2, <2>3, OneRemoved
    <2>5. /\ \A i \in DOMAIN r : \E j \in DOMAIN q : j # n /\ r[i] = q[j]
          /\ \A j \in DOMAIN q : j # n => \E i \in DOMAIN r : r[i] = q[j]
      BY <2>2, <2>3, OthersLeft
    <2> QED
      BY <2>3, <2>4, <2>5
  <1> QED
    BY <1>1, <1>2

\* What a flush sends is the front of what it listed.
LEMMA SendableIsFront ==
    ASSUME NEW q \in Seq(Entry)
    PROVE  /\ Sendable(q) \in Seq(Entry)
           /\ \A i \in DOMAIN Sendable(q) : i \in DOMAIN q /\ Sendable(q)[i] = q[i]
  <1> DEFINE I == {i \in 1..Len(q) : q[i].conflict}
             n == Min(I)
  <1>1. CASE I = {}
    BY <1>1 DEF Sendable, SelectInSeq
  <1>2. CASE I # {}
    <2>1. n \in I
      <3>1. I \in SUBSET Nat
        OBVIOUS
      <3> HIDE DEF I
      <3> QED
        BY <1>2, <3>1, LeastIndex
    <2>2. n \in 1..Len(q)
      BY <2>1
    <2>3. Sendable(q) = IF n = 0 THEN q ELSE SubSeq(q, 1, n - 1)
      BY <1>2 DEF Sendable, SelectInSeq
    <2> HIDE DEF n
    <2> QED
      BY <2>2, <2>3
  <1> QED
    BY <1>1, <1>2

LEMMA OfflineStarts == OfflineInit => OfflineInv
  BY OfflineAssumption DEF OfflineInit, OfflineInv, OfflineTypeOK, CountsReal, SubmissionsAccounted

\* What happens to the queue: the entry of one submission may go or change, and what
\* it then counts is real.
LEMMA QueueStep ==
    ASSUME OfflineInv, NEW s \in Submissions, NEW q \in Seq(Entry), Writes(q),
           errors' \in [Submissions -> 0..MaxSubmits],
           \A t \in Submissions : errors'[t] >= errors[t],
           \A i \in DOMAIN q : \/ \E j \in DOMAIN queue : q[i] = queue[j]
                               \/ q[i].attempts <= errors'[q[i].id],
           \A j \in DOMAIN queue : queue[j].id # s => \E i \in DOMAIN q : q[i].id = queue[j].id,
           UNCHANGED <<offline, entered>>, done \subseteq done',
           Queued(s) => (\E i \in DOMAIN q : q[i].id = s) \/ s \in done' \/ errors'[s] >= MaxSubmits
    PROVE  queue' \in Seq(Entry) /\ CountsReal(queue)' /\ SubmissionsAccounted'
  <1>1. \A t \in Submissions : errors[t] \in Nat /\ errors'[t] \in Nat
    BY OfflineAssumption DEF OfflineInv, OfflineTypeOK
  <1>2. \A p \in Seq(Entry) : \A i \in DOMAIN p : p[i].id \in Submissions /\ p[i].attempts \in Nat
    <2>1. \A p \in Seq(Entry) : \A i \in DOMAIN p : p[i] \in Entry
      BY ElementOfSeq
    <2>2. \A e \in Entry : e.id \in Submissions /\ e.attempts \in Nat
      BY OfflineAssumption DEF Entry
    <2> QED
      BY <2>1, <2>2
  <1>3. queue \in Seq(Entry) /\ queue' \in {queue, q}
    BY DEF OfflineInv, OfflineTypeOK, Writes
  <1>4. CountsReal(q)' /\ CountsReal(queue)'
    <2>1. ASSUME NEW j \in DOMAIN queue PROVE queue[j].attempts <= errors'[queue[j].id]
      BY <1>1, <1>2, <1>3 DEF OfflineInv, CountsReal
    <2> QED
      BY <1>3, <2>1 DEF CountsReal
  <1>5. SubmissionsAccounted'
    <2> SUFFICES ASSUME ~offline.quota, NEW i \in DOMAIN entered
                 PROVE  Queued(entered[i])' \/ entered[i] \in done' \/ errors'[entered[i]] >= MaxSubmits
      BY DEF SubmissionsAccounted
    <2>1. PICK t \in Submissions : t = entered[i]
      BY ElementOfSeq DEF OfflineInv, OfflineTypeOK
    <2>2. queue' = q
      BY DEF Writes
    <2>3. MaxSubmits \in Nat
      BY OfflineAssumption
    <2>4. Queued(t) \/ t \in done \/ errors[t] >= MaxSubmits
      BY <2>1 DEF OfflineInv, SubmissionsAccounted
    <2>5. Queued(t) => (\E k \in DOMAIN q : q[k].id = t) \/ t \in done' \/ errors'[t] >= MaxSubmits
      <3>1. CASE t = s
        BY <3>1
      <3>2. CASE t # s
        BY <3>2 DEF Queued
      <3> QED
        BY <3>1, <3>2
    <2>6. (\E k \in DOMAIN q : q[k].id = t) => Queued(t)'
      BY <2>2 DEF Queued
    <2>7. errors[t] >= MaxSubmits => errors'[t] >= MaxSubmits
      BY <1>1, <2>3
    <2>8. Queued(t)' \/ t \in done' \/ errors'[t] >= MaxSubmits
      BY <2>4, <2>5, <2>6, <2>7
    <2> QED
      BY <2>1, <2>8
  <1> QED
    BY <1>3, <1>4, <1>5

\* The update of an entry.
LEMMA EntryUpdated ==
    ASSUME OfflineInv, NEW s, NEW q, q = [i \in DOMAIN queue |-> q[i]],
           \A i \in DOMAIN queue : queue[i].id # s => q[i] = queue[i],
           \A i \in DOMAIN queue : queue[i].id = s => q[i] \in Entry /\ q[i].id = s
    PROVE  /\ q \in Seq(Entry)
           /\ \A j \in DOMAIN queue : \E i \in DOMAIN q : q[i].id = queue[j].id
  <1>1. queue \in Seq(Entry) /\ DOMAIN q = 1..Len(queue) /\ Len(queue) \in Nat
    BY DEF OfflineInv, OfflineTypeOK
  <1>2. \A i \in 1..Len(queue) : q[i] \in Entry /\ q[i].id = queue[i].id
    BY <1>1, ElementOfSeq
  <1> QED
    BY <1>1, <1>2, IsASeq

\* A flush goes on or ends, and counts what it counted.
LEMMA FlushKept ==
    ASSUME OfflineInv, NEW f \in Flushes, Sending(f), GoesOn(f) \/ Breaks(f),
           errors' \in [Submissions -> 0..MaxSubmits],
           \A t \in Submissions : errors'[t] >= errors[t]
    PROVE  /\ OnWire(f) \in Entry
           /\ OnWire(f).attempts <= errors[OnWire(f).id]
           /\ flush' \in [Flushes -> Seq(Entry)]
           /\ \A g \in Flushes : CountsReal(flush[g])'
  <1>1. flush \in [Flushes -> Seq(Entry)] /\ errors \in [Submissions -> 0..MaxSubmits]
    BY DEF OfflineInv, OfflineTypeOK
  <1>2. flush[f] \in Seq(Entry) /\ flush[f] # <<>>
    BY <1>1 DEF Sending
  <1>3. /\ 1 \in DOMAIN flush[f] /\ OnWire(f) = flush[f][1] /\ flush[f][1] \in Entry
        /\ Tail(flush[f]) \in Seq(Entry)
        /\ \A i \in DOMAIN Tail(flush[f]) :
              i + 1 \in DOMAIN flush[f] /\ Tail(flush[f])[i] = flush[f][i + 1]
    BY <1>2, HeadTailProperties, ElementOfSeq DEF OnWire
  <1>4. \A g \in Flushes : \A i \in DOMAIN flush[g] : flush[g][i] \in Entry
    BY <1>1, ElementOfSeq
  <1>5. \A e \in Entry : e.id \in Submissions /\ e.attempts \in Nat
    BY OfflineAssumption DEF Entry
  <1>6. \A t \in Submissions : errors[t] \in Nat /\ errors'[t] \in Nat
    BY <1>1, OfflineAssumption
  <1>7. \A g \in Flushes : \A i \in DOMAIN flush[g] :
            /\ flush[g][i].attempts <= errors[flush[g][i].id]
            /\ flush[g][i].attempts <= errors'[flush[g][i].id]
    <2> SUFFICES ASSUME NEW g \in Flushes, NEW i \in DOMAIN flush[g]
                 PROVE  /\ flush[g][i].attempts <= errors[flush[g][i].id]
                        /\ flush[g][i].attempts <= errors'[flush[g][i].id]
      OBVIOUS
    <2>1. flush[g][i].attempts <= errors[flush[g][i].id]
      BY DEF OfflineInv, CountsReal
    <2>2. flush[g][i].id \in Submissions /\ flush[g][i].attempts \in Nat
      BY <1>4, <1>5
    <2> QED
      BY <1>6, <2>1, <2>2
  <1>8. /\ flush' \in [Flushes -> Seq(Entry)]
        /\ \A g \in Flushes : g # f => flush'[g] = flush[g]
        /\ flush'[f] = Tail(flush[f]) \/ flush'[f] = <<>>
    <2>1. CASE GoesOn(f)
      BY <1>1, <1>3, <2>1 DEF GoesOn
    <2>2. CASE Breaks(f)
      <3>1. <<>> \in Seq(Entry)
        OBVIOUS
      <3> QED
        BY <1>1, <2>2, <3>1 DEF Breaks
    <2> QED
      BY <2>1, <2>2
  <1>9. ASSUME NEW g \in Flushes PROVE CountsReal(flush[g])'
    <2>1. CASE g # f
      BY <1>7, <1>8, <2>1 DEF CountsReal
    <2>2. CASE g = f /\ flush'[f] = Tail(flush[f])
      BY <1>3, <1>7, <2>2 DEF CountsReal
    <2>3. CASE g = f /\ flush'[f] = <<>>
      BY <2>3 DEF CountsReal
    <2> QED
      BY <1>8, <2>1, <2>2, <2>3
  <1> QED
    BY <1>3, <1>7, <1>8, <1>9

LEMMA OfflineKeeps == OfflineInv /\ [OfflineNext]_offlineVars => OfflineInv'
  <1> SUFFICES ASSUME OfflineInv, [OfflineNext]_offlineVars PROVE OfflineInv'
    OBVIOUS
  <1>1. OfflineTypeOK
    BY DEF OfflineInv
  <1>2. /\ queue \in Seq(Entry) /\ flush \in [Flushes -> Seq(Entry)]
        /\ errors \in [Submissions -> 0..MaxSubmits] /\ done \subseteq Submissions
        /\ entered \in Seq(Submissions) /\ offline \in Offlines
    BY <1>1 DEF OfflineTypeOK
  <1>3. MaxSubmits \in Nat \ {0} /\ \A t \in Submissions : errors[t] \in Nat
    BY <1>2, OfflineAssumption
  <1>4. \A i \in DOMAIN queue : queue[i] \in Entry
    BY <1>2, ElementOfSeq
  <1>5. \A e \in Entry : e.id \in Submissions /\ e.attempts \in Nat /\ e.attempts < MaxSubmits
    BY <1>3 DEF Entry
  <1>6. UNCHANGED errors => /\ errors' \in [Submissions -> 0..MaxSubmits]
                            /\ \A t \in Submissions : errors'[t] >= errors[t]
    BY <1>2, <1>3
  \* What removes a submission that is done or has had its errors.
  <1>7. ASSUME NEW s \in Submissions, Removes(s), UNCHANGED <<offline, entered>>,
               errors' \in [Submissions -> 0..MaxSubmits],
               \A t \in Submissions : errors'[t] >= errors[t],
               done \subseteq done', s \in done' \/ errors'[s] >= MaxSubmits
        PROVE  queue' \in Seq(Entry) /\ CountsReal(queue)' /\ SubmissionsAccounted'
    <2> DEFINE q == Without(queue, s)
    <2>1. q = Without(queue, s)
      OBVIOUS
    <2>2. Writes(q)
      BY <1>7 DEF Removes
    <2> HIDE DEF q
    <2>3. /\ q \in Seq(Entry)
          /\ \A i \in DOMAIN q : \E j \in DOMAIN queue : q[i] = queue[j]
          /\ \A j \in DOMAIN queue : queue[j].id # s => \E i \in DOMAIN q : q[i] = queue[j]
      BY <1>2, <2>1, EntryRemoved
    <2>4. \A j \in DOMAIN queue : queue[j].id # s => \E i \in DOMAIN q : q[i].id = queue[j].id
      BY <2>3
    <2> QED
      BY <1>7, <2>3, <2>2, <2>4, QueueStep
  \* What changes a submission into one that counts no more errors than there were.
  <1>8. ASSUME NEW s \in Submissions, NEW q, Writes(q), UNCHANGED <<offline, entered>>,
               q = [i \in DOMAIN queue |-> q[i]],
               \A i \in DOMAIN queue : queue[i].id # s => q[i] = queue[i],
               \A i \in DOMAIN queue : queue[i].id = s =>
                    q[i] \in Entry /\ q[i].id = s /\ q[i].attempts <= errors'[s],
               errors' \in [Submissions -> 0..MaxSubmits],
               \A t \in Submissions : errors'[t] >= errors[t], done \subseteq done'
        PROVE  queue' \in Seq(Entry) /\ CountsReal(queue)' /\ SubmissionsAccounted'
    <2>1. /\ q \in Seq(Entry)
          /\ \A j \in DOMAIN queue : \E i \in DOMAIN q : q[i].id = queue[j].id
      BY <1>8, EntryUpdated
    <2>2. \A i \in DOMAIN q : (\E j \in DOMAIN queue : q[i] = queue[j])
                              \/ q[i].attempts <= errors'[q[i].id]
      BY <1>8
    <2>3. Queued(s) => \E i \in DOMAIN q : q[i].id = s
      BY <2>1 DEF Queued
    <2> QED
      BY <1>8, <2>1, <2>2, <2>3, QueueStep
  <1>9. ASSUME NEW s \in Submissions, Enqueue(s) PROVE OfflineInv'
    <2> DEFINE new == [id |-> s, attempts |-> 0, conflict |-> FALSE]
               q == Append(queue, new)
    <2>1. new \in Entry /\ new.id = s /\ new.attempts = 0
      BY <1>3 DEF Entry
    <2> HIDE DEF new
    <2>2. /\ q \in Seq(Entry) /\ Len(q) = Len(queue) + 1 /\ q[Len(queue) + 1] = new
          /\ \A i \in DOMAIN queue : i \in DOMAIN q /\ q[i] = queue[i]
          /\ \A i \in DOMAIN q : i \in DOMAIN queue \/ i = Len(queue) + 1
          /\ Len(queue) + 1 \in DOMAIN q
      BY <1>2, <2>1, AppendProperties
    <2>3. /\ queue' = q \/ (offline.quota /\ queue' = queue)
          /\ entered' = Append(entered, s) /\ UNCHANGED <<offline, flush, errors, done>>
      BY <1>9 DEF Enqueue, Writes, new
    <2> HIDE DEF q
    <2>4. OfflineTypeOK'
      <3>1. Append(entered, s) \in Seq(Submissions)
        BY <1>2
      <3> QED
        BY <1>2, <2>2, <2>3, <3>1 DEF OfflineTypeOK
    <2>5. CountsReal(queue)' /\ \A f \in Flushes : CountsReal(flush[f])'
      <3>1. \A i \in DOMAIN queue : queue[i].attempts <= errors[queue[i].id]
        BY DEF OfflineInv, CountsReal
      <3>2. \A i \in DOMAIN q : q[i].attempts <= errors[q[i].id]
        BY <1>3, <2>1, <2>2, <3>1
      <3> QED
        BY <2>3, <3>1, <3>2 DEF OfflineInv, CountsReal
    <2>6. SubmissionsAccounted'
      <3> SUFFICES ASSUME ~offline.quota, NEW i \in DOMAIN entered'
                   PROVE  \/ \E k \in DOMAIN queue' : queue'[k].id = entered'[i]
                          \/ entered'[i] \in done \/ errors[entered'[i]] >= MaxSubmits
        BY <2>3 DEF SubmissionsAccounted, Queued
      <3>1. queue' = q
        BY <2>3
      <3>2. \A t : Queued(t) => \E k \in DOMAIN queue' : queue'[k].id = t
        BY <2>2, <3>1 DEF Queued
      <3>3. \E k \in DOMAIN queue' : queue'[k].id = s
        BY <2>1, <2>2, <3>1
      <3>4. entered'[i] = s \/ (i \in DOMAIN entered /\ entered'[i] = entered[i])
        BY <1>2, <2>3, AppendProperties
      <3>5. PICK t : t = entered'[i]
        OBVIOUS
      <3>6. (\E k \in DOMAIN queue' : queue'[k].id = t) \/ t \in done \/ errors[t] >= MaxSubmits
        BY <3>2, <3>3, <3>4, <3>5 DEF OfflineInv, SubmissionsAccounted
      <3> QED
        BY <3>5, <3>6
    <2> QED
      BY <2>4, <2>5, <2>6 DEF OfflineInv
  <1>10. ASSUME NEW f \in Flushes, StartFlush(f) PROVE OfflineInv'
    <2>1. /\ flush' = [flush EXCEPT ![f] = Sendable(queue)]
          /\ UNCHANGED <<offline, queue, entered, errors, done>>
      BY <1>10 DEF StartFlush
    <2>2. /\ Sendable(queue) \in Seq(Entry)
          /\ \A i \in DOMAIN Sendable(queue) : i \in DOMAIN queue /\ Sendable(queue)[i] = queue[i]
      BY <1>2, SendableIsFront
    <2>3. /\ flush' \in [Flushes -> Seq(Entry)] /\ flush'[f] = Sendable(queue)
          /\ \A g \in Flushes : g # f => flush'[g] = flush[g]
      BY <1>2, <2>1, <2>2
    <2>4. \A g \in Flushes : CountsReal(flush[g])'
      BY <2>1, <2>2, <2>3 DEF OfflineInv, CountsReal
    <2>5. OfflineTypeOK' /\ CountsReal(queue)' /\ SubmissionsAccounted'
      BY <1>2, <2>1, <2>3 DEF OfflineInv, OfflineTypeOK, CountsReal, SubmissionsAccounted, Queued
    <2> QED
      BY <2>4, <2>5 DEF OfflineInv
  <1>11. ASSUME UNCHANGED <<offline, entered>>, done' \subseteq Submissions,
               errors' \in [Submissions -> 0..MaxSubmits],
               flush' \in [Flushes -> Seq(Entry)], \A g \in Flushes : CountsReal(flush[g])',
               queue' \in Seq(Entry), CountsReal(queue)', SubmissionsAccounted'
        PROVE  OfflineInv'
    BY <1>2, <1>11 DEF OfflineInv, OfflineTypeOK
  <1>12. ASSUME NEW f \in Flushes, Settles(f) PROVE OfflineInv'
    <2>1. /\ Sending(f) /\ GoesOn(f) /\ Removes(OnWire(f).id)
          /\ done' = done \cup {OnWire(f).id} /\ UNCHANGED <<offline, entered, errors>>
      BY <1>12 DEF Settles
    <2>2. /\ OnWire(f) \in Entry /\ flush' \in [Flushes -> Seq(Entry)]
          /\ \A g \in Flushes : CountsReal(flush[g])'
      BY <1>6, <2>1, FlushKept
    <2>3. OnWire(f).id \in Submissions
      BY <1>5, <2>2
    <2>4. queue' \in Seq(Entry) /\ CountsReal(queue)' /\ SubmissionsAccounted'
      BY <1>6, <1>7, <2>1, <2>3
    <2> QED
      BY <1>2, <1>11, <2>1, <2>2, <2>3, <2>4
  <1>13. ASSUME NEW f \in Flushes, Conflicts(f) PROVE OfflineInv'
    <2> DEFINE s == OnWire(f).id
               q == [i \in DOMAIN queue |-> IF queue[i].id = s
                        THEN [queue[i] EXCEPT !.conflict = TRUE] ELSE queue[i]]
    <2>1. /\ Sending(f) /\ Breaks(f) /\ UNCHANGED <<offline, entered, errors, done>>
      BY <1>13 DEF Conflicts
    <2>2. Writes(q)
      <3> DEFINE p == [i \in DOMAIN queue |-> IF queue[i].id = s
                          THEN [e \in Entry |-> [e EXCEPT !.conflict = TRUE]][queue[i]]
                          ELSE queue[i]]
      <3>1. Writes(p)
        BY <1>13 DEF Conflicts, Updates
      <3>2. p = q
        BY <1>4
      <3> HIDE DEF p, q
      <3> QED
        BY <3>1, <3>2
    <2>3. /\ OnWire(f) \in Entry /\ flush' \in [Flushes -> Seq(Entry)]
          /\ \A g \in Flushes : CountsReal(flush[g])'
      BY <1>6, <2>1, FlushKept
    <2>4. s \in Submissions
      BY <1>5, <2>3
    <2> HIDE DEF s
    <2>5. ASSUME NEW i \in DOMAIN queue, queue[i].id = s
          PROVE  q[i] \in Entry /\ q[i].id = s /\ q[i].attempts <= errors[s]
      <3>1. q[i] = [queue[i] EXCEPT !.conflict = TRUE] /\ queue[i] \in Entry
        BY <1>4, <2>5
      <3>2. queue[i].attempts <= errors[s]
        BY <2>5 DEF OfflineInv, CountsReal
      <3> HIDE DEF q
      <3>3. q[i] \in Entry /\ q[i].id = queue[i].id /\ q[i].attempts = queue[i].attempts
        BY <3>1 DEF Entry
      <3> QED
        BY <2>5, <3>2, <3>3
    <2>6. /\ q = [i \in DOMAIN queue |-> q[i]]
          /\ \A i \in DOMAIN queue : queue[i].id # s => q[i] = queue[i]
      OBVIOUS
    <2> HIDE DEF q
    <2>7. queue' \in Seq(Entry) /\ CountsReal(queue)' /\ SubmissionsAccounted'
      BY <1>6, <1>8, <2>2, <2>1, <2>4, <2>5, <2>6
    <2> QED
      BY <1>2, <1>11, <2>1, <2>3, <2>7
  <1>14. ASSUME NEW f \in Flushes, ServerError(f) PROVE OfflineInv'
    <2> DEFINE s == OnWire(f).id
               n == OnWire(f).attempts + 1
               q == [i \in DOMAIN queue |-> IF queue[i].id = s
                        THEN [queue[i] EXCEPT !.attempts = n] ELSE queue[i]]
    <2>1. /\ Sending(f) /\ Breaks(f) /\ CountsError(s) /\ UNCHANGED <<offline, entered, done>>
      BY <1>14 DEF ServerError
    <2>2. IF n >= MaxSubmits THEN Removes(s) ELSE Writes(q)
      <3> DEFINE p == [i \in DOMAIN queue |-> IF queue[i].id = s
                          THEN [e \in Entry |-> [e EXCEPT !.attempts = n]][queue[i]]
                          ELSE queue[i]]
      <3>1. IF n >= MaxSubmits THEN Removes(s) ELSE Writes(p)
        BY <1>14 DEF ServerError, Updates
      <3>2. p = q
        BY <1>4
      <3> HIDE DEF p, q
      <3> QED
        BY <3>1, <3>2
    <2>3. /\ OnWire(f) \in Entry
          /\ OnWire(f).attempts <= errors[OnWire(f).id]
      <3>1. flush[f] \in Seq(Entry) /\ flush[f] # <<>> /\ CountsReal(flush[f])
        BY <1>2, <2>1 DEF Sending, OfflineInv
      <3>2. 1 \in DOMAIN flush[f] /\ OnWire(f) = flush[f][1] /\ flush[f][1] \in Entry
        BY <3>1, HeadTailProperties, ElementOfSeq DEF OnWire
      <3> QED
        BY <3>1, <3>2 DEF CountsReal
    <2>4. s \in Submissions /\ n \in Nat /\ n <= errors[s] + 1 /\ n <= MaxSubmits
      BY <1>3, <1>5, <2>3
    <2> HIDE DEF s, n
    <2>5. /\ errors' \in [Submissions -> 0..MaxSubmits]
          /\ \A t \in Submissions : errors'[t] >= errors[t]
          /\ n <= errors'[s]
      <3>1. errors'[s] = (IF errors[s] < MaxSubmits THEN errors[s] + 1 ELSE MaxSubmits)
            /\ \A t \in Submissions : t # s => errors'[t] = errors[t]
        BY <1>2, <2>1, <2>4 DEF CountsError
      <3>2. errors'[s] \in 0..MaxSubmits /\ errors'[s] >= errors[s] /\ n <= errors'[s]
        <4>1. errors[s] \in 0..MaxSubmits
          BY <1>2, <2>4
        <4> QED
          BY <1>3, <2>4, <3>1, <4>1
      <3>3. errors' \in [Submissions -> 0..MaxSubmits]
        BY <1>2, <2>1, <2>4, <3>1, <3>2 DEF CountsError
      <3> QED
        BY <1>3, <3>1, <3>2, <3>3
    <2>6. /\ flush' \in [Flushes -> Seq(Entry)]
          /\ \A g \in Flushes : CountsReal(flush[g])'
      BY <2>1, <2>5, FlushKept
    <2>7. queue' \in Seq(Entry) /\ CountsReal(queue)' /\ SubmissionsAccounted'
      <3>1. CASE n >= MaxSubmits
        <4>1. errors'[s] >= MaxSubmits
          <5>1. errors'[s] \in Nat
            BY <1>3, <2>4, <2>5
          <5> QED
            BY <1>3, <2>4, <2>5, <3>1, <5>1
        <4> QED
          BY <1>2, <1>7, <2>2, <2>1, <2>4, <2>5, <3>1, <4>1
      <3>2. CASE ~(n >= MaxSubmits)
        <4>1. ASSUME NEW i \in DOMAIN queue, queue[i].id = s
              PROVE  q[i] \in Entry /\ q[i].id = s /\ q[i].attempts <= errors'[s]
          <5>1. q[i] = [queue[i] EXCEPT !.attempts = n] /\ queue[i] \in Entry
            BY <1>4, <4>1
          <5>2. n \in 0..(MaxSubmits - 1)
            BY <1>3, <2>4, <3>2
          <5> HIDE DEF q
          <5>3. q[i] \in Entry /\ q[i].id = queue[i].id /\ q[i].attempts = n
            BY <5>1, <5>2 DEF Entry
          <5> QED
            BY <2>5, <4>1, <5>3
        <4>2. /\ q = [i \in DOMAIN queue |-> q[i]]
              /\ \A i \in DOMAIN queue : queue[i].id # s => q[i] = queue[i]
          OBVIOUS
        <4>3. Writes(q)
          BY <2>2, <3>2
        <4> HIDE DEF q
        <4> QED
          BY <1>2, <1>8, <2>1, <2>4, <2>5, <4>1, <4>2, <4>3
      <3> QED
        BY <3>1, <3>2
    <2> QED
      BY <1>2, <1>11, <2>1, <2>6, <2>7, <2>5
  <1>15. ASSUME NEW f \in Flushes, Abandons(f) PROVE OfflineInv'
    <2>1. Sending(f) /\ Breaks(f) /\ UNCHANGED <<offline, queue, entered, errors, done>>
      BY <1>15 DEF Abandons
    <2>2. /\ flush' \in [Flushes -> Seq(Entry)]
          /\ \A g \in Flushes : CountsReal(flush[g])'
      BY <1>6, <2>1, FlushKept
    <2>3. CountsReal(queue)' /\ SubmissionsAccounted'
      BY <2>1 DEF OfflineInv, CountsReal, SubmissionsAccounted, Queued
    <2> QED
      BY <1>2, <1>11, <2>1, <2>2, <2>3
  <1>16. ASSUME NEW s \in Submissions, RetryConflict(s) PROVE OfflineInv'
    <2> DEFINE q == [i \in DOMAIN queue |-> IF queue[i].id = s
                        THEN [queue[i] EXCEPT !.conflict = FALSE, !.attempts = 0] ELSE queue[i]]
    <2>1. Writes(q) /\ UNCHANGED <<offline, flush, entered, errors, done>>
      <3> DEFINE p == [i \in DOMAIN queue |-> IF queue[i].id = s
                          THEN [e \in Entry |-> [e EXCEPT !.conflict = FALSE, !.attempts = 0]][queue[i]]
                          ELSE queue[i]]
      <3>1. Writes(p) /\ UNCHANGED <<offline, flush, entered, errors, done>>
        BY <1>16 DEF RetryConflict, Updates
      <3>2. p = q
        BY <1>4
      <3> HIDE DEF p, q
      <3> QED
        BY <3>1, <3>2
    <2>2. ASSUME NEW i \in DOMAIN queue, queue[i].id = s
          PROVE  q[i] \in Entry /\ q[i].id = s /\ q[i].attempts <= errors[s]
      <3> DEFINE m == [queue[i] EXCEPT !.conflict = FALSE]
      <3>1. q[i] = [m EXCEPT !.attempts = 0] /\ queue[i] \in Entry
        BY <1>4, <2>2
      <3>2. m \in Entry /\ m.id = s
        BY <2>2, <3>1 DEF Entry
      <3> HIDE DEF q, m
      <3>3. q[i] \in Entry /\ q[i].id = s /\ q[i].attempts = 0
        BY <1>3, <3>1, <3>2 DEF Entry
      <3> QED
        BY <1>3, <3>3
    <2>3. /\ q = [i \in DOMAIN queue |-> q[i]]
          /\ \A i \in DOMAIN queue : queue[i].id # s => q[i] = queue[i]
      OBVIOUS
    <2> HIDE DEF q
    <2>4. queue' \in Seq(Entry) /\ CountsReal(queue)' /\ SubmissionsAccounted'
      BY <1>6, <1>8, <2>1, <2>2, <2>3
    <2>5. \A g \in Flushes : CountsReal(flush[g])'
      BY <2>1 DEF OfflineInv, CountsReal
    <2> QED
      BY <1>2, <1>11, <2>1, <2>4, <2>5
  <1>17. ASSUME NEW s \in Submissions, DiscardConflict(s) PROVE OfflineInv'
    <2>1. /\ Removes(s) /\ done' = done \cup {s}
          /\ UNCHANGED <<offline, flush, entered, errors>>
      BY <1>17 DEF DiscardConflict
    <2>2. queue' \in Seq(Entry) /\ CountsReal(queue)' /\ SubmissionsAccounted'
      BY <1>6, <1>7, <2>1
    <2>3. \A g \in Flushes : CountsReal(flush[g])'
      BY <2>1 DEF OfflineInv, CountsReal
    <2> QED
      BY <1>2, <1>11, <2>1, <2>2, <2>3
  <1>18. CASE UNCHANGED offlineVars
    BY <1>2, <1>18 DEF offlineVars, OfflineInv, OfflineTypeOK, CountsReal, SubmissionsAccounted, Queued
  <1> QED
    BY <1>9, <1>10, <1>12, <1>13, <1>14, <1>15, <1>16, <1>17, <1>18 DEF OfflineNext

\* A submission no longer in the queue was accepted, refused or discarded, or has had
\* MaxSubmits server errors, whatever stale counts overlapping flushes write back, for
\* any submissions, flushes and attempts.
THEOREM SubmissionsAlwaysAccounted == OfflineSpec => []SubmissionsAccounted
  <1>1. OfflineInv => SubmissionsAccounted
    BY DEF OfflineInv
  <1> QED
    BY <1>1, OfflineStarts, OfflineKeeps, PTL DEF OfflineSpec

------------------------------------------------------------------------------
(* SideEffects                                                               *)

\* No key has two letters.
OneLetterEach(q) == \A i, j \in DOMAIN q : q[i].key = q[j].key => i = j
Box == {q \in Seq(Letter) : OneLetterEach(q)}

\* While dispatches are quick and writes succeed, a dispatch under way is the only one
\* of its key, the record says that it is under way, and it can afford its retries.
KeyKept(k) ==
    /\ gen[k] <= sent[k]
    /\ \A w \in Window : w > gen[k] => winner[k][w] = 0
    /\ \A d \in Dispatches : OnKey(d, k) =>
        /\ record[k] = Written("in_progress")
        /\ gen[k] < sent[k]
        /\ sent[k] + MaxRetries[k] + 1 - runs[d].attempt <= env.budget[k]
    /\ \A d, c \in Dispatches : OnKey(d, k) /\ OnKey(c, k) => d = c

EffectsInv ==
    /\ EffectsTypeOK
    /\ stored \in Box /\ \A t \in Tabs : letters[t] \in Box
    /\ \A d \in Dispatches :
        runs[d].pc = "sleeping" => runs[d].attempt <= MaxRetries[runs[d].key]
    /\ FailureIsShown
    /\ Kind => \A k \in Keys : KeyKept(k)

\* A queue of letters without one of them.
LEMMA LetterRemoved ==
    ASSUME NEW q \in Box, NEW n \in 1..Len(q), NEW r, r = RemoveAt(q, n)
    PROVE  /\ r \in Box
           /\ \A i \in DOMAIN r : \E j \in DOMAIN q : j # n /\ r[i] = q[j]
           /\ \A j \in DOMAIN q : j # n => \E i \in DOMAIN r : r[i] = q[j]
  <1>1. q \in Seq(Letter) /\ OneLetterEach(q)
    BY DEF Box
  <1>2. r \in Seq(Letter)
    BY <1>1, OneRemoved
  <1>3. /\ \A i \in DOMAIN r : \E j \in DOMAIN q : j # n /\ r[i] = q[j]
        /\ \A j \in DOMAIN q : j # n => \E i \in DOMAIN r : r[i] = q[j]
        /\ \A i, k \in DOMAIN r : i # k =>
             \E j, l \in DOMAIN q : j # l /\ r[i] = q[j] /\ r[k] = q[l]
    BY <1>1, OthersLeft
  <1>4. OneLetterEach(r)
    BY <1>1, <1>3 DEF OneLetterEach
  <1> QED
    BY <1>2, <1>3, <1>4 DEF Box

\* Discarding the letter of a key leaves the others.
LEMMA LetterDropped ==
    ASSUME NEW q \in Box, NEW k, NEW r, r = Dropped(q, k)
    PROVE  /\ r \in Box
           /\ \A j \in DOMAIN q : q[j].key # k => \E i \in DOMAIN r : r[i] = q[j]
  <1> DEFINE I == {i \in 1..Len(q) : q[i].key = k}
             n == Min(I)
  <1>1. CASE I = {}
    <2>1. r = q
      BY <1>1 DEF Dropped, RemoveFirstMatch
    <2> QED
      BY <2>1
  <1>2. CASE I # {}
    <2>1. n \in I
      <3>1. I \in SUBSET Nat
        OBVIOUS
      <3> HIDE DEF I
      <3> QED
        BY <1>2, <3>1, LeastIndex
    <2>2. r = RemoveAt(q, n)
      BY <1>2 DEF Dropped, RemoveFirstMatch, SelectInSeq, RemoveAt
    <2>3. n \in 1..Len(q) /\ q[n].key = k
      BY <2>1
    <2> HIDE DEF n
    <2>4. /\ r \in Box
          /\ \A j \in DOMAIN q : j # n => \E i \in DOMAIN r : r[i] = q[j]
      BY <2>2, <2>3, LetterRemoved
    <2> QED
      BY <2>3, <2>4
  <1> QED
    BY <1>1, <1>2

\* Trimming makes room for the last letter: a resolved one goes, or the oldest.
LEMMA LastStays ==
    ASSUME NEW q \in Box, q # <<>>, ~q[Len(q)].resolved, env.cap \in Nat \ {0}
    PROVE  /\ Trimmed(q) \in Box
           /\ \A i \in DOMAIN Trimmed(q) : \E j \in DOMAIN q : Trimmed(q)[i] = q[j]
           /\ \E i \in DOMAIN Trimmed(q) : Trimmed(q)[i] = q[Len(q)]
  <1>1. q \in Seq(Letter) /\ Len(q) \in Nat /\ DOMAIN q = 1..Len(q) /\ Len(q) \in 1..Len(q)
    <2>1. q \in Seq(Letter)
      BY DEF Box
    <2> QED
      BY <2>1, EmptySeq
  <1>2. CASE Len(q) <= env.cap
    <2>1. Trimmed(q) = q
      BY <1>2 DEF Trimmed
    <2> QED
      BY <1>1, <2>1
  <1>3. ASSUME NEW n \in 1..Len(q), n # Len(q), Trimmed(q) = RemoveAt(q, n)
        PROVE  /\ Trimmed(q) \in Box
               /\ \A i \in DOMAIN Trimmed(q) : \E j \in DOMAIN q : Trimmed(q)[i] = q[j]
               /\ \E i \in DOMAIN Trimmed(q) : Trimmed(q)[i] = q[Len(q)]
    <2> DEFINE r == Trimmed(q)
    <2> HIDE DEF r
    <2>1. /\ r \in Box
          /\ \A i \in DOMAIN r : \E j \in DOMAIN q : j # n /\ r[i] = q[j]
          /\ \A j \in DOMAIN q : j # n => \E i \in DOMAIN r : r[i] = q[j]
      BY <1>3, LetterRemoved DEF r
    <2> QED
      BY <1>1, <1>3, <2>1 DEF r
  <1> DEFINE I == {i \in 1..Len(q) : q[i].resolved}
             n == Min(I)
  <1>4. ResolvedIdx(q) = IF I # {} THEN n ELSE 0
    BY DEF ResolvedIdx, SelectInSeq
  <1>5. CASE Len(q) > env.cap /\ I # {}
    <2>1. n \in I
      <3>1. I \in SUBSET Nat
        OBVIOUS
      <3> HIDE DEF I
      <3> QED
        BY <1>5, <3>1, LeastIndex
    <2>2. n \in 1..Len(q) /\ n # Len(q)
      BY <2>1
    <2> HIDE DEF n
    <2>3. ResolvedIdx(q) = n /\ n > 0
      BY <1>4, <1>5, <2>2
    <2>4. ~(Len(q) <= env.cap)
      BY <1>1, <1>5
    <2>5. Trimmed(q) = RemoveAt(q, n)
      BY <2>3, <2>4 DEF Trimmed
    <2> QED
      BY <1>3, <2>2, <2>5
  <1>6. CASE Len(q) > env.cap /\ I = {}
    <2>1. ResolvedIdx(q) = 0
      BY <1>4, <1>6
    <2>2. ~(Len(q) <= env.cap)
      BY <1>1, <1>6
    <2>3. Trimmed(q) = Tail(q)
      BY <2>1, <2>2 DEF Trimmed
    <2>4. Tail(q) = SubSeq(q, 2, Len(q)) /\ SubSeq(q, 1, 0) = <<>>
      BY <1>1, TailIsSubSeq, SubSeqEmpty
    <2>5. SubSeq(q, 2, Len(q)) \in Seq(Letter)
      BY <1>1
    <2>6. Tail(q) = SubSeq(q, 1, 0) \o SubSeq(q, 2, Len(q))
      BY <2>4, <2>5, ConcatEmptySeq
    <2>7. RemoveAt(q, 1) = SubSeq(q, 1, 0) \o SubSeq(q, 2, Len(q))
      BY DEF RemoveAt
    <2>8. 1 \in 1..Len(q) /\ 1 # Len(q)
      BY <1>1, <1>6
    <2> QED
      BY <1>3, <2>3, <2>6, <2>7, <2>8
  <1> QED
    BY <1>1, <1>2, <1>5, <1>6

\* What saving an entry leaves of a queue.
LEMMA LetterSaved ==
    ASSUME NEW q \in Box, NEW e \in Letter, ~e.resolved \/ Holds(q, e.key), env.cap \in Nat \ {0},
           NEW r, r = Saved(q, e)
    PROVE  /\ r \in Box
           /\ \A i \in DOMAIN r : r[i] = e \/ \E j \in DOMAIN q : r[i] = q[j]
           /\ ~e.resolved => IsOpen(r, e.key)
           /\ Holds(q, e.key) => \A k : Holds(q, k) => Holds(r, k)
  <1>1. /\ q \in Seq(Letter) /\ OneLetterEach(q) /\ Len(q) \in Nat /\ DOMAIN q = 1..Len(q)
        /\ \A i \in DOMAIN q : q[i] \in Letter
    BY ElementOfSeq DEF Box
  <1>2. CASE Holds(q, e.key)
    <2>1. r = [i \in DOMAIN q |-> IF q[i].key = e.key THEN e ELSE q[i]]
      BY <1>2 DEF Saved
    <2>2. /\ DOMAIN r = DOMAIN q /\ \A i \in DOMAIN q : r[i].key = q[i].key
          /\ \A i \in DOMAIN q : r[i] = IF q[i].key = e.key THEN e ELSE q[i]
      BY <2>1
    <2>3. r \in Seq(Letter)
      <3>1. r \in [1..Len(q) -> Letter]
        BY <1>1, <2>1
      <3> QED
        BY <1>1, <3>1
    <2>4. OneLetterEach(r)
      BY <1>1, <2>2 DEF OneLetterEach
    <2>5. PICK m \in DOMAIN q : q[m].key = e.key
      BY <1>2 DEF Holds
    <2>6. r[m] = e
      BY <2>2, <2>5
    <2> QED
      BY <2>2, <2>3, <2>4, <2>6 DEF Box, IsOpen, Holds
  <1>3. CASE ~Holds(q, e.key)
    <2> DEFINE all == Append(q, e)
               n == Len(q)
    <2>1. r = Trimmed(all)
      BY <1>3 DEF Saved
    <2>2. /\ all \in Seq(Letter) /\ Len(all) = n + 1 /\ DOMAIN all = 1..(n + 1)
          /\ all[n + 1] = e /\ all # <<>>
          /\ \A i \in 1..n : all[i] = q[i]
      BY <1>1, AppendProperties
    <2>3. n \in Nat /\ DOMAIN q = 1..n
      BY <1>1
    <2> HIDE DEF all, n
    <2>4. \A i \in 1..(n + 1) : i \in 1..n \/ i = n + 1
      BY <2>3
    <2>5. OneLetterEach(all)
      <3> SUFFICES ASSUME NEW i \in 1..(n + 1), NEW j \in 1..(n + 1), all[i].key = all[j].key
                   PROVE  i = j
        BY <2>2 DEF OneLetterEach
      <3> QED
        BY <1>1, <1>3, <2>2, <2>3, <2>4 DEF OneLetterEach, Holds
    <2>6. all \in Box /\ ~all[Len(all)].resolved
      BY <1>3, <2>2, <2>5 DEF Box
    <2>7. /\ r \in Box
          /\ \A i \in DOMAIN r : \E j \in DOMAIN all : r[i] = all[j]
          /\ \E i \in DOMAIN r : r[i] = all[Len(all)]
      BY <2>1, <2>2, <2>6, LastStays
    <2> QED
      BY <1>3, <2>2, <2>3, <2>4, <2>7 DEF IsOpen
  <1> QED
    BY <1>2, <1>3

\* A letter that is still there is as it was, unless it is the one saved.
LEMMA OpenStays ==
    ASSUME NEW q \in Box, NEW r \in Box, NEW e,
           \A i \in DOMAIN r : r[i] = e \/ \E j \in DOMAIN q : r[i] = q[j],
           NEW k, k # e.key, IsOpen(q, k), Holds(r, k)
    PROVE  IsOpen(r, k)
  <1>1. PICK i \in DOMAIN r : r[i].key = k
    BY DEF Holds
  <1>2. PICK j \in DOMAIN q : r[i] = q[j]
    BY <1>1
  <1>3. PICK l \in DOMAIN q : q[l].key = k /\ ~q[l].resolved
    BY DEF IsOpen
  <1>4. j = l
    BY <1>1, <1>2, <1>3 DEF Box, OneLetterEach
  <1> QED
    BY <1>1, <1>2, <1>3, <1>4 DEF IsOpen

\* What the contract sees of key k: somebody waits for its handler, and a success of
\* it is remembered.
Waited(k) == \E d \in Dispatches : runs[d].pc = "running" /\ runs[d].key = k
Remembered(k) == record[k].status = "succeeded" /\ ~record[k].over
KeysStep == \A k \in Keys : Contract(k)!Next \/ UNCHANGED Contract(k)!contractVars

LEMMA ContractSame ==
    ASSUME NEW k \in Keys, env' = env,
           Kind => /\ Waited(k)' = Waited(k) /\ Remembered(k)' = Remembered(k)
                   /\ sent'[k] = sent[k] /\ winner'[k] = winner[k] /\ gen'[k] = gen[k]
    PROVE  UNCHANGED Contract(k)!contractVars
  <1>1. Kind' = Kind
    BY DEF Kind
  <1>2. CASE Kind
    BY <1>1, <1>2 DEF Contract!contractVars, Waited, Remembered
  <1>3. CASE ~Kind
    BY <1>1, <1>3 DEF Contract!contractVars
  <1> QED
    BY <1>2, <1>3

LEMMA ContractRequest ==
    ASSUME NEW k \in Keys, env' = env, Kind, gen[k] \in Nat,
           \A w \in Window : w > gen[k] => winner[k][w] = 0,
           ~Waited(k), Waited(k)', ~Remembered(k), ~Remembered(k)',
           sent'[k] = sent[k] + 1, winner'[k] = winner[k], gen'[k] = gen[k]
    PROVE  Contract(k)!Next
  <1>1. Kind'
    BY DEF Kind
  <1>2. ~Contract(k)!Settled
    BY DEF Contract!Settled, Contract!Window, Window, Remembered
  <1>3. Contract(k)!Request
    BY <1>1, <1>2 DEF Contract!Request, Waited, Remembered
  <1> QED
    BY <1>3 DEF Contract!Next

LEMMA ContractGiveUp ==
    ASSUME NEW k \in Keys, env' = env, Kind, Waited(k), ~Waited(k)',
           ~Remembered(k), ~Remembered(k)',
           sent'[k] = sent[k], winner'[k] = winner[k], gen'[k] = gen[k]
    PROVE  Contract(k)!Next
  <1>1. Kind'
    BY DEF Kind
  <1>2. Contract(k)!GiveUp
    BY <1>1 DEF Contract!GiveUp, Waited, Remembered
  <1> QED
    BY <1>2 DEF Contract!Next

LEMMA ContractReport ==
    ASSUME NEW k \in Keys, env' = env, Kind, gen[k] \in Nat, gen[k] + 1 \in Window,
           winner[k][gen[k] + 1] = 0, Waited(k), ~Waited(k)', ~Remembered(k), Remembered(k)',
           sent'[k] = sent[k], gen'[k] = gen[k] + 1,
           winner'[k] = [winner[k] EXCEPT ![gen[k] + 1] = sent[k]]
    PROVE  Contract(k)!Next
  <1>1. Kind'
    BY DEF Kind
  <1>2. Contract(k)!Report
    BY <1>1 DEF Contract!Report, Contract!Window, Window, Waited, Remembered
  <1> QED
    BY <1>2 DEF Contract!Next

LEMMA ContractExpire ==
    ASSUME NEW k \in Keys, env' = env, Kind, gen[k] \in Nat, Waited(k)' = Waited(k),
           Remembered(k), ~Remembered(k)',
           sent'[k] = sent[k], winner'[k] = winner[k], gen'[k] = gen[k]
    PROVE  Contract(k)!Next
  <1>1. Kind'
    BY DEF Kind
  <1>2. Contract(k)!Expire
    BY <1>1 DEF Contract!Expire, Waited, Remembered
  <1> QED
    BY <1>2 DEF Contract!Next

\* The types, one by one.
LEMMA EffectsFacts ==
    ASSUME EffectsInv
    PROVE  /\ env.cap \in Nat \ {0}
           /\ \A k \in Keys : /\ env.budget[k] \in 0..MaxSent /\ MaxRetries[k] \in Nat
                              /\ sent[k] \in Nat /\ gen[k] \in Nat /\ record[k] \in Record
                              /\ winner[k] \in [Window -> Nat]
                              /\ holder[k] \in Tabs \cup {Nobody}
           /\ \A d \in Dispatches :
                /\ runs[d] \in Run /\ runs[d].key \in Keys /\ runs[d].attempt \in Nat
                /\ runs[d].pc \in {"idle", "running", "sleeping"} /\ TabOf[d] \in Tabs
                /\ runs[d].attempt <= MaxRetries[runs[d].key] + 1
           /\ \A k \in Keys : record[k].over \in BOOLEAN /\ record[k].stale \in BOOLEAN
           /\ MaxSent \in Nat
  <1>1. EffectsTypeOK
    BY DEF EffectsInv
  <1>2. env \in Env
    BY <1>1, SideEffectEnvsAssumption DEF EffectsTypeOK
  <1>3. env.cap \in Nat \ {0} /\ env.budget \in [Keys -> 0..MaxSent]
    BY <1>2, SideEffectBoundsAssumption DEF Env
  <1>4. \A k \in Keys : record[k] \in Record
    BY <1>1 DEF EffectsTypeOK
  <1>5. \A k \in Keys : record[k].over \in BOOLEAN /\ record[k].stale \in BOOLEAN
    BY <1>4 DEF Record
  <1>6. \A d \in Dispatches : runs[d] \in Run
    BY <1>1 DEF EffectsTypeOK
  <1>7. \A d \in Dispatches : /\ runs[d].key \in Keys /\ runs[d].attempt \in Nat
                              /\ runs[d].pc \in {"idle", "running", "sleeping"}
    BY <1>6 DEF Run
  <1>8. \A k \in Keys : /\ env.budget[k] \in 0..MaxSent /\ MaxRetries[k] \in Nat
                        /\ sent[k] \in Nat /\ gen[k] \in Nat
                        /\ winner[k] \in [Window -> Nat]
                        /\ holder[k] \in Tabs \cup {Nobody}
    BY <1>1, <1>3, SideEffectBoundsAssumption DEF EffectsTypeOK
  <1>9. \A d \in Dispatches : TabOf[d] \in Tabs /\ runs[d].attempt <= MaxRetries[runs[d].key] + 1
    BY <1>1 DEF EffectsTypeOK, Tabs
  <1> QED
    BY <1>3, <1>4, <1>5, <1>6, <1>7, <1>8, <1>9, SideEffectBoundsAssumption

LEMMA WrittenRecord ==
    ASSUME NEW s \in {"none", "in_progress", "succeeded", "failed"}
    PROVE  Written(s) \in Record /\ Written(s).status = s /\ ~Written(s).over /\ ~Written(s).stale
  BY DEF Written, Record

\* A key whose dispatches and counts stay as they are is kept.
LEMMA KeptAsItWas ==
    ASSUME EffectsInv, NEW k \in Keys, KeyKept(k), env' = env,
           sent'[k] = sent[k], gen'[k] = gen[k], winner'[k] = winner[k],
           \A d \in Dispatches : OnKey(d, k)' => OnKey(d, k) /\ runs'[d].attempt = runs[d].attempt,
           Live(k)' => record'[k] = record[k]
    PROVE  KeyKept(k)'
  BY DEF KeyKept, Live

\* The letters after a step that leaves them alone and makes no failure.
LEMMA LettersAlone ==
    ASSUME EffectsInv, UNCHANGED <<letters, stored, holder>>,
           \A k \in Keys : record'[k].status = "failed" => record[k].status = "failed"
    PROVE  /\ stored' \in Box /\ (\A t \in Tabs : letters'[t] \in Box)
           /\ FailureIsShown'
  BY DEF EffectsInv, FailureIsShown

\* The letters after one tab has kept another queue.
LEMMA LettersKept ==
    ASSUME EffectsInv, NEW t \in Tabs, NEW q \in Box, Keeps(t, q), env' = env
    PROVE  /\ stored' \in Box /\ (\A u \in Tabs : letters'[u] \in Box)
           /\ stored' \in Seq(Letter) /\ letters' \in [Tabs -> Seq(Letter)]
           /\ letters'[t] = q /\ \A u \in Tabs : u # t => letters'[u] = letters[u]
  BY DEF EffectsInv, EffectsTypeOK, Keeps, Box

\* A dispatch begins for a key that nobody works on and that is not remembered.
LEMMA StartStep ==
    ASSUME EffectsInv, NEW d \in Dispatches, NEW k \in Keys, Start(d, k),
           UNCHANGED <<env, letters, stored, winner, gen, holder>>,
           Kind => record[k] # Written("in_progress") /\ ~Remembered(k)
    PROVE  EffectsInv' /\ KeysStep
  <1> DEFINE p == Written("in_progress")
             n == [pc |-> "running", key |-> k, attempt |-> 1]
  <1>1. /\ runs[d].pc = "idle" /\ Affordable(k)
        /\ record' = [record EXCEPT ![k] = p]
        /\ runs' = [runs EXCEPT ![d] = n]
        /\ inFlight' = inFlight \cup {<<TabOf[d], k>>}
        /\ sent' = [sent EXCEPT ![k] = sent[k] + 1]
    BY DEF Start
  <1>2. p \in Record /\ p.status = "in_progress" /\ ~p.over /\ ~p.stale
    BY WrittenRecord
  <1>3. n \in Run /\ n.pc = "running" /\ n.key = k /\ n.attempt = 1
    BY DEF Run
  <1> HIDE DEF p, n
  <1>4. /\ runs' \in [Dispatches -> Run] /\ runs'[d] = n
        /\ \A c \in Dispatches : c # d => runs'[c] = runs[c]
        /\ record' \in [Keys -> Record] /\ record'[k] = p
        /\ \A j \in Keys : j # k => record'[j] = record[j]
        /\ sent' \in [Keys -> Nat] /\ sent'[k] = sent[k] + 1
        /\ \A j \in Keys : j # k => sent'[j] = sent[j]
    BY <1>1, <1>2, <1>3 DEF EffectsInv, EffectsTypeOK
  <1>5. \A c \in Dispatches : runs'[c].attempt <= MaxRetries[runs'[c].key] + 1
    <2>1. runs'[d].attempt <= MaxRetries[runs'[d].key] + 1
      BY <1>3, <1>4, EffectsFacts
    <2> QED
      BY <1>4, <2>1, EffectsFacts
  <1>6. inFlight' \subseteq Tabs \X Keys
    BY <1>1, EffectsFacts DEF EffectsInv, EffectsTypeOK
  <1>7. EffectsTypeOK'
    BY <1>4, <1>5, <1>6 DEF EffectsInv, EffectsTypeOK
  <1>8. \A c \in Dispatches :
            runs'[c].pc = "sleeping" => runs'[c].attempt <= MaxRetries[runs'[c].key]
    BY <1>3, <1>4 DEF EffectsInv
  <1>9. /\ stored' \in Box /\ (\A t \in Tabs : letters'[t] \in Box)
        /\ FailureIsShown'
    <2>1. \A j \in Keys : record'[j].status = "failed" => record[j].status = "failed"
      BY <1>2, <1>4
    <2> QED
      BY <2>1, LettersAlone
  <1>10. ASSUME Kind PROVE ~Live(k)
    BY <1>10 DEF EffectsInv, KeyKept, Live
  <1>11. ASSUME Kind, NEW j \in Keys PROVE KeyKept(j)'
    <2>1. KeyKept(j)
      BY <1>11 DEF EffectsInv
    <2>2. CASE j = k
      <3>1. \A c \in Dispatches : OnKey(c, k)' => c = d
        BY <1>4, <1>10, <1>11 DEF Live, OnKey
      <3>2. sent[k] + MaxRetries[k] + 1 <= env.budget[k]
        <4>1. {c \in Dispatches : OnKey(c, k)} = {}
          BY <1>10, <1>11 DEF Live
        <4>2. Cardinality({c \in Dispatches : OnKey(c, k)}) = 0
          BY <4>1, FS_EmptySet
        <4>3. 0 * MaxRetries[k] = 0
          BY EffectsFacts
        <4> QED
          BY <1>1, <4>2, <4>3, EffectsFacts DEF Affordable
      <3>3. /\ gen'[k] = gen[k] /\ winner'[k] = winner[k] /\ env'.budget[k] = env.budget[k]
            /\ gen[k] \in Nat /\ sent[k] \in Nat /\ MaxRetries[k] \in Nat
            /\ env.budget[k] \in Int
        BY EffectsFacts
      <3>4. gen[k] <= sent[k] /\ \A w \in Window : w > gen[k] => winner[k][w] = 0
        BY <2>1, <2>2 DEF KeyKept
      <3>5. sent'[k] + MaxRetries[k] + 1 - 1 <= env.budget[k] /\ gen[k] < sent'[k] /\ gen[k] <= sent'[k]
        BY <1>4, <3>2, <3>3, <3>4
      <3>6. KeyKept(k)'
        BY <1>3, <1>4, <3>1, <3>3, <3>4, <3>5 DEF KeyKept, p
      <3> QED
        BY <2>2, <3>6
    <2>3. CASE j # k
      <3>1. \A c \in Dispatches : OnKey(c, j)' => OnKey(c, j) /\ runs'[c].attempt = runs[c].attempt
        BY <1>3, <1>4, <2>3 DEF OnKey
      <3> QED
        BY <1>4, <2>1, <2>3, <3>1, KeptAsItWas
    <2> QED
      BY <2>2, <2>3
  <1>12. ASSUME NEW j \in Keys PROVE Contract(j)!Next \/ UNCHANGED Contract(j)!contractVars
    <2>1. CASE Kind /\ j = k
      <3>1. ~Waited(k)
        BY <1>10, <2>1 DEF Waited, Live, OnKey
      <3>2. Waited(k)'
        BY <1>3, <1>4 DEF Waited
      <3>3. ~Remembered(k)'
        BY <1>2, <1>4 DEF Remembered
      <3>4. gen[k] \in Nat /\ \A w \in Window : w > gen[k] => winner[k][w] = 0
        BY <2>1, EffectsFacts DEF EffectsInv, KeyKept
      <3>5. sent'[k] = sent[k] + 1 /\ winner'[k] = winner[k] /\ gen'[k] = gen[k] /\ env' = env
        BY <1>4
      <3>6. Contract(k)!Next
        BY <2>1, <3>1, <3>2, <3>3, <3>4, <3>5, ContractRequest
      <3> QED
        BY <2>1, <3>6
    <2>2. CASE j # k
      <3>1. Waited(j)' = Waited(j)
        BY <1>1, <1>3, <1>4, <2>2 DEF Waited
      <3>2. Remembered(j)' = Remembered(j)
        BY <1>4, <2>2 DEF Remembered
      <3> QED
        BY <1>4, <2>2, <3>1, <3>2, ContractSame
    <2>3. CASE ~Kind
      BY <2>3, ContractSame
    <2> QED
      BY <2>1, <2>2, <2>3
  <1>13. EffectsInv'
    <2>1. Kind' => Kind
      BY DEF Kind
    <2> QED
      BY <1>7, <1>8, <1>9, <1>11, <2>1 DEF EffectsInv
  <1> QED
    BY <1>12, <1>13 DEF KeysStep

\* A dispatch that is idle again.
LEMMA AboutNoRun == NoRun \in Run /\ NoRun.pc = "idle" /\ NoRun.attempt = 0
  <1>1. (CHOOSE k \in Keys : TRUE) \in Keys
    BY SideEffectBoundsAssumption
  <1> QED
    BY <1>1 DEF NoRun, Run

\* Only the record of one key changes, that nobody works on.
LEMMA RecordStep ==
    ASSUME EffectsInv, NEW k \in Keys, NEW v \in Record, record' = [record EXCEPT ![k] = v],
           UNCHANGED <<env, runs, letters, stored, sent, winner, gen, holder>>,
           inFlight' \subseteq inFlight,
           v.status = "failed" => record[k].status = "failed",
           Kind => ~Live(k) /\ (Remembered(k) \/ v.status # "succeeded" \/ v.over)
    PROVE  EffectsInv' /\ KeysStep
  <1>1. /\ record' \in [Keys -> Record] /\ record'[k] = v
        /\ \A j \in Keys : j # k => record'[j] = record[j]
    BY DEF EffectsInv, EffectsTypeOK
  <1>2. EffectsTypeOK'
    BY <1>1 DEF EffectsInv, EffectsTypeOK
  <1>3. stored' \in Box /\ (\A t \in Tabs : letters'[t] \in Box) /\ FailureIsShown'
    <2>1. \A j \in Keys : record'[j].status = "failed" => record[j].status = "failed"
      BY <1>1
    <2> QED
      BY <2>1, LettersAlone
  <1>4. ASSUME Kind, NEW j \in Keys PROVE KeyKept(j)'
    <2>1. KeyKept(j)
      BY <1>4 DEF EffectsInv
    <2>2. \A c \in Dispatches : OnKey(c, j)' => OnKey(c, j) /\ runs'[c].attempt = runs[c].attempt
      BY DEF OnKey
    <2>3. Live(j)' => record'[j] = record[j]
      BY <1>1, <1>4 DEF Live, OnKey
    <2> QED
      BY <2>1, <2>2, <2>3, KeptAsItWas
  <1>5. ASSUME NEW j \in Keys PROVE Contract(j)!Next \/ UNCHANGED Contract(j)!contractVars
    <2>1. Waited(j)' = Waited(j) /\ gen[j] \in Nat
      BY EffectsFacts DEF Waited
    <2>2. CASE Kind /\ j = k /\ Remembered(k) /\ ~Remembered(k)'
      BY <2>1, <2>2, ContractExpire
    <2>3. CASE ~Kind \/ Remembered(j)' = Remembered(j)
      BY <2>1, <2>3, ContractSame
    <2>4. j # k => Remembered(j)' = Remembered(j)
      BY <1>1 DEF Remembered
    <2>5. Kind => Remembered(k) \/ ~Remembered(k)'
      BY <1>1 DEF Remembered
    <2>6. Remembered(k) \in BOOLEAN /\ Remembered(k)' \in BOOLEAN
      BY DEF Remembered
    <2> QED
      BY <2>2, <2>3, <2>4, <2>5, <2>6
  <1>6. EffectsInv'
    <2>1. Kind' => Kind
      BY DEF Kind
    <2> QED
      BY <1>2, <1>3, <1>4, <2>1 DEF EffectsInv
  <1> QED
    BY <1>5, <1>6 DEF KeysStep

\* Only the queue of one tab changes.
LEMMA LetterStep ==
    ASSUME EffectsInv, NEW t \in Tabs, NEW q \in Box, Keeps(t, q),
           holder' \in [Keys -> Tabs \cup {Nobody}],
           \A k \in Keys : holder'[k] # Nobody =>
                holder'[k] = holder[k] /\ (IsOpen(letters[t], k) => IsOpen(q, k)),
           UNCHANGED <<env, record, runs, inFlight, sent, winner, gen>>
    PROVE  EffectsInv' /\ KeysStep
  <1>1. /\ stored' \in Box /\ (\A u \in Tabs : letters'[u] \in Box)
        /\ stored' \in Seq(Letter) /\ letters' \in [Tabs -> Seq(Letter)]
        /\ letters'[t] = q /\ \A u \in Tabs : u # t => letters'[u] = letters[u]
    BY LettersKept
  <1>2. EffectsTypeOK'
    BY <1>1 DEF EffectsInv, EffectsTypeOK
  <1>3. FailureIsShown'
    <2> SUFFICES ASSUME NEW k \in Keys, record[k].status = "failed", holder'[k] # Nobody
                 PROVE  IsOpen(letters'[holder'[k]], k)
      BY DEF FailureIsShown
    <2>1. holder'[k] = holder[k] /\ holder[k] \in Tabs /\ IsOpen(letters[holder[k]], k)
      BY EffectsFacts DEF EffectsInv, FailureIsShown
    <2>2. CASE holder[k] = t
      BY <1>1, <2>1, <2>2
    <2>3. CASE holder[k] # t
      BY <1>1, <2>1, <2>3
    <2> QED
      BY <2>2, <2>3
  <1>4. ASSUME Kind, NEW j \in Keys PROVE KeyKept(j)'
    <2>1. KeyKept(j)
      BY <1>4 DEF EffectsInv
    <2>2. \A c \in Dispatches : OnKey(c, j)' => OnKey(c, j) /\ runs'[c].attempt = runs[c].attempt
      BY DEF OnKey
    <2> QED
      BY <2>1, <2>2, KeptAsItWas
  <1>5. ASSUME NEW j \in Keys PROVE UNCHANGED Contract(j)!contractVars
    <2>1. Waited(j)' = Waited(j) /\ Remembered(j)' = Remembered(j)
      BY DEF Waited, Remembered
    <2> QED
      BY <2>1, ContractSame
  <1>6. EffectsInv'
    <2>1. Kind' => Kind
      BY DEF Kind
    <2>2. \A d \in Dispatches :
            runs'[d].pc = "sleeping" => runs'[d].attempt <= MaxRetries[runs'[d].key]
      BY DEF EffectsInv
    <2> QED
      BY <1>1, <1>2, <1>3, <1>4, <2>1, <2>2 DEF EffectsInv
  <1> QED
    BY <1>5, <1>6 DEF KeysStep

\* One dispatch goes on with record n of what it is doing: a key is being waited for
\* as long as the record says so.
LEMMA RunFacts ==
    ASSUME EffectsInv, NEW d \in Dispatches, NEW n \in Run, runs' = [runs EXCEPT ![d] = n]
    PROVE  /\ runs' \in [Dispatches -> Run] /\ runs'[d] = n
           /\ \A c \in Dispatches : c # d => runs'[c] = runs[c]
  BY DEF EffectsInv, EffectsTypeOK

\* A dispatch under way is the only one of its key.
LEMMA OnlyRun ==
    ASSUME EffectsInv, Kind, NEW d \in Dispatches, runs[d].pc # "idle"
    PROVE  /\ KeyKept(runs[d].key) /\ OnKey(d, runs[d].key)
           /\ \A c \in Dispatches : OnKey(c, runs[d].key) => c = d
           /\ record[runs[d].key] = Written("in_progress") /\ ~Remembered(runs[d].key)
           /\ gen[runs[d].key] < sent[runs[d].key] /\ gen[runs[d].key] + 1 \in Window
           /\ \A c \in Dispatches : runs[c].pc = "running" /\ runs[c].key = runs[d].key => c = d
  <1> DEFINE k == runs[d].key
  <1>1. k \in Keys
    BY EffectsFacts
  <1>2. KeyKept(k)
    BY <1>1 DEF EffectsInv
  <1>3. OnKey(d, k)
    BY DEF OnKey
  <1>4. \A c \in Dispatches : OnKey(c, k) => c = d
    BY <1>2, <1>3 DEF KeyKept
  <1>5. /\ record[k] = Written("in_progress") /\ gen[k] < sent[k]
        /\ sent[k] + MaxRetries[k] + 1 - runs[d].attempt <= env.budget[k]
    BY <1>2, <1>3 DEF KeyKept
  <1>6. ~Remembered(k)
    BY <1>5, WrittenRecord DEF Remembered
  <1>7. gen[k] + 1 \in Window
    <2>1. /\ gen[k] \in Nat /\ sent[k] \in Nat /\ MaxRetries[k] \in Nat /\ MaxSent \in Nat
          /\ env.budget[k] \in 0..MaxSent /\ runs[d].attempt \in Nat
          /\ runs[d].attempt <= MaxRetries[k] + 1
      BY <1>1, EffectsFacts
    <2> HIDE DEF k
    <2>2. sent[k] <= env.budget[k]
      BY <1>5, <2>1
    <2> QED
      BY <1>5, <2>1, <2>2 DEF Window
  <1>8. \A c \in Dispatches : runs[c].pc = "running" /\ runs[c].key = k => c = d
    BY <1>4 DEF OnKey
  <1> QED
    BY <1>2, <1>3, <1>4, <1>5, <1>6, <1>7, <1>8

\* Of the other keys nothing changes with a dispatch.
LEMMA OtherKeys ==
    ASSUME EffectsInv, NEW d \in Dispatches, NEW n \in Run, runs' = [runs EXCEPT ![d] = n],
           env' = env, NEW k \in Keys, runs[d].key # k \/ runs[d].pc = "idle", n.key # k \/ n.pc = "idle",
           record'[k] = record[k], sent'[k] = sent[k], gen'[k] = gen[k], winner'[k] = winner[k]
    PROVE  (Kind => KeyKept(k)') /\ UNCHANGED Contract(k)!contractVars
  <1>1. /\ runs'[d] = n /\ \A c \in Dispatches : c # d => runs'[c] = runs[c]
    BY RunFacts
  <1>2. \A c \in Dispatches : OnKey(c, k)' => OnKey(c, k) /\ runs'[c].attempt = runs[c].attempt
    BY <1>1 DEF OnKey
  <1>3. Waited(k)' = Waited(k)
    BY <1>1 DEF Waited
  <1>4. Remembered(k)' = Remembered(k)
    BY DEF Remembered
  <1>5. Kind => KeyKept(k)
    BY DEF EffectsInv
  <1>6. Kind => KeyKept(k)'
    BY <1>2, <1>5, KeptAsItWas
  <1> QED
    BY <1>3, <1>4, <1>6, ContractSame

\* What a step of one dispatch has to show: its own key.
LEMMA RunStep ==
    ASSUME EffectsInv, NEW d \in Dispatches, NEW n \in Run, runs' = [runs EXCEPT ![d] = n],
           NEW k \in Keys, k = runs[d].key, n.key = k \/ n.pc = "idle",
           n.attempt <= MaxRetries[n.key] + 1,
           n.pc = "sleeping" => n.attempt <= MaxRetries[n.key],
           env' = env, inFlight' \subseteq inFlight, record' \in [Keys -> Record],
           sent' \in [Keys -> Nat], gen' \in [Keys -> Nat], winner' \in [Keys -> [Window -> Nat]],
           \A j \in Keys : j # k => /\ record'[j] = record[j] /\ sent'[j] = sent[j]
                                    /\ gen'[j] = gen[j] /\ winner'[j] = winner[j],
           letters' \in [Tabs -> Seq(Letter)], stored' \in Seq(Letter),
           holder' \in [Keys -> Tabs \cup {Nobody}],
           stored' \in Box, \A t \in Tabs : letters'[t] \in Box, FailureIsShown',
           Kind => KeyKept(k)' /\ (Contract(k)!Next \/ UNCHANGED Contract(k)!contractVars)
    PROVE  EffectsInv' /\ KeysStep
  <1>1. /\ runs' \in [Dispatches -> Run] /\ runs'[d] = n
        /\ \A c \in Dispatches : c # d => runs'[c] = runs[c]
    BY RunFacts
  <1>2. \A c \in Dispatches : runs'[c].attempt <= MaxRetries[runs'[c].key] + 1
    BY <1>1, EffectsFacts
  <1>3. EffectsTypeOK'
    BY <1>1, <1>2 DEF EffectsInv, EffectsTypeOK
  <1>4. \A c \in Dispatches :
            runs'[c].pc = "sleeping" => runs'[c].attempt <= MaxRetries[runs'[c].key]
    BY <1>1 DEF EffectsInv
  <1>5. ASSUME NEW j \in Keys
        PROVE  /\ Kind => KeyKept(j)'
               /\ Contract(j)!Next \/ UNCHANGED Contract(j)!contractVars
    <2>1. CASE j = k /\ Kind
      BY <2>1
    <2>2. CASE ~Kind
      BY <2>2, ContractSame
    <2>3. CASE j # k
      BY <2>3, OtherKeys
    <2> QED
      BY <2>1, <2>2, <2>3
  <1>6. Kind' => Kind
    BY DEF Kind
  <1>7. EffectsInv'
    BY <1>3, <1>4, <1>5, <1>6 DEF EffectsInv
  <1> QED
    BY <1>5, <1>7 DEF KeysStep

\* A failure is shown after one tab has kept another queue.
LEMMA ShownAfter ==
    ASSUME EffectsInv, NEW t \in Tabs, NEW q \in Box, Keeps(t, q), env' = env,
           \A k \in Keys : record'[k].status = "failed" /\ holder'[k] # Nobody =>
                \/ /\ record[k].status = "failed" /\ holder'[k] = holder[k]
                   /\ IsOpen(letters[t], k) => IsOpen(q, k)
                \/ holder'[k] = t /\ IsOpen(q, k)
    PROVE  FailureIsShown'
  <1>1. letters'[t] = q /\ \A u \in Tabs : u # t => letters'[u] = letters[u]
    BY LettersKept
  <1> SUFFICES ASSUME NEW k \in Keys, record'[k].status = "failed", holder'[k] # Nobody
               PROVE  IsOpen(letters'[holder'[k]], k)
    BY DEF FailureIsShown
  <1>2. CASE holder'[k] = t /\ IsOpen(q, k)
    BY <1>1, <1>2
  <1>3. CASE /\ record[k].status = "failed" /\ holder'[k] = holder[k]
             /\ IsOpen(letters[t], k) => IsOpen(q, k)
    <2>1. holder[k] \in Tabs /\ IsOpen(letters[holder[k]], k)
      BY <1>3, EffectsFacts DEF EffectsInv, FailureIsShown
    <2>2. CASE holder[k] = t
      BY <1>1, <1>3, <2>1, <2>2
    <2>3. CASE holder[k] # t
      BY <1>1, <1>3, <2>1, <2>3
    <2> QED
      BY <2>2, <2>3
  <1> QED
    BY <1>2, <1>3

\* Resolving a letter leaves the open ones of the other keys open.
LEMMA Resolved ==
    ASSUME EffectsInv, NEW t \in Tabs, NEW k \in Keys, Resolve(t, k)
    PROVE  /\ \E q \in Box :
                /\ Keeps(t, q)
                /\ \A j \in Keys : j # k /\ IsOpen(letters[t], j) => IsOpen(q, j)
           /\ holder' \in [Keys -> Tabs \cup {Nobody}] /\ holder'[k] = Nobody
           /\ \A j \in Keys : j # k => holder'[j] = holder[j]
  <1> DEFINE e == [key |-> k, resolved |-> TRUE]
             q == Saved(letters[t], e)
  <1>1. e \in Letter /\ e.key = k
    BY DEF Letter
  <1>2. Holds(letters[t], k) /\ Keeps(t, q) /\ holder' = Excused({k})
    BY DEF Resolve
  <1> HIDE DEF e
  <1>3. letters[t] \in Box /\ env.cap \in Nat \ {0}
    BY EffectsFacts DEF EffectsInv
  <1>4. /\ q \in Box
        /\ \A i \in DOMAIN q : q[i] = e \/ \E j \in DOMAIN letters[t] : q[i] = letters[t][j]
        /\ \A j : Holds(letters[t], j) => Holds(q, j)
    BY <1>1, <1>2, <1>3, LetterSaved
  <1> HIDE DEF q
  <1>5. ASSUME NEW j \in Keys, j # k, IsOpen(letters[t], j) PROVE IsOpen(q, j)
    <2>1. Holds(letters[t], j)
      BY <1>5 DEF IsOpen, Holds
    <2> QED
      BY <1>1, <1>3, <1>4, <1>5, <2>1, OpenStays
  <1>6. /\ holder' \in [Keys -> Tabs \cup {Nobody}] /\ holder'[k] = Nobody
        /\ \A j \in Keys : j # k => holder'[j] = holder[j]
    BY <1>2, EffectsFacts DEF Excused
  <1> QED
    BY <1>2, <1>4, <1>5, <1>6

LEMMA RetryStep ==
    ASSUME EffectsInv, NEW d \in Dispatches, Retry(d)
    PROVE  EffectsInv' /\ KeysStep
  <1>1. PICK k \in Keys : k = runs[d].key
    BY EffectsFacts
  <1> DEFINE n == [runs[d] EXCEPT !.pc = "sleeping"]
  <1>2. /\ runs[d].pc = "running" /\ runs[d].attempt <= MaxRetries[k]
        /\ UNCHANGED <<env, record, inFlight, letters, stored, sent, winner, gen, holder>>
    BY <1>1 DEF Retry, HasBudget
  <1>3. runs[d] \in Run /\ k \in Keys /\ runs' = [runs EXCEPT ![d] = n]
    BY <1>1, EffectsFacts DEF Retry, EffectsInv, EffectsTypeOK
  <1>4. n \in Run /\ n.pc = "sleeping" /\ n.key = k /\ n.attempt = runs[d].attempt
    BY <1>1, <1>3 DEF Run
  <1> HIDE DEF n
  <1>5. stored' \in Box /\ (\A t \in Tabs : letters'[t] \in Box) /\ FailureIsShown'
    BY <1>1, <1>2, LettersAlone
  <1>6. n.attempt <= MaxRetries[k] + 1
    BY <1>1, <1>3, <1>4, EffectsFacts
  <1>7. runs'[d] = n /\ \A c \in Dispatches : c # d => runs'[c] = runs[c]
    BY <1>1, <1>3, <1>4, RunFacts
  <1>8. ASSUME Kind PROVE KeyKept(k)' /\ Contract(k)!Next
    <2>1. KeyKept(k) /\ ~Remembered(k)
      BY <1>1, <1>2, <1>8, OnlyRun
    <2>2. \A c \in Dispatches : runs[c].pc = "running" /\ runs[c].key = k => c = d
      BY <1>1, <1>2, <1>8, OnlyRun
    <2>3. \A c \in Dispatches : OnKey(c, k)' => OnKey(c, k) /\ runs'[c].attempt = runs[c].attempt
      BY <1>1, <1>2, <1>4, <1>7 DEF OnKey
    <2>4. KeyKept(k)'
      BY <1>1, <1>2, <1>3, <2>1, <2>3, KeptAsItWas
    <2>5. Waited(k) /\ ~Waited(k)'
      BY <1>1, <1>2, <1>4, <1>7, <2>2 DEF Waited
    <2>6. ~Remembered(k)'
      BY <1>1, <1>2, <2>1 DEF Remembered
    <2> QED
      BY <1>1, <1>2, <1>3, <1>8, <2>1, <2>4, <2>5, <2>6, ContractGiveUp
  <1>9. /\ record' \in [Keys -> Record] /\ sent' \in [Keys -> Nat] /\ gen' \in [Keys -> Nat]
        /\ winner' \in [Keys -> [Window -> Nat]] /\ letters' \in [Tabs -> Seq(Letter)]
        /\ stored' \in Seq(Letter) /\ holder' \in [Keys -> Tabs \cup {Nobody}]
    BY <1>1, <1>2 DEF EffectsInv, EffectsTypeOK
  <1> QED
    BY <1>1, <1>2, <1>3, <1>4, <1>5, <1>6, <1>8, <1>9, RunStep

LEMMA WakeStep ==
    ASSUME EffectsInv, NEW d \in Dispatches, Wake(d)
    PROVE  EffectsInv' /\ KeysStep
  <1>1. PICK k \in Keys : k = runs[d].key
    BY EffectsFacts
  <1> DEFINE m == [runs[d] EXCEPT !.pc = "running"]
             n == [m EXCEPT !.attempt = runs[d].attempt + 1]
  <1>2. /\ runs[d].pc = "sleeping"
        /\ UNCHANGED <<env, record, inFlight, letters, stored, winner, gen, holder>>
        /\ sent' = [sent EXCEPT ![k] = sent[k] + 1]
    BY <1>1 DEF Wake
  <1>3. runs[d] \in Run /\ k \in Keys /\ runs' = [runs EXCEPT ![d] = n]
    BY <1>1, EffectsFacts DEF Wake, EffectsInv, EffectsTypeOK
  <1>4. m \in Run /\ m.pc = "running" /\ m.key = k /\ m.attempt = runs[d].attempt
    BY <1>1, <1>3 DEF Run
  <1> HIDE DEF m
  <1>5. n \in Run /\ n.pc = "running" /\ n.key = k /\ n.attempt = runs[d].attempt + 1
    <2>1. runs[d].attempt + 1 \in Nat
      BY <1>1, EffectsFacts
    <2> QED
      BY <1>1, <1>4, <2>1 DEF Run
  <1> HIDE DEF n
  <1>6. stored' \in Box /\ (\A t \in Tabs : letters'[t] \in Box) /\ FailureIsShown'
    BY <1>1, <1>2, LettersAlone
  <1>7. n.attempt <= MaxRetries[k] + 1
    <2>1. runs[d].attempt <= MaxRetries[k] /\ MaxRetries[k] \in Nat /\ runs[d].attempt \in Nat
      BY <1>1, <1>2, <1>3, EffectsFacts DEF EffectsInv
    <2> QED
      BY <1>1, <1>5, <2>1
  <1>8. runs'[d] = n /\ \A c \in Dispatches : c # d => runs'[c] = runs[c]
    BY <1>1, <1>3, <1>5, RunFacts
  <1>9. /\ record' \in [Keys -> Record] /\ sent' \in [Keys -> Nat] /\ gen' \in [Keys -> Nat]
        /\ winner' \in [Keys -> [Window -> Nat]] /\ letters' \in [Tabs -> Seq(Letter)]
        /\ stored' \in Seq(Letter) /\ holder' \in [Keys -> Tabs \cup {Nobody}]
        /\ sent'[k] = sent[k] + 1 /\ \A j \in Keys : j # k => sent'[j] = sent[j]
    BY <1>1, <1>2, <1>3 DEF EffectsInv, EffectsTypeOK
  <1>10. ASSUME Kind PROVE KeyKept(k)' /\ Contract(k)!Next
    <2>1. KeyKept(k) /\ ~Remembered(k) /\ OnKey(d, k)
      BY <1>1, <1>2, <1>10, OnlyRun
    <2>2. \A c \in Dispatches : OnKey(c, k) => c = d
      BY <1>1, <1>2, <1>10, OnlyRun
    <2>3. \A c \in Dispatches : OnKey(c, k)' => c = d
      BY <1>1, <1>8, <2>2 DEF OnKey
    <2>4. /\ gen[k] \in Nat /\ sent[k] \in Nat /\ MaxRetries[k] \in Nat /\ runs[d].attempt \in Nat
          /\ env.budget[k] \in Int
      BY <1>1, <1>3, EffectsFacts
    <2>5. /\ gen[k] <= sent[k] /\ gen[k] < sent[k] /\ record[k] = Written("in_progress")
          /\ \A w \in Window : w > gen[k] => winner[k][w] = 0
          /\ sent[k] + MaxRetries[k] + 1 - runs[d].attempt <= env.budget[k]
      BY <1>1, <2>1 DEF KeyKept
    <2>6. /\ gen[k] <= sent'[k] /\ gen[k] < sent'[k]
          /\ sent'[k] + MaxRetries[k] + 1 - runs'[d].attempt <= env.budget[k]
      <3>1. runs'[d].attempt = runs[d].attempt + 1 /\ sent'[k] = sent[k] + 1
        BY <1>5, <1>8, <1>9
      <3> QED
        BY <2>4, <2>5, <3>1
    <2>7. KeyKept(k)'
      BY <1>1, <1>2, <2>3, <2>5, <2>6 DEF KeyKept
    <2>8. ~Waited(k) /\ Waited(k)'
      BY <1>1, <1>2, <1>5, <1>8, <2>2 DEF Waited, OnKey
    <2>9. ~Remembered(k)'
      BY <1>1, <1>2, <2>1 DEF Remembered
    <2> QED
      BY <1>1, <1>2, <1>3, <1>10, <1>9, <2>1, <2>4, <2>5, <2>7, <2>8, <2>9, ContractRequest
  <1>11. /\ n.attempt <= MaxRetries[n.key] + 1 /\ n.pc # "sleeping"
        /\ env' = env /\ inFlight' \subseteq inFlight
        /\ \A j \in Keys : j # k => /\ record'[j] = record[j] /\ sent'[j] = sent[j]
                                 /\ gen'[j] = gen[j] /\ winner'[j] = winner[j]
    BY <1>2, <1>5, <1>7, <1>9
  <1> QED
    BY <1>1, <1>3, <1>5, <1>6, <1>10, <1>9, <1>11, RunStep

\* A dispatch that is over keeps its key, and the contract sees it end.
LEMMA EndedKept ==
    ASSUME EffectsInv, NEW d \in Dispatches, Kind, NEW k \in Keys, k = runs[d].key,
           runs[d].pc = "running", runs' = [runs EXCEPT ![d] = NoRun], env' = env,
           sent'[k] = sent[k], gen'[k] \in gen[k]..sent[k],
           \A w \in Window : w > gen'[k] => winner'[k][w] = 0
    PROVE  /\ KeyKept(k)' /\ Waited(k) /\ ~Waited(k)'
           /\ ~Remembered(k) /\ gen[k] \in Nat /\ gen[k] + 1 \in Window
           /\ gen[k] < sent[k] /\ \A w \in Window : w > gen[k] => winner[k][w] = 0
  <1>1. runs'[d] = NoRun /\ \A c \in Dispatches : c # d => runs'[c] = runs[c]
    BY AboutNoRun, RunFacts
  <1>2. /\ KeyKept(k) /\ \A c \in Dispatches : OnKey(c, k) => c = d
    BY OnlyRun
  <1>3. /\ ~Remembered(k) /\ gen[k] < sent[k] /\ gen[k] + 1 \in Window
    BY OnlyRun
  <1>4. \A c \in Dispatches : ~OnKey(c, k)'
    BY <1>1, <1>2, AboutNoRun DEF OnKey
  <1>5. Waited(k) /\ ~Waited(k)'
    BY <1>4 DEF Waited, OnKey
  <1>6. gen[k] \in Nat /\ sent[k] \in Nat
    BY EffectsFacts
  <1>7. gen'[k] <= sent'[k]
    BY <1>6
  <1>8. KeyKept(k)'
    BY <1>4, <1>7 DEF KeyKept
  <1>9. \A w \in Window : w > gen[k] => winner[k][w] = 0
    BY <1>2 DEF KeyKept
  <1> QED
    BY <1>3, <1>5, <1>6, <1>8, <1>9

LEMMA SucceedStep ==
    ASSUME EffectsInv, NEW d \in Dispatches, Succeed(d)
    PROVE  EffectsInv' /\ KeysStep
  <1>1. PICK k \in Keys : k = runs[d].key
    BY EffectsFacts
  <1>2. PICK t \in Tabs : t = TabOf[d]
    BY EffectsFacts
  <1> DEFINE p == Written("succeeded")
             g == gen[k] + 1
  <1>3. /\ runs[d].pc = "running"
        /\ runs' = [runs EXCEPT ![d] = NoRun] /\ inFlight' \subseteq inFlight
        /\ record' = [record EXCEPT ![k] = p]
        /\ ResolveLetter(t, k)
        /\ gen' = [gen EXCEPT ![k] = g]
        /\ winner' = [winner EXCEPT ![k][g] = sent[k]]
        /\ UNCHANGED <<env, sent>>
    BY <1>1, <1>2 DEF Succeed, Settled
  <1>4. p \in Record /\ p.status = "succeeded" /\ ~p.over
    BY WrittenRecord
  <1> HIDE DEF p
  <1>5. gen[k] \in Nat /\ g \in Nat /\ sent[k] \in Nat /\ winner[k] \in [Window -> Nat]
    BY EffectsFacts
  <1> HIDE DEF g
  <1>6. /\ record' \in [Keys -> Record] /\ record'[k] = p
        /\ gen' \in [Keys -> Nat] /\ gen'[k] = g
        /\ winner' \in [Keys -> [Window -> Nat]] /\ winner'[k] = [winner[k] EXCEPT ![g] = sent[k]]
        /\ sent' \in [Keys -> Nat] /\ sent'[k] = sent[k]
        /\ \A j \in Keys : j # k => /\ record'[j] = record[j] /\ sent'[j] = sent[j]
                                    /\ gen'[j] = gen[j] /\ winner'[j] = winner[j]
    BY <1>3, <1>4, <1>5 DEF EffectsInv, EffectsTypeOK
  <1>7. /\ letters' \in [Tabs -> Seq(Letter)] /\ stored' \in Seq(Letter)
        /\ holder' \in [Keys -> Tabs \cup {Nobody}]
        /\ stored' \in Box /\ (\A u \in Tabs : letters'[u] \in Box) /\ FailureIsShown'
    <2>1. CASE Resolve(t, k)
      <3>1. PICK q \in Box : /\ Keeps(t, q)
                             /\ \A j \in Keys : j # k /\ IsOpen(letters[t], j) => IsOpen(q, j)
        BY <2>1, Resolved
      <3>2. /\ holder' \in [Keys -> Tabs \cup {Nobody}] /\ holder'[k] = Nobody
            /\ \A j \in Keys : j # k => holder'[j] = holder[j]
        BY <2>1, Resolved
      <3>3. /\ stored' \in Box /\ (\A u \in Tabs : letters'[u] \in Box)
            /\ stored' \in Seq(Letter) /\ letters' \in [Tabs -> Seq(Letter)]
        BY <1>3, <3>1, LettersKept
      <3>4. FailureIsShown'
        <4>1. \A j \in Keys : record'[j].status = "failed" /\ holder'[j] # Nobody =>
                \/ /\ record[j].status = "failed" /\ holder'[j] = holder[j]
                   /\ IsOpen(letters[t], j) => IsOpen(q, j)
                \/ holder'[j] = t /\ IsOpen(q, j)
          BY <1>6, <3>1, <3>2
        <4> QED
          BY <1>3, <3>1, <4>1, ShownAfter
      <3> QED
        BY <3>2, <3>3, <3>4
    <2>2. CASE UNCHANGED <<letters, stored, holder>>
      <3>1. \A j \in Keys : record'[j].status = "failed" => record[j].status = "failed"
        BY <1>4, <1>6
      <3>2. stored' \in Box /\ (\A u \in Tabs : letters'[u] \in Box) /\ FailureIsShown'
        BY <2>2, <3>1, LettersAlone
      <3> QED
        BY <2>2, <3>2 DEF EffectsInv, EffectsTypeOK
    <2> QED
      BY <1>3, <2>1, <2>2 DEF ResolveLetter
  <1>8. ASSUME Kind PROVE KeyKept(k)' /\ Contract(k)!Next
    <2>1. /\ gen[k] < sent[k] /\ gen[k] + 1 \in Window /\ KeyKept(k)
      BY <1>1, <1>3, <1>8, OnlyRun
    <2>2. gen'[k] \in gen[k]..sent[k] /\ \A w \in Window : w > g => w > gen[k] /\ w # g
      BY <1>5, <1>6, <2>1 DEF g, Window
    <2>3. \A w \in Window : w > gen'[k] => winner'[k][w] = 0
      BY <1>5, <1>6, <2>1, <2>2 DEF KeyKept
    <2>4. /\ runs[d].pc = "running" /\ runs' = [runs EXCEPT ![d] = NoRun] /\ env' = env
          /\ sent'[k] = sent[k] /\ gen'[k] \in gen[k]..sent[k]
      BY <1>3, <2>2
    <2>5. /\ KeyKept(k)' /\ Waited(k) /\ ~Waited(k)' /\ ~Remembered(k)
          /\ \A w \in Window : w > gen[k] => winner[k][w] = 0
      BY ONLY EffectsInv, d \in Dispatches, k \in Keys, <1>1, <1>8, <2>4, <2>3, EndedKept
    <2>6. Remembered(k)'
      BY <1>4, <1>6 DEF Remembered
    <2>7. winner[k][gen[k] + 1] = 0
      BY <1>5, <2>1, <2>5
    <2>8. gen'[k] = gen[k] + 1 /\ winner'[k] = [winner[k] EXCEPT ![gen[k] + 1] = sent[k]]
      BY <1>6 DEF g
    <2> QED
      BY <1>3, <1>5, <1>6, <1>8, <2>1, <2>5, <2>6, <2>7, <2>8, ContractReport
  <1>9. /\ NoRun \in Run /\ NoRun.pc = "idle" /\ NoRun.attempt <= MaxRetries[NoRun.key] + 1
    <2>1. NoRun.key \in Keys
      BY AboutNoRun DEF Run
    <2> QED
      BY <2>1, AboutNoRun, EffectsFacts
  <1>10. /\ runs' = [runs EXCEPT ![d] = NoRun] /\ NoRun.pc # "sleeping"
        /\ env' = env /\ inFlight' \subseteq inFlight
        /\ record' \in [Keys -> Record] /\ winner' \in [Keys -> [Window -> Nat]]
        /\ sent' \in [Keys -> Nat] /\ gen' \in [Keys -> Nat]
        /\ \A j \in Keys : j # k => /\ record'[j] = record[j] /\ sent'[j] = sent[j]
                                    /\ gen'[j] = gen[j] /\ winner'[j] = winner[j]
    BY <1>3, <1>6, <1>9
  <1> QED
    BY <1>1, <1>7, <1>8, <1>9, <1>10, RunStep

LEMMA GiveUpStep ==
    ASSUME EffectsInv, NEW d \in Dispatches, GiveUp(d)
    PROVE  EffectsInv' /\ KeysStep
  <1>1. PICK k \in Keys : k = runs[d].key
    BY EffectsFacts
  <1>2. PICK t \in Tabs : t = TabOf[d]
    BY EffectsFacts
  <1> DEFINE p == Written("failed")
             e == [key |-> k, resolved |-> FALSE]
             q == Saved(letters[t], e)
             lost == {j \in Keys : Holds(letters[t], j) /\ ~Holds(q, j)}
  <1>3. /\ runs[d].pc = "running"
        /\ runs' = [runs EXCEPT ![d] = NoRun] /\ inFlight' \subseteq inFlight
        /\ record' = [record EXCEPT ![k] = p]
        /\ Keeps(t, q)
        /\ holder' = [Excused(lost) EXCEPT ![k] = t]
        /\ UNCHANGED <<env, sent, winner, gen>>
    BY <1>1, <1>2 DEF GiveUp, Settled
  <1>4. p \in Record /\ p.status = "failed" /\ ~p.over
    BY WrittenRecord
  <1> HIDE DEF p
  <1>5. e \in Letter /\ e.key = k /\ ~e.resolved
    BY DEF Letter
  <1> HIDE DEF e
  <1>6. letters[t] \in Box /\ env.cap \in Nat \ {0}
    BY EffectsFacts DEF EffectsInv
  <1>7. /\ q \in Box /\ IsOpen(q, k)
        /\ \A i \in DOMAIN q : q[i] = e \/ \E j \in DOMAIN letters[t] : q[i] = letters[t][j]
    BY <1>5, <1>6, LetterSaved
  <1>8. \A j \in Keys : j \notin lost /\ j # k /\ IsOpen(letters[t], j) => IsOpen(q, j)
    <2> SUFFICES ASSUME NEW j \in Keys, j \notin lost, j # k, IsOpen(letters[t], j)
                 PROVE  IsOpen(q, j)
      OBVIOUS
    <2>1. Holds(letters[t], j)
      BY DEF IsOpen, Holds
    <2>2. Holds(q, j)
      BY <2>1
    <2> HIDE DEF q
    <2> QED
      BY <1>5, <1>6, <1>7, <2>2, OpenStays
  <1> HIDE DEF q, lost
  <1>9. /\ record' \in [Keys -> Record] /\ record'[k] = p
        /\ gen' \in [Keys -> Nat] /\ sent' \in [Keys -> Nat]
        /\ winner' \in [Keys -> [Window -> Nat]]
        /\ \A j \in Keys : j # k => /\ record'[j] = record[j] /\ sent'[j] = sent[j]
                                    /\ gen'[j] = gen[j] /\ winner'[j] = winner[j]
    BY <1>3, <1>4 DEF EffectsInv, EffectsTypeOK
  <1>10. /\ holder' \in [Keys -> Tabs \cup {Nobody}] /\ holder'[k] = t
        /\ \A j \in Keys : j # k => holder'[j] = IF j \in lost THEN Nobody ELSE holder[j]
    BY <1>3, EffectsFacts DEF Excused
  <1>11. /\ stored' \in Box /\ (\A u \in Tabs : letters'[u] \in Box)
        /\ stored' \in Seq(Letter) /\ letters' \in [Tabs -> Seq(Letter)]
    BY <1>3, <1>7, LettersKept
  <1>12. FailureIsShown'
    <2>1. \A j \in Keys : record'[j].status = "failed" /\ holder'[j] # Nobody =>
              \/ /\ record[j].status = "failed" /\ holder'[j] = holder[j]
                 /\ IsOpen(letters[t], j) => IsOpen(q, j)
              \/ holder'[j] = t /\ IsOpen(q, j)
      BY <1>7, <1>8, <1>9, <1>10
    <2> QED
      BY <1>3, <1>7, <2>1, ShownAfter
  <1>13. ASSUME Kind PROVE KeyKept(k)' /\ Contract(k)!Next
    <2>1. /\ gen[k] < sent[k] /\ KeyKept(k) /\ gen[k] \in Nat /\ sent[k] \in Nat
      BY <1>1, <1>3, <1>13, OnlyRun, EffectsFacts
    <2>2. gen'[k] \in gen[k]..sent[k] /\ \A w \in Window : w > gen'[k] => winner'[k][w] = 0
      BY <1>3, <2>1 DEF KeyKept
    <2>3. KeyKept(k)' /\ Waited(k) /\ ~Waited(k)' /\ ~Remembered(k)
      BY <1>1, <1>3, <1>13, <2>2, EndedKept
    <2>4. ~Remembered(k)'
      BY <1>4, <1>9 DEF Remembered
    <2> QED
      BY <1>3, <1>13, <2>3, <2>4, ContractGiveUp
  <1>14. /\ NoRun \in Run /\ NoRun.pc = "idle" /\ NoRun.attempt <= MaxRetries[NoRun.key] + 1
    <2>1. NoRun.key \in Keys
      BY AboutNoRun DEF Run
    <2> QED
      BY <2>1, AboutNoRun, EffectsFacts
  <1>15. /\ runs' = [runs EXCEPT ![d] = NoRun] /\ NoRun.pc # "sleeping"
         /\ env' = env /\ inFlight' \subseteq inFlight
         /\ holder' \in [Keys -> Tabs \cup {Nobody}]
         /\ \A j \in Keys : j # k => /\ record'[j] = record[j] /\ sent'[j] = sent[j]
                                     /\ gen'[j] = gen[j] /\ winner'[j] = winner[j]
    BY <1>3, <1>9, <1>10, <1>14
  <1> QED
    BY <1>1, <1>9, <1>11, <1>12, <1>13, <1>14, <1>15, RunStep

LEMMA GiveUpUnrecordedStep ==
    ASSUME EffectsInv, NEW d \in Dispatches, GiveUpUnrecorded(d)
    PROVE  EffectsInv' /\ KeysStep
  <1>1. PICK k \in Keys : k = runs[d].key
    BY EffectsFacts
  <1>2. /\ ~Kind /\ runs' = [runs EXCEPT ![d] = NoRun] /\ inFlight' \subseteq inFlight
        /\ UNCHANGED <<env, record, letters, stored, sent, winner, gen, holder>>
    BY DEF GiveUpUnrecorded, Settled, Kind
  <1>3. stored' \in Box /\ (\A t \in Tabs : letters'[t] \in Box) /\ FailureIsShown'
    BY <1>2, LettersAlone
  <1>4. /\ NoRun \in Run /\ NoRun.pc = "idle" /\ NoRun.attempt <= MaxRetries[NoRun.key] + 1
    <2>1. NoRun.key \in Keys
      BY AboutNoRun DEF Run
    <2> QED
      BY <2>1, AboutNoRun, EffectsFacts
  <1>5. /\ record' \in [Keys -> Record] /\ sent' \in [Keys -> Nat] /\ gen' \in [Keys -> Nat]
        /\ winner' \in [Keys -> [Window -> Nat]] /\ letters' \in [Tabs -> Seq(Letter)]
        /\ stored' \in Seq(Letter) /\ holder' \in [Keys -> Tabs \cup {Nobody}]
        /\ \A j \in Keys : j # k => /\ record'[j] = record[j] /\ sent'[j] = sent[j]
                                    /\ gen'[j] = gen[j] /\ winner'[j] = winner[j]
    BY <1>2 DEF EffectsInv, EffectsTypeOK
  <1> QED
    BY <1>1, <1>2, <1>3, <1>4, <1>5, RunStep

LEMMA ReloadStep ==
    ASSUME EffectsInv, NEW t \in Tabs, Reload(t)
    PROVE  EffectsInv' /\ KeysStep
  <1>1. /\ runs' = [d \in Dispatches |-> IF TabOf[d] = t THEN NoRun ELSE runs[d]]
        /\ inFlight' \subseteq inFlight
        /\ letters' = [letters EXCEPT ![t] = stored]
        /\ holder' = Excused({k \in Keys : holder[k] = t})
        /\ UNCHANGED <<env, record, stored, sent, winner, gen>>
    BY DEF Reload
  <1>2. \A d \in Dispatches : /\ runs'[d] = NoRun \/ runs'[d] = runs[d]
                              /\ runs'[d] \in Run
    BY <1>1, AboutNoRun, EffectsFacts
  <1>3. NoRun.key \in Keys /\ NoRun.attempt <= MaxRetries[NoRun.key] + 1 /\ NoRun.pc = "idle"
    <2>1. NoRun.key \in Keys
      BY AboutNoRun DEF Run
    <2> QED
      BY <2>1, AboutNoRun, EffectsFacts
  <1>4. /\ \A d \in Dispatches : runs'[d].attempt <= MaxRetries[runs'[d].key] + 1
        /\ \A d \in Dispatches :
            runs'[d].pc = "sleeping" => runs'[d].attempt <= MaxRetries[runs'[d].key]
    BY <1>2, <1>3, EffectsFacts DEF EffectsInv
  <1>5. /\ letters' \in [Tabs -> Seq(Letter)] /\ letters'[t] = stored
        /\ \A u \in Tabs : u # t => letters'[u] = letters[u]
    BY <1>1 DEF EffectsInv, EffectsTypeOK
  <1>6. /\ holder' \in [Keys -> Tabs \cup {Nobody}]
        /\ \A k \in Keys : holder'[k] # Nobody => holder'[k] = holder[k] /\ holder[k] # t
    BY <1>1, EffectsFacts DEF Excused
  <1>7. runs' \in [Dispatches -> Run]
    BY <1>1, <1>2
  <1>8. EffectsTypeOK'
    BY <1>1, <1>4, <1>5, <1>6, <1>7 DEF EffectsInv, EffectsTypeOK
  <1>9. stored' \in Box /\ \A u \in Tabs : letters'[u] \in Box
    BY <1>1, <1>5 DEF EffectsInv
  <1>10. FailureIsShown'
    <2> SUFFICES ASSUME NEW k \in Keys, record[k].status = "failed", holder'[k] # Nobody
                 PROVE  IsOpen(letters'[holder'[k]], k)
      BY <1>1 DEF FailureIsShown
    <2>1. holder[k] \in Tabs /\ IsOpen(letters[holder[k]], k) /\ holder[k] # t /\ holder'[k] = holder[k]
      BY <1>6, EffectsFacts DEF EffectsInv, FailureIsShown
    <2> QED
      BY <1>5, <2>1
  <1>11. ASSUME NEW k \in Keys
         PROVE  /\ Kind => KeyKept(k)'
                /\ Contract(k)!Next \/ UNCHANGED Contract(k)!contractVars
    <2>1. env' = env /\ sent'[k] = sent[k] /\ winner'[k] = winner[k] /\ gen'[k] = gen[k]
      BY <1>1
    <2>2. \A d \in Dispatches : OnKey(d, k)' => OnKey(d, k) /\ runs'[d] = runs[d]
      BY <1>2, <1>3 DEF OnKey
    <2>3. Kind => KeyKept(k)'
      <3>1. Kind => KeyKept(k)
        BY DEF EffectsInv
      <3> QED
        BY <1>1, <2>2, <3>1, KeptAsItWas
    <2>4. Waited(k)' => Waited(k)
      BY <2>2 DEF Waited, OnKey
    <2>5. Remembered(k)' = Remembered(k)
      BY <1>1 DEF Remembered
    <2>6. CASE Kind /\ Waited(k) /\ ~Waited(k)'
      <3>1. PICK d \in Dispatches : runs[d].pc = "running" /\ runs[d].key = k
        BY <2>6 DEF Waited
      <3>2. ~Remembered(k)
        BY <2>6, <3>1, OnlyRun
      <3>3. ~Remembered(k)'
        BY <2>5, <3>2
      <3> QED
        BY ONLY k \in Keys, <2>1, <2>3, <2>6, <3>2, <3>3, ContractGiveUp
    <2>7. CASE ~Kind \/ Waited(k)' = Waited(k)
      BY ONLY k \in Keys, <2>1, <2>3, <2>5, <2>7, ContractSame
    <2>8. Waited(k) \in BOOLEAN /\ Waited(k)' \in BOOLEAN
      BY DEF Waited
    <2> QED
      BY <2>3, <2>4, <2>6, <2>7, <2>8
  <1>12. EffectsInv'
    <2>1. Kind' => Kind
      BY <1>1 DEF Kind
    <2> QED
      BY <1>4, <1>8, <1>9, <1>10, <1>11, <2>1 DEF EffectsInv
  <1> QED
    BY <1>11, <1>12 DEF KeysStep

LEMMA EffectsStarts ==
    ASSUME EffectsInit
    PROVE  EffectsInv /\ \A k \in Keys : Contract(k)!Init
  <1>1. /\ env \in Envs /\ env \in Env
        /\ record = [k \in Keys |-> NoRecord] /\ runs = [d \in Dispatches |-> NoRun]
        /\ inFlight = {} /\ letters = [t \in Tabs |-> <<>>] /\ stored = <<>>
        /\ sent = [k \in Keys |-> 0] /\ winner = [k \in Keys |-> [w \in Window |-> 0]]
        /\ gen = [k \in Keys |-> 0] /\ holder = [k \in Keys |-> Nobody]
    BY SideEffectEnvsAssumption DEF EffectsInit
  <1>2. NoRecord \in Record /\ NoRecord.status = "none"
    BY WrittenRecord DEF NoRecord
  <1>3. NoRun.key \in Keys /\ NoRun.attempt <= MaxRetries[NoRun.key] + 1
    <2>1. NoRun.key \in Keys
      BY AboutNoRun DEF Run
    <2> QED
      BY <2>1, AboutNoRun, SideEffectBoundsAssumption
  <1>4. <<>> \in Box /\ <<>> \in Seq(Letter)
    BY DEF Box, OneLetterEach
  <1>5. \A d \in Dispatches : runs[d] = NoRun
    BY <1>1
  <1>6. record \in [Keys -> Record] /\ runs \in [Dispatches -> Run]
    BY <1>1, <1>2, AboutNoRun
  <1>7. /\ letters \in [Tabs -> Seq(Letter)] /\ stored \in Seq(Letter)
        /\ stored \in Box /\ \A t \in Tabs : letters[t] \in Box
    BY <1>1, <1>4
  <1>8. EffectsTypeOK
    BY <1>1, <1>3, <1>5, <1>6, <1>7 DEF EffectsTypeOK
  <1>9. FailureIsShown
    BY <1>1 DEF FailureIsShown
  <1>10. \A k \in Keys : KeyKept(k)
    BY <1>1, <1>5, AboutNoRun DEF KeyKept, OnKey
  <1>11. EffectsInv
    BY <1>5, <1>7, <1>8, <1>9, <1>10, AboutNoRun DEF EffectsInv
  <1>12. ASSUME NEW k \in Keys PROVE Contract(k)!Init
    <2>1. ~(\E d \in Dispatches : runs[d].pc = "running" /\ runs[d].key = k)
      BY <1>5, AboutNoRun
    <2>2. record[k].status # "succeeded"
      BY <1>1, <1>2
    <2> QED
      BY <1>1, <2>1, <2>2 DEF Contract!Init, Contract!Window, Window
  <1> QED
    BY <1>11, <1>12

\* A key whose record does not say that it is under way has no dispatch.
LEMMA NobodyWorks ==
    ASSUME EffectsInv, Kind, NEW k \in Keys, record[k] # Written("in_progress")
    PROVE  ~Live(k)
  BY DEF EffectsInv, KeyKept, Live

\* What lets dispatch run the handler.
LEMMA RunsAlone ==
    ASSUME EffectsInv, NEW k \in Keys, NEW t \in Tabs, MayRun(t, k)
    PROVE  record[k] # Written("in_progress") /\ ~Remembered(k)
  BY WrittenRecord DEF MayRun, Remembered

\* The records: every step that only writes one.
LEMMA RecordSteps ==
    ASSUME EffectsInv,
           \/ \E t \in Tabs, k \in Keys : RefusePolicy(t, k) \/ ReplayUnrecorded(t, k)
           \/ \E k \in Keys : GoStale(k) \/ Expire(k) \/ Evict(k)
    PROVE  EffectsInv' /\ KeysStep
  <1>1. ASSUME NEW t \in Tabs, NEW k \in Keys, RefusePolicy(t, k)
        PROVE  EffectsInv' /\ KeysStep
    <2> DEFINE v == Written("in_progress")
    <2>1. v \in Record /\ v.status = "in_progress"
      BY WrittenRecord
    <2>2. /\ record' = [record EXCEPT ![k] = v] /\ inFlight' \subseteq inFlight
          /\ UNCHANGED <<env, runs, letters, stored, sent, winner, gen, holder>>
      BY <1>1 DEF RefusePolicy
    <2>3. record[k] # v
      BY <1>1, <2>1, RunsAlone DEF RefusePolicy
    <2>4. Kind => ~Live(k)
      BY <2>3, NobodyWorks
    <2> HIDE DEF v
    <2> QED
      BY <2>1, <2>2, <2>4, RecordStep
  <1>2. ASSUME NEW t \in Tabs, NEW k \in Keys, ReplayUnrecorded(t, k)
        PROVE  EffectsInv' /\ KeysStep
    <2>1. NoRecord \in Record /\ NoRecord.status = "none"
      BY WrittenRecord DEF NoRecord
    <2>2. /\ record' = [record EXCEPT ![k] = NoRecord] /\ inFlight' \subseteq inFlight /\ ~Kind
          /\ UNCHANGED <<env, runs, letters, stored, sent, winner, gen, holder>>
      BY <1>2 DEF ReplayUnrecorded, Kind
    <2> QED
      BY <2>1, <2>2, RecordStep
  <1>3. ASSUME NEW k \in Keys, GoStale(k)
        PROVE  EffectsInv' /\ KeysStep
    <2> DEFINE v == [record[k] EXCEPT !.stale = TRUE]
    <2>1. record[k] \in Record /\ record[k].status = "in_progress"
      BY <1>3, EffectsFacts DEF GoStale
    <2>2. v \in Record /\ v.status = "in_progress"
      BY <2>1 DEF Record
    <2>3. /\ record' = [record EXCEPT ![k] = v] /\ inFlight' \subseteq inFlight
          /\ UNCHANGED <<env, runs, letters, stored, sent, winner, gen, holder>>
          /\ Kind => ~Live(k)
      BY <1>3 DEF GoStale, Pass, Kind
    <2> HIDE DEF v
    <2> QED
      BY <2>2, <2>3, RecordStep
  <1>4. ASSUME NEW k \in Keys, Expire(k)
        PROVE  EffectsInv' /\ KeysStep
    <2> DEFINE v == [record[k] EXCEPT !.over = TRUE]
    <2>1. record[k] \in Record
      BY EffectsFacts
    <2>2. v \in Record /\ v.status = record[k].status /\ v.over
      BY <2>1 DEF Record
    <2>3. /\ record' = [record EXCEPT ![k] = v] /\ inFlight' \subseteq inFlight
          /\ UNCHANGED <<env, runs, letters, stored, sent, winner, gen, holder>>
          /\ Kind => ~Live(k)
      BY <1>4 DEF Expire, Pass, Kind
    <2> HIDE DEF v
    <2> QED
      BY <2>2, <2>3, RecordStep
  <1>5. ASSUME NEW k \in Keys, Evict(k)
        PROVE  EffectsInv' /\ KeysStep
    <2>1. NoRecord \in Record /\ NoRecord.status = "none"
      BY WrittenRecord DEF NoRecord
    <2>2. /\ record' = [record EXCEPT ![k] = NoRecord] /\ inFlight' \subseteq inFlight
          /\ UNCHANGED <<env, runs, letters, stored, sent, winner, gen, holder>>
          /\ record[k].over
      BY <1>5 DEF Evict
    <2>3. record[k] # Written("in_progress")
      BY <2>2, WrittenRecord
    <2>4. Kind => ~Live(k)
      BY <2>3, NobodyWorks
    <2> QED
      BY <2>1, <2>2, <2>4, RecordStep
  <1> QED
    BY <1>1, <1>2, <1>3, <1>4, <1>5

\* The letters: every step that only changes one tab's queue.
LEMMA LetterSteps ==
    ASSUME EffectsInv, NEW t \in Tabs,
           Clear(t) \/ \E k \in Keys : Discard(t, k) \/ ReplayCached(t, k)
    PROVE  EffectsInv' /\ KeysStep
  <1>1. CASE Clear(t)
    <2>1. <<>> \in Box
      BY DEF Box, OneLetterEach
    <2>2. /\ Keeps(t, <<>>) /\ UNCHANGED <<env, record, runs, inFlight, sent, winner, gen>>
          /\ holder' \in [Keys -> Tabs \cup {Nobody}] /\ \A k \in Keys : holder'[k] = Nobody
      BY <1>1 DEF Clear, Excused
    <2> QED
      BY <2>1, <2>2, LetterStep
  <1>2. ASSUME NEW k \in Keys, Discard(t, k)
        PROVE  EffectsInv' /\ KeysStep
    <2> DEFINE q == Dropped(letters[t], k)
    <2>1. letters[t] \in Box
      BY DEF EffectsInv
    <2>2. /\ Keeps(t, q) /\ UNCHANGED <<env, record, runs, inFlight, sent, winner, gen>>
          /\ holder' = Excused({k})
      BY <1>2 DEF Discard
    <2>3. /\ q \in Box
          /\ \A j \in DOMAIN letters[t] :
                letters[t][j].key # k => \E i \in DOMAIN q : q[i] = letters[t][j]
      BY <2>1, LetterDropped
    <2> HIDE DEF q
    <2>4. \A j \in Keys : j # k /\ IsOpen(letters[t], j) => IsOpen(q, j)
      BY <2>3 DEF IsOpen
    <2>5. /\ holder' \in [Keys -> Tabs \cup {Nobody}] /\ holder'[k] = Nobody
          /\ \A j \in Keys : j # k => holder'[j] = holder[j]
      BY <2>2, EffectsFacts DEF Excused
    <2>6. \A j \in Keys : holder'[j] # Nobody =>
            holder'[j] = holder[j] /\ (IsOpen(letters[t], j) => IsOpen(q, j))
      BY <2>4, <2>5
    <2>7. Keeps(t, q) /\ UNCHANGED <<env, record, runs, inFlight, sent, winner, gen>>
      BY <2>2
    <2>8. q \in Box /\ holder' \in [Keys -> Tabs \cup {Nobody}]
      BY <2>3, <2>5
    <2> QED
      BY <2>6, <2>7, <2>8, LetterStep
  <1>3. ASSUME NEW k \in Keys, ReplayCached(t, k)
        PROVE  EffectsInv' /\ KeysStep
    <2>1. Resolve(t, k) /\ UNCHANGED <<env, record, runs, inFlight, sent, winner, gen>>
      BY <1>3 DEF ReplayCached
    <2>2. PICK q \in Box : /\ Keeps(t, q)
                           /\ \A j \in Keys : j # k /\ IsOpen(letters[t], j) => IsOpen(q, j)
      BY <2>1, Resolved
    <2>3. /\ holder' \in [Keys -> Tabs \cup {Nobody}] /\ holder'[k] = Nobody
          /\ \A j \in Keys : j # k => holder'[j] = holder[j]
      BY <2>1, Resolved
    <2>4. \A j \in Keys : holder'[j] # Nobody =>
            holder'[j] = holder[j] /\ (IsOpen(letters[t], j) => IsOpen(q, j))
      BY <2>2, <2>3
    <2>5. Keeps(t, q) /\ UNCHANGED <<env, record, runs, inFlight, sent, winner, gen>>
      BY <2>1, <2>2
    <2>6. holder' \in [Keys -> Tabs \cup {Nobody}]
      BY <2>3
    <2> QED
      BY <2>4, <2>5, <2>6, LetterStep
  <1> QED
    BY <1>1, <1>2, <1>3

LEMMA EffectsKeeps ==
    ASSUME EffectsInv, [EffectsNext]_effectsVars
    PROVE  EffectsInv' /\ [KeysStep]_effectsVars
  <1>1. ASSUME NEW d \in Dispatches, NEW k \in Keys, Dispatch(d, k)
        PROVE  EffectsInv' /\ KeysStep
    <2>1. TabOf[d] \in Tabs
      BY EffectsFacts
    <2>2. record[k] # Written("in_progress") /\ ~Remembered(k)
      BY <1>1, <2>1, RunsAlone DEF Dispatch
    <2> QED
      BY <1>1, <2>2, StartStep DEF Dispatch
  <1>2. ASSUME NEW d \in Dispatches, NEW k \in Keys, Replay(d, k)
        PROVE  EffectsInv' /\ KeysStep
    <2>1. TabOf[d] \in Tabs
      BY EffectsFacts
    <2>2. record[k] # Written("in_progress") /\ ~Remembered(k)
      <3>1. CASE MayRun(TabOf[d], k)
        BY <2>1, <3>1, RunsAlone
      <3>2. CASE Reset(TabOf[d], k).status = "none"
        BY <3>2, WrittenRecord DEF Reset, NoRecord, Remembered
      <3> QED
        BY <1>2, <3>1, <3>2 DEF Replay
    <2>3. Start(d, k) /\ UNCHANGED <<env, letters, stored, winner, gen, holder>>
      BY <1>2 DEF Replay
    <2> QED
      BY <2>2, <2>3, StartStep
  <1>3. ASSUME NEW d \in Dispatches,
               Succeed(d) \/ Retry(d) \/ Wake(d) \/ GiveUp(d) \/ GiveUpUnrecorded(d)
        PROVE  EffectsInv' /\ KeysStep
    BY <1>3, SucceedStep, RetryStep, WakeStep, GiveUpStep, GiveUpUnrecordedStep
  <1>4. ASSUME NEW t \in Tabs, Reload(t)
        PROVE  EffectsInv' /\ KeysStep
    BY <1>4, ReloadStep
  <1>5. ASSUME UNCHANGED effectsVars
        PROVE  EffectsInv'
    BY <1>5 DEF effectsVars, EffectsInv, EffectsTypeOK, FailureIsShown, KeyKept, OnKey, Kind, IsOpen
  <1> QED
    BY <1>1, <1>2, <1>3, <1>4, <1>5, RecordSteps, LetterSteps DEF EffectsNext

\* A terminal failure is never silent, whatever the environment: while its record says
\* failed, the tab that captured it still shows an open letter, unless somebody
\* discarded it, the queue was full, or the tab was reloaded.
THEOREM FailuresAreAlwaysShown == EffectsSpec => []FailureIsShown
  <1>1. EffectsInit => EffectsInv
    BY EffectsStarts
  <1>2. EffectsInv /\ [EffectsNext]_effectsVars => EffectsInv'
    BY EffectsKeeps
  <1>3. EffectsInv => FailureIsShown
    BY DEF EffectsInv
  <1> QED
    BY <1>1, <1>2, <1>3, PTL DEF EffectsSpec

\* While dispatches are quicker than the stale lock and writes succeed, the handler calls
\* under every key keep the contract of an idempotency key, from every tab, retries and
\* replays included.
THEOREM KeysAlwaysKeepContract == EffectsSpec => KeysKeepContract
  <1>1. EffectsInit => EffectsInv /\ \A k \in Keys : Contract(k)!Init
    BY EffectsStarts
  <1>2. EffectsInv /\ [EffectsNext]_effectsVars => EffectsInv' /\ [KeysStep]_effectsVars
    BY EffectsKeeps
  <1>3. EffectsSpec => [][KeysStep]_effectsVars
    BY <1>1, <1>2, PTL DEF EffectsSpec
  <1>4. EffectsSpec => \A k \in Keys : Contract(k)!Init
    BY <1>1 DEF EffectsSpec
  <1> QED
    BY <1>3, <1>4 DEF KeysKeepContract, KeysStep

------------------------------------------------------------------------------
(* EventSync                                                                 *)

\* No transaction has events on both sides of position p.
Edge(p) == \A e, f \in Events : e <= p /\ p < f => TxOf[e] # TxOf[f]

\* A copy of the cursor in ledger l, in environment v.
CopyOK(c, l, v) ==
    /\ c \in Cursor
    /\ c.cursor <= Top(l) /\ c.last <= l
    /\ v.small => Len(c.ids) <= SmallCap

\* A subscription whose worker has the copy c, in ledger l.
SubOK(b, c, l) ==
    /\ b \in Sub
    /\ Edge(b.at)
    /\ b.start <= l
    /\ b.pc = "unused" => b = Unused
    /\ b.pc = "catching" /\ c.cursor = Null /\ c.last = 0 => b.start > 0

\* A subscription at work that is not waiting for the RPC is the current one.
Working(b) == b.pc \notin {"unused", "gone"}
Streaming(b) == b.pc \in {"opening", "open", "waiting"}
SyncBase ==
    /\ setting \in Settings /\ ledger \in 1..MaxLedger
    /\ CopyOK(disk, ledger, setting)
    /\ mem \in [Subs -> Cursor] /\ subs \in [Subs -> Sub]
    /\ \A s \in Subs : CopyOK(mem[s], ledger, setting) /\ SubOK(subs[s], mem[s], ledger)
    /\ current \in 0..MaxSubs
    /\ \A s \in Subs : /\ Streaming(subs[s]) => s = current
                       /\ subs[s].pc = "unused" => s # current
    /\ delivered \subseteq 1..Top(ledger) /\ twice \subseteq Events
    /\ since \in 0..MaxLedger

\* Catch-ups that do not overlap: one subscription is at work, and its copy is not
\* behind the stored one.
Onward(c, d) == c.cursor >= d.cursor /\ c.last >= d.last
Alone ==
    /\ \A s, r \in Subs : Working(subs[s]) /\ Working(subs[r]) => s = r
    /\ \A s \in Subs : Working(subs[s]) => Onward(mem[s], disk)
    /\ ~setting.full => \A s \in Subs : Working(subs[s]) => mem[s] = disk

RpcId(e) == [kind |-> "rpc", of |-> e]
KeyId(e) == [kind |-> "key", of |-> TxOf[e]]

\* What was delivered can be told from the ids, and the stream is past it.
HasIdOf(e, c) == Contains(c.ids, RpcId(e)) \/ Contains(c.ids, KeyId(e))
NoneTwice ==
    /\ twice = {}
    /\ \A e \in delivered : HasIdOf(e, disk)
    /\ \A s \in Subs : subs[s].pc = "open" => delivered \subseteq 1..subs[s].at

\* What a copy of the cursor has passed was delivered, and so was what it has ids of.
Point(c) == IF c.cursor # Null THEN c.cursor ELSE Top(c.last)
Truthful(c, given, from) ==
    /\ \A e \in (1..Point(c)) \ Malformed : LedgerOf[e] >= from => e \in given
    /\ \A e \in Events : Contains(c.ids, RpcId(e)) => e \in given \cup Malformed
    /\ \A e \in Events : Contains(c.ids, KeyId(e)) => e \in given
    /\ c.cursor = Null => c.last = 0
NullOK(b, v) == b.pc = "unused" \/ (~v.resumed /\ b.pc \in {"asking", "catching", "gone"})
NonePassedOver ==
    /\ Truthful(disk, delivered, since)
    /\ \A s \in Subs : Truthful(mem[s], delivered, since)
    /\ disk.cursor = Null => ~setting.resumed
    /\ \A s \in Subs : mem[s].cursor = Null => NullOK(subs[s], setting)

Calm(v) == ~(v.overlap \/ v.lag \/ v.full \/ v.small)
Told(v) == ~v.abrupt /\ (v.resumed \/ ~(v.rpcFails \/ v.bare))
SyncInv ==
    /\ SyncBase
    /\ ~setting.overlap => Alone
    /\ Calm(setting) => NoneTwice
    /\ Told(setting) => NonePassedOver

\* A set of indices that has, with an index, the smaller ones is an interval.
LEMMA Downward ==
    ASSUME NEW n \in Nat, NEW D \in SUBSET (1..n),
           \A e \in D : \A f \in 1..n : f <= e => f \in D
    PROVE  \E m \in 0..n : D = 1..m /\ Cardinality(D) = m
  <1> DEFINE B == {k \in 0..n : D \subseteq 1..k}
             m == Min(B)
  <1>1. n \in B /\ B \in SUBSET Nat
    OBVIOUS
  <1>2. m \in B /\ \A k \in B : m <= k
    <2> HIDE DEF B
    <2> QED
      BY <1>1, LeastIndex
  <1>3. m \in 0..n /\ D \subseteq 1..m
    BY <1>2
  <1>4. m # 0 => m \in D
    <2> SUFFICES ASSUME m # 0, m \notin D PROVE FALSE
      OBVIOUS
    <2>1. \A e \in D : e \in 1..(m - 1)
      BY <1>3
    <2>2. m - 1 \in 0..n
      BY <1>3
    <2>3. m - 1 \in B
      BY <2>1, <2>2
    <2> QED
      BY <1>2, <1>3, <2>3
  <1> HIDE DEF m, B
  <1>5. D = 1..m
    <2> SUFFICES ASSUME NEW f \in 1..m PROVE f \in D
      BY <1>3
    <2>1. m \in D /\ f \in 1..n /\ f <= m
      BY <1>3, <1>4
    <2> QED
      BY <2>1
  <1>6. Cardinality(1..m) = m
    <2>1. Cardinality(1..m) = IF 1 > m THEN 0 ELSE m - 1 + 1
      BY <1>3, FS_Interval
    <2> QED
      BY <1>3, <2>1
  <1> QED
    BY <1>3, <1>5, <1>6

\* The loop of markProcessed over the first n new ids.
IsLoop(g, ids, new, n) ==
    g = [i \in 0..n |-> IF i = 0 THEN ids ELSE Pushed(g[i - 1], new[i])]

LEMMA LoopExists ==
    ASSUME NEW ids, NEW new, NEW N \in Nat
    PROVE  \E g : IsLoop(g, ids, new, N)
  <1> DEFINE B == {n \in Nat : ~\E g : IsLoop(g, ids, new, n)}
             m == Min(B)
  <1> SUFFICES ASSUME B # {} PROVE FALSE
    OBVIOUS
  <1>1. m \in B /\ \A k \in B : m <= k
    <2>1. B \in SUBSET Nat
      OBVIOUS
    <2> HIDE DEF B
    <2> QED
      BY <2>1, LeastIndex
  <1>2. m \in Nat /\ ~\E g : IsLoop(g, ids, new, m)
    BY <1>1
  <1>3. CASE m = 0
    <2> DEFINE g == [i \in 0..0 |-> ids]
    <2>1. g = [i \in 0..0 |-> IF i = 0 THEN ids ELSE Pushed(g[i - 1], new[i])]
      OBVIOUS
    <2> HIDE DEF g
    <2>2. IsLoop(g, ids, new, 0)
      BY <2>1 DEF IsLoop
    <2> QED
      BY <1>2, <1>3, <2>2
  <1>4. CASE m # 0
    <2>1. m - 1 \in Nat /\ m - 1 \notin B
      <3> HIDE DEF m, B
      <3> QED
        BY <1>1, <1>2, <1>4
    <2>2. PICK g : IsLoop(g, ids, new, m - 1)
      BY <2>1
    <2> HIDE DEF m, B
    <2> DEFINE h == [i \in 0..m |-> IF i = m THEN Pushed(g[m - 1], new[m]) ELSE g[i]]
    <2>3. \A i \in 0..(m - 1) : g[i] = IF i = 0 THEN ids ELSE Pushed(g[i - 1], new[i])
      BY <2>2 DEF IsLoop
    <2>4. \A i \in 0..m : h[i] = IF i = 0 THEN ids ELSE Pushed(h[i - 1], new[i])
      <3> SUFFICES ASSUME NEW i \in 0..m
                   PROVE  h[i] = IF i = 0 THEN ids ELSE Pushed(h[i - 1], new[i])
        OBVIOUS
      <3>1. CASE i = 0
        BY <1>2, <1>4, <2>3, <3>1
      <3>2. CASE i # 0
        <4>1. i - 1 \in 0..m /\ i - 1 # m /\ h[i - 1] = g[i - 1]
          BY <1>2, <3>2
        <4>2. i # m => i \in 0..(m - 1) /\ h[i] = g[i]
          BY <1>2, <3>2
        <4>3. i = m => h[i] = Pushed(g[i - 1], new[i])
          OBVIOUS
        <4> HIDE DEF h
        <4> QED
          BY <2>3, <3>2, <4>1, <4>2, <4>3
      <3> QED
        BY <3>1, <3>2
    <2>5. h = [i \in 0..m |-> h[i]]
      OBVIOUS
    <2> HIDE DEF h
    <2>6. h = [i \in 0..m |-> IF i = 0 THEN ids ELSE Pushed(h[i - 1], new[i])]
      BY <2>4, <2>5
    <2>7. IsLoop(h, ids, new, m)
      BY <2>6 DEF IsLoop
    <2> QED
      BY <1>2, <2>7
  <1> QED
    BY <1>3, <1>4

\* What is in the list after the loop: what was there, and the new ids.
LEMMA PushedIn ==
    ASSUME NEW S, NEW ids \in Seq(S), NEW x \in S
    PROVE  /\ Pushed(ids, x) \in Seq(S)
           /\ \A y : Contains(Pushed(ids, x), y) <=> Contains(ids, y) \/ y = x
  <1>1. CASE Contains(ids, x)
    BY <1>1 DEF Pushed, Contains
  <1>2. CASE ~Contains(ids, x)
    <2> DEFINE r == Append(ids, x)
    <2>1. /\ r \in Seq(S) /\ Len(r) = Len(ids) + 1 /\ r[Len(ids) + 1] = x
          /\ \A i \in 1..Len(ids) : r[i] = ids[i]
      BY AppendProperties
    <2>2. Len(ids) \in Nat /\ \A i \in 1..(Len(ids) + 1) : i \in 1..Len(ids) \/ i = Len(ids) + 1
      OBVIOUS
    <2>3. Pushed(ids, x) = r
      BY <1>2 DEF Pushed
    <2> HIDE DEF r
    <2>4. \A y : (\E i \in 1..Len(r) : r[i] = y) <=> (\E i \in 1..Len(ids) : ids[i] = y) \/ y = x
      BY <2>1, <2>2
    <2> QED
      BY <2>1, <2>3, <2>4 DEF Contains
  <1> QED
    BY <1>1, <1>2

LEMMA AllPushedIn ==
    ASSUME NEW S, NEW ids \in Seq(S), NEW new \in Seq(S)
    PROVE  /\ AllPushed(ids, new) \in Seq(S)
           /\ \A y : Contains(AllPushed(ids, new), y) <=> Contains(ids, y) \/ Contains(new, y)
  <1> DEFINE N == Len(new)
             g == CHOOSE h : IsLoop(h, ids, new, N)
  <1>1. AllPushed(ids, new) = g[N]
    BY DEF AllPushed, IsLoop
  <1>2. N \in Nat /\ \A i \in 1..N : new[i] \in S
    OBVIOUS
  <1>3. IsLoop(g, ids, new, N)
    <2> HIDE DEF N
    <2> QED
      BY <1>2, LoopExists
  <1> HIDE DEF g
  <1>4. \A i \in 0..N : g[i] = IF i = 0 THEN ids ELSE Pushed(g[i - 1], new[i])
    <2> HIDE DEF N
    <2> QED
      BY <1>3 DEF IsLoop
  <1> DEFINE Good(n) == /\ g[n] \in Seq(S)
                        /\ \A y : Contains(g[n], y) <=> Contains(ids, y) \/ \E i \in 1..n : new[i] = y
             B == {n \in 0..N : ~Good(n)}
             m == Min(B)
  <1>5. B = {}
    <2> SUFFICES ASSUME B # {} PROVE FALSE
      OBVIOUS
    <2>1. m \in B /\ \A k \in B : m <= k
      <3>1. B \in SUBSET Nat
        OBVIOUS
      <3> HIDE DEF B
      <3> QED
        BY <3>1, LeastIndex
    <2>2. m \in 0..N /\ ~Good(m)
      BY <2>1
    <2>3. CASE m = 0
      <3>1. g[0] = ids
        BY <1>2, <1>4
      <3>2. Good(0)
        BY <3>1
      <3> QED
        BY <2>2, <2>3, <3>2
    <2>4. CASE m # 0
      <3>1. m - 1 \in 0..N /\ m - 1 \notin B /\ m \in 1..N
        <4> HIDE DEF m, B, N
        <4> QED
          BY <1>2, <2>1, <2>2, <2>4
      <3>2. Good(m - 1)
        BY <3>1
      <3>3. g[m] = Pushed(g[m - 1], new[m]) /\ new[m] \in S
        BY <1>2, <1>4, <2>4, <3>1
      <3>4. \A i \in Nat : i \in 1..m <=> i \in 1..(m - 1) \/ i = m
        BY <3>1
      <3> HIDE DEF m, B, N
      <3>5. /\ g[m] \in Seq(S)
            /\ \A y : Contains(g[m], y) <=> Contains(g[m - 1], y) \/ y = new[m]
        <4>1. g[m - 1] \in Seq(S)
          BY <3>2
        <4>2. PICK a \in Seq(S) : a = g[m - 1]
          BY <4>1
        <4>3. PICK x \in S : x = new[m]
          BY <3>3
        <4>4. /\ Pushed(a, x) \in Seq(S)
              /\ \A y : Contains(Pushed(a, x), y) <=> Contains(a, y) \/ y = x
          BY PushedIn
        <4>5. g[m] = Pushed(a, x)
          BY <3>3, <4>2, <4>3
        <4> QED
          BY <4>2, <4>3, <4>4, <4>5
      <3>6. \A y : (\E i \in 1..m : new[i] = y) <=> (\E i \in 1..(m - 1) : new[i] = y) \/ y = new[m]
        BY <3>1, <3>4
      <3>7. Good(m)
        BY <3>2, <3>5, <3>6
      <3> QED
        BY <2>2, <3>7
    <2> QED
      BY <2>3, <2>4
  <1>6. Good(N)
    <2>1. N \in 0..N
      BY <1>2
    <2>2. \A n \in 0..N : Good(n)
      BY <1>5
    <2> HIDE DEF Good
    <2> QED
      BY <2>1, <2>2
  <1> QED
    BY <1>1, <1>6 DEF Contains

LEMMA Remembers ==
    ASSUME NEW ids \in Seq(Id), NEW new \in Seq(Id), NEW r, r = Remember(ids, new),
           SmallCap \in Nat, setting.small \in BOOLEAN
    PROVE  /\ r \in Seq(Id)
           /\ \A y : Contains(r, y) => Contains(ids, y) \/ Contains(new, y)
           /\ setting.small => Len(r) <= SmallCap
           /\ ~setting.small => \A y : Contains(ids, y) \/ Contains(new, y) => Contains(r, y)
  <1> DEFINE all == AllPushed(ids, new)
             over == IF setting.small /\ Len(all) > SmallCap THEN Len(all) - SmallCap ELSE 0
  <1>1. /\ all \in Seq(Id)
        /\ \A y : Contains(all, y) <=> Contains(ids, y) \/ Contains(new, y)
    BY AllPushedIn
  <1>2. r = SubSeq(all, over + 1, Len(all))
    BY DEF Remember
  <1> HIDE DEF all
  <1>3. Len(all) \in Nat /\ over \in 0..Len(all)
    BY <1>1
  <1>4. /\ setting.small => Len(all) - over <= SmallCap
        /\ ~setting.small => over = 0
    BY <1>3
  <1> HIDE DEF over
  <1>5. /\ r \in Seq(Id) /\ Len(r) = Len(all) - over
        /\ \A i \in 1..(Len(all) - over) : r[i] = all[over + i]
    BY <1>1, <1>2, <1>3
  <1>6. \A i \in 1..(Len(all) - over) : over + i \in 1..Len(all)
    BY <1>3
  <1>7. \A y : Contains(r, y) => Contains(all, y)
    BY <1>5, <1>6 DEF Contains
  <1>8. ~setting.small => \A y : Contains(all, y) => Contains(r, y)
    <2> SUFFICES ASSUME over = 0 PROVE \A y : Contains(all, y) => Contains(r, y)
      BY <1>4
    <2>1. Len(r) = Len(all) /\ \A i \in 1..Len(all) : r[i] = all[i]
      BY <1>3, <1>5
    <2> QED
      BY <2>1 DEF Contains
  <1> QED
    BY <1>1, <1>4, <1>5, <1>7, <1>8

\* The events up to ledger l are those up to Top(l).
LEMMA EventsTyped ==
    /\ Len(LedgerOf) \in Nat /\ Events = 1..Len(LedgerOf)
    /\ \A e \in Events : LedgerOf[e] \in 1..MaxLedger /\ TxOf[e] \in Nat
    /\ \A e, f \in Events : e <= f => LedgerOf[e] <= LedgerOf[f] /\ TxOf[e] <= TxOf[f]
    /\ \A e, f \in Events : TxOf[e] = TxOf[f] => LedgerOf[e] = LedgerOf[f]
    /\ MaxLedger \in Nat \ {0, 1} /\ SmallCap \in Nat \ {0} /\ PageSize \in Nat \ {0}
    /\ MaxPages \in Nat \ {0} /\ MaxAttempts \in Nat /\ MaxSubs \in Nat
  BY SyncEventsAssumption, SyncBoundsAssumption DEF Events

LEMMA TopIs ==
    ASSUME NEW l \in Int
    PROVE  /\ Top(l) \in 0..Len(LedgerOf)
           /\ \A e \in Events : e <= Top(l) <=> LedgerOf[e] <= l
           /\ Edge(Top(l))
  <1> DEFINE n == Len(LedgerOf)
             D == {e \in Events : LedgerOf[e] <= l}
  <1>1. /\ n \in Nat /\ D \in SUBSET (1..n) /\ Events = 1..n
        /\ \A e \in D : \A f \in 1..n : f <= e => f \in D
    BY EventsTyped
  <1> HIDE DEF n
  <1>2. PICK m \in 0..n : D = 1..m /\ Cardinality(D) = m
    <2> HIDE DEF D
    <2> QED
      BY <1>1, Downward
  <1>3. Top(l) = m
    BY <1>2 DEF Top
  <1>4. \A e \in Events : e <= m <=> LedgerOf[e] <= l
    BY <1>1, <1>2
  <1>5. Edge(m)
    <2> SUFFICES ASSUME NEW e \in Events, NEW f \in Events, e <= m, m < f, TxOf[e] = TxOf[f]
                 PROVE  FALSE
      BY DEF Edge
    <2>1. LedgerOf[e] = LedgerOf[f] /\ LedgerOf[e] \in Int
      BY EventsTyped
    <2>2. LedgerOf[f] <= l
      BY <1>4, <2>1
    <2>3. f <= m
      BY <1>4, <2>2
    <2> QED
      BY <1>1, <2>3
  <1> QED
    BY <1>2, <1>3, <1>4, <1>5 DEF n

LEMMA TopNat == \A l \in Int : Top(l) \in Nat
  <1>1. \A l \in Int : Top(l) \in 0..Len(LedgerOf)
    BY TopIs
  <1>2. Len(LedgerOf) \in Nat
    BY EventsTyped
  <1> QED
    BY <1>1, <1>2

LEMMA TopGrows ==
    ASSUME NEW l \in Int, NEW m \in Int, l <= m
    PROVE  Top(l) <= Top(m)
  <1>1. /\ Top(l) \in 0..Len(LedgerOf) /\ Top(m) \in 0..Len(LedgerOf)
        /\ \A e \in Events : e <= Top(l) <=> LedgerOf[e] <= l
        /\ \A e \in Events : e <= Top(m) <=> LedgerOf[e] <= m
    BY TopIs
  <1>2. CASE Top(l) = 0
    BY <1>1, <1>2
  <1>3. CASE Top(l) # 0
    <2>1. Top(l) \in Events /\ Top(l) <= Top(l)
      BY <1>1, <1>3, EventsTyped
    <2>2. LedgerOf[Top(l)] <= l /\ LedgerOf[Top(l)] \in Int
      BY <1>1, <2>1, EventsTyped
    <2>3. LedgerOf[Top(l)] <= m
      BY <2>2
    <2> QED
      BY <1>1, <2>1, <2>3
  <1> QED
    BY <1>2, <1>3

LEMMA TopZero == Top(0) = 0 /\ \A l \in Int : l <= 0 => Top(l) = 0
  <1> SUFFICES ASSUME NEW l \in Int, l <= 0 PROVE Top(l) = 0
    OBVIOUS
  <1>1. /\ Top(l) \in 0..Len(LedgerOf)
        /\ \A e \in Events : e <= Top(l) <=> LedgerOf[e] <= l
    BY TopIs
  <1>2. CASE Top(l) # 0
    <2>1. Top(l) \in Events /\ Top(l) <= Top(l)
      BY <1>1, <1>2, EventsTyped
    <2>2. LedgerOf[Top(l)] <= l /\ LedgerOf[Top(l)] \in 1..MaxLedger
      BY <1>1, <2>1, EventsTyped
    <2> QED
      BY <2>2, EventsTyped
  <1> QED
    BY <1>2

\* The events of the transaction that begins after p.
LEMMA TxIs ==
    ASSUME NEW p \in Nat, p + 1 \in Events, Edge(p)
    PROVE  \E m \in Events :
            /\ m > p /\ OfTx(p + 1) = (p + 1)..m /\ Cardinality(OfTx(p + 1)) = m - p
            /\ Edge(m) /\ TxOf[m] = TxOf[p + 1] /\ LedgerOf[m] = LedgerOf[p + 1]
  <1> DEFINE n == Len(LedgerOf)
             e == p + 1
             D == {f \in Events : TxOf[f] <= TxOf[e]}
  <1>1. /\ n \in Nat /\ D \in SUBSET (1..n) /\ Events = 1..n /\ e \in 1..n
        /\ \A f \in D : \A g \in 1..n : g <= f => g \in D
    BY EventsTyped
  <1> HIDE DEF n
  <1>2. PICK m \in 0..n : D = 1..m
    <2> HIDE DEF D
    <2> QED
      BY <1>1, Downward
  <1>3. \A f \in Events : TxOf[f] \in Int
    BY EventsTyped
  <1>4. \A f \in Events : f <= m <=> TxOf[f] <= TxOf[e]
    BY <1>1, <1>2
  <1>5. m \in Events /\ e <= m
    BY <1>1, <1>2, <1>3, <1>4
  <1>6. \A f \in Events : e <= f /\ f <= m => TxOf[f] = TxOf[e]
    BY <1>1, <1>3, <1>4, EventsTyped
  <1>7. \A f \in Events : TxOf[f] = TxOf[e] => e <= f /\ f <= m
    <2> SUFFICES ASSUME NEW f \in Events, TxOf[f] = TxOf[e] PROVE e <= f /\ f <= m
      OBVIOUS
    <2>1. f <= m
      BY <1>1, <1>3, <1>4
    <2>2. ~(f <= p /\ p < e)
      BY <1>1 DEF Edge
    <2> QED
      BY <1>1, <2>1, <2>2
  <1>8. OfTx(e) = e..m
    BY <1>1, <1>5, <1>6, <1>7 DEF OfTx
  <1>9. Edge(m)
    <2> SUFFICES ASSUME NEW f \in Events, NEW g \in Events, f <= m, m < g, TxOf[f] = TxOf[g]
                 PROVE  FALSE
      BY DEF Edge
    <2>1. TxOf[g] <= TxOf[e]
      BY <1>4
    <2>2. g <= m
      BY <1>4, <2>1
    <2> QED
      BY <1>1, <2>2
  <1>10. Cardinality(e..m) = m - p
    <2>1. Cardinality(e..m) = IF e > m THEN 0 ELSE m - e + 1
      BY <1>1, <1>2, FS_Interval
    <2> QED
      BY <1>1, <1>5, <2>1
  <1>11. TxOf[m] = TxOf[e] /\ LedgerOf[m] = LedgerOf[e] /\ m > p
    BY <1>1, <1>5, <1>6, EventsTyped
  <1> QED
    BY <1>5, <1>8, <1>9, <1>10, <1>11

\* A page: the next events after From(s), none only if there are none.
LEMMA PageIs ==
    ASSUME NEW s \in Subs, From(s) \in Nat, ledger \in Nat
    PROVE  \E n \in 0..PageSize :
            /\ Page(s) = (From(s) + 1)..(From(s) + n) /\ Cardinality(Page(s)) = n
            /\ n = 0 <=> Top(ledger) <= From(s)
            /\ n # 0 => From(s) + n <= Top(ledger)
  <1> DEFINE f == From(s)
             t == Top(ledger)
             n == IF t <= f THEN 0 ELSE IF f + PageSize < t THEN PageSize ELSE t - f
             l == Least(f + PageSize, t)
  <1>1. f \in Nat /\ t \in Nat /\ PageSize \in Nat \ {0}
    BY TopIs, EventsTyped
  <1>2. Page(s) = (f + 1)..l /\ l = IF f + PageSize < t THEN f + PageSize ELSE t
    BY DEF Page, Least
  <1> HIDE DEF f, t, l
  <1>3. n \in 0..PageSize /\ (n = 0 <=> t <= f) /\ (n # 0 => f + n <= t)
    BY <1>1
  <1>4. (f + 1)..l = (f + 1)..(f + n)
    BY <1>1, <1>2
  <1> HIDE DEF n
  <1>5. Cardinality((f + 1)..(f + n)) = n
    <2>1. Cardinality((f + 1)..(f + n)) = IF f + 1 > f + n THEN 0 ELSE f + n - (f + 1) + 1
      BY <1>1, <1>3, FS_Interval
    <2> QED
      BY <1>1, <1>3, <2>1
  <1> QED
    BY <1>2, <1>3, <1>4, <1>5 DEF f, t

\* The types, one by one.
LEMMA SyncFacts ==
    ASSUME SyncBase
    PROVE  /\ setting.small \in BOOLEAN /\ ledger \in Nat /\ ledger \in 1..MaxLedger
           /\ disk \in Cursor /\ disk.cursor \in {Null} \cup Nat /\ disk.last \in Nat
           /\ disk.ids \in Seq(Id) /\ since \in Nat
           /\ \A s \in Subs :
                /\ mem[s] \in Cursor /\ mem[s].cursor \in {Null} \cup Nat
                /\ mem[s].last \in Nat /\ mem[s].ids \in Seq(Id)
                /\ subs[s] \in Sub /\ subs[s].start \in Nat /\ subs[s].at \in 0..Len(LedgerOf)
                /\ subs[s].pages \in 0..(MaxPages - 1) /\ subs[s].attempts \in 0..MaxAttempts
                /\ subs[s].pc \in {"unused", "asking", "catching", "opening", "open", "waiting", "gone"}
  <1>1. setting \in Setting
    BY SyncBoundsAssumption DEF SyncBase
  <1>2. setting.small \in BOOLEAN
    BY <1>1 DEF Setting
  <1>3. ledger \in 1..MaxLedger /\ ledger \in Nat /\ since \in Nat
    BY EventsTyped DEF SyncBase
  <1>4. \A c \in Cursor : c.cursor \in {Null} \cup Nat /\ c.last \in Nat /\ c.ids \in Seq(Id)
    BY DEF Cursor
  <1>5. disk \in Cursor /\ \A s \in Subs : mem[s] \in Cursor /\ subs[s] \in Sub
    BY DEF SyncBase, CopyOK
  <1>6. \A b \in Sub :
            /\ b.start \in Nat /\ b.at \in 0..Len(LedgerOf)
            /\ b.pages \in 0..(MaxPages - 1) /\ b.attempts \in 0..MaxAttempts
            /\ b.pc \in {"unused", "asking", "catching", "opening", "open", "waiting", "gone"}
    BY EventsTyped DEF Sub
  <1> QED
    BY <1>2, <1>3, <1>4, <1>5, <1>6

\* Where a page begins, and the cursor that comes with it.
LEMMA PageRead ==
    ASSUME SyncBase, NEW s \in Subs
    PROVE  \E n \in 0..PageSize :
            /\ From(s) \in Nat /\ Page(s) = (From(s) + 1)..(From(s) + n)
            /\ Cardinality(Page(s)) = n /\ From(s) + n <= Top(ledger)
            /\ Reported(s) = IF n = 0 /\ setting.bare THEN Null ELSE From(s) + n
  <1>1. /\ mem[s].cursor \in {Null} \cup Nat /\ mem[s].last \in Nat /\ subs[s].start \in Nat
        /\ ledger \in Nat
    BY SyncFacts
  <1>2. mem[s].cursor <= Top(ledger) /\ mem[s].last <= ledger /\ subs[s].start <= ledger
    BY DEF SyncBase, CopyOK, SubOK
  <1>3. Top(ledger) \in Nat
    BY <1>1, TopIs
  <1>4. /\ Top(mem[s].last) \in Nat /\ Top(mem[s].last) <= Top(ledger)
        /\ Top(subs[s].start - 1) \in Nat /\ Top(subs[s].start - 1) <= Top(ledger)
    <2>1. /\ mem[s].last \in Int /\ subs[s].start - 1 \in Int /\ ledger \in Int
          /\ mem[s].last <= ledger /\ subs[s].start - 1 <= ledger
      BY <1>1, <1>2
    <2>2. \A l \in Int : Top(l) \in Nat
      BY TopNat
    <2>3. PICK k \in Int : k = ledger
      BY <2>1
    <2>4. \A l \in Int : l <= k => Top(l) <= Top(k)
      BY TopGrows
    <2> QED
      BY <2>1, <2>2, <2>3, <2>4
  <1>5. From(s) \in Nat /\ From(s) <= Top(ledger)
    BY <1>1, <1>2, <1>3, <1>4 DEF From, Null
  <1>6. PICK n \in 0..PageSize :
            /\ Page(s) = (From(s) + 1)..(From(s) + n) /\ Cardinality(Page(s)) = n
            /\ n = 0 <=> Top(ledger) <= From(s)
            /\ n # 0 => From(s) + n <= Top(ledger)
    BY <1>1, <1>5, PageIs
  <1>7. From(s) + n <= Top(ledger) /\ (n = 0 => From(s) + n = Top(ledger)) /\ n \in Nat
    BY <1>3, <1>5, <1>6, EventsTyped
  <1>8. Page(s) = {} <=> n = 0
    BY <1>5, <1>6, <1>7
  <1>9. Reported(s) = IF n = 0 /\ setting.bare THEN Null ELSE From(s) + n
    BY <1>6, <1>7, <1>8 DEF Reported
  <1> QED
    BY <1>5, <1>6, <1>7, <1>9

\* A copy of the cursor that is moved on.
LEMMA AdvancedIs ==
    ASSUME NEW c \in Cursor, NEW r \in Seq(Id), NEW p \in {Null} \cup Nat, NEW l \in Nat,
           NEW d, d = Advanced([c EXCEPT !.ids = r], p, l)
    PROVE  /\ d \in Cursor /\ d.ids = r
           /\ d.cursor = IF p = Null THEN c.cursor ELSE p
           /\ d.last = IF l > c.last THEN l ELSE c.last
  BY DEF Advanced, Cursor

\* The ids of a page and of a transaction.
LEMMA PageIdsAre ==
    ASSUME SyncBase, NEW s \in Subs
    PROVE  /\ PageIds(s) \in Seq(Id)
           /\ \A e \in Events : Contains(PageIds(s), RpcId(e)) <=> e \in Page(s)
           /\ \A e \in Events : ~Contains(PageIds(s), KeyId(e))
  <1>1. PICK n \in 0..PageSize :
            /\ From(s) \in Nat /\ Page(s) = (From(s) + 1)..(From(s) + n)
            /\ Cardinality(Page(s)) = n
    BY PageRead
  <1>2. n \in Nat /\ Events \subseteq Nat
    BY EventsTyped
  <1> DEFINE ids == PageIds(s)
             f == From(s)
  <1>3. ids = [i \in 1..n |-> RpcId(f + i)]
    BY <1>1 DEF PageIds, RpcId
  <1> HIDE DEF ids, f
  <1>4. \A i \in Nat : RpcId(i) \in Id
    BY DEF RpcId, Id
  <1>5. ids \in [1..n -> Id]
    BY <1>1, <1>2, <1>3, <1>4 DEF f
  <1>6. ids \in Seq(Id) /\ Len(ids) = n /\ \A i \in 1..n : ids[i] = RpcId(f + i)
    BY <1>2, <1>3, <1>5
  <1>7. \A e \in Events : (\E i \in 1..n : ids[i] = RpcId(e)) <=> e \in (f + 1)..(f + n)
    <2> SUFFICES ASSUME NEW e \in Events
                 PROVE  (\E i \in 1..n : RpcId(f + i) = RpcId(e)) <=> e \in (f + 1)..(f + n)
      BY <1>6
    <2>1. \A i \in 1..n : RpcId(f + i) = RpcId(e) <=> f + i = e
      BY DEF RpcId
    <2>2. e \in (f + 1)..(f + n) => e - f \in 1..n /\ f + (e - f) = e
      BY <1>1, <1>2 DEF f
    <2>3. \A i \in 1..n : f + i \in (f + 1)..(f + n)
      BY <1>1, <1>2 DEF f
    <2> QED
      BY <2>1, <2>2, <2>3
  <1>8. \A e \in Events : \A i \in 1..n : ids[i] # KeyId(e)
    BY <1>6 DEF RpcId, KeyId
  <1>9. ids \in Seq(Id) /\ \A y : Contains(ids, y) <=> \E i \in 1..n : ids[i] = y
    BY <1>6 DEF Contains
  <1> QED
    BY <1>1, <1>7, <1>8, <1>9 DEF ids, f

LEMMA TxIdsAre ==
    ASSUME NEW e \in Events, NEW n \in Nat, Cardinality(OfTx(e)) = n
    PROVE  /\ TxIds(e) \in Seq(Id) /\ Contains(TxIds(e), KeyId(e))
           /\ \A f \in Events : ~Contains(TxIds(e), RpcId(f))
           /\ \A f \in Events : Contains(TxIds(e), KeyId(f)) => TxOf[f] = TxOf[e]
  <1> DEFINE a == <<KeyId(e)>>
             b == [i \in 1..n |-> [kind |-> "live", of |-> e + i - 1]]
             ids == TxIds(e)
  <1>1. ids = a \o b
    BY DEF TxIds, KeyId
  <1>2. e \in Nat /\ e >= 1 /\ TxOf[e] \in Nat
    BY EventsTyped
  <1>3. KeyId(e) \in Id
    BY <1>2 DEF KeyId, Id
  <1>4. a \in Seq(Id) /\ Len(a) = 1 /\ a[1] = KeyId(e)
    BY <1>3
  <1>5. \A i \in 1..n : [kind |-> "live", of |-> e + i - 1] \in Id
    BY <1>2 DEF Id
  <1>6. b \in Seq(Id) /\ Len(b) = n /\ \A i \in 1..n : b[i].kind = "live"
    BY <1>5
  <1> HIDE DEF a, b, ids
  <1>7. /\ ids \in Seq(Id) /\ Len(ids) = 1 + n
        /\ \A i \in 1..(1 + n) : ids[i] = IF i <= 1 THEN a[i] ELSE b[i - 1]
    <2>1. /\ a \o b \in Seq(Id) /\ Len(a \o b) = Len(a) + Len(b)
          /\ \A i \in 1..(Len(a) + Len(b)) :
                (a \o b)[i] = IF i <= Len(a) THEN a[i] ELSE b[i - Len(a)]
      BY <1>4, <1>6, ConcatProperties
    <2> QED
      BY <1>1, <1>4, <1>6, <2>1
  <1>8. ids[1] = KeyId(e) /\ 1 \in 1..(1 + n)
    BY <1>4, <1>7
  <1>9. \A i \in 1..(1 + n) : i # 1 => i - 1 \in 1..n /\ ids[i] = b[i - 1]
    BY <1>7
  <1>10. \A i \in 1..(1 + n) : ids[i] = KeyId(e) \/ ids[i].kind = "live"
    BY <1>6, <1>8, <1>9
  <1>11. \A f \in Events : RpcId(f) # KeyId(e) /\ RpcId(f).kind # "live" /\ KeyId(f).kind # "live"
    BY DEF RpcId, KeyId
  <1>12. \A f \in Events : KeyId(f) = KeyId(e) => TxOf[f] = TxOf[e]
    BY DEF KeyId
  <1>13. \A y : Contains(ids, y) <=> \E i \in 1..(1 + n) : ids[i] = y
    BY <1>7 DEF Contains
  <1> QED
    BY <1>7, <1>8, <1>10, <1>11, <1>12, <1>13 DEF ids

\* What a copy has passed, and how its claims outlast later ledgers and deliveries.
LEMMA PointIs ==
    ASSUME NEW l \in Nat, NEW v, NEW c, CopyOK(c, l, v)
    PROVE  /\ Point(c) \in Nat /\ Point(c) <= Top(l)
           /\ \A e \in 1..Point(c) : e \in Events /\ LedgerOf[e] \in Nat
  <1>1. c.cursor \in {Null} \cup Nat /\ c.last \in Nat
    BY DEF CopyOK, Cursor
  <1>2. c.cursor <= Top(l) /\ c.last <= l
    BY DEF CopyOK
  <1>3. Top(c.last) \in Nat /\ Top(c.last) <= Top(l)
    <2>1. \A k \in Int : Top(k) \in Nat
      BY TopNat
    <2>2. \A k \in Int : k <= l => Top(k) <= Top(l)
      BY TopGrows
    <2> QED
      BY <1>1, <1>2, <2>1, <2>2
  <1>4. Point(c) \in Nat /\ Point(c) <= Top(l)
    BY <1>1, <1>2, <1>3 DEF Point
  <1>5. Top(l) \in 0..Len(LedgerOf) /\ Len(LedgerOf) \in Nat
    BY TopIs, EventsTyped
  <1>6. \A e \in 1..Point(c) : e \in 1..Len(LedgerOf)
    BY <1>4, <1>5
  <1> QED
    BY <1>4, <1>6, EventsTyped

LEMMA TruthfulStays ==
    ASSUME NEW l \in Nat, NEW v, NEW c, CopyOK(c, l, v),
           NEW d, NEW D, d \subseteq D, NEW n \in Nat, NEW m \in Nat, n <= m, Truthful(c, d, n)
    PROVE  Truthful(c, D, m)
  <1>1. \A e \in 1..Point(c) : e \in Events /\ LedgerOf[e] \in Nat
    BY PointIs
  <1>2. \A e \in (1..Point(c)) \ Malformed : LedgerOf[e] >= m => e \in D
    BY <1>1 DEF Truthful
  <1> QED
    BY <1>2 DEF Truthful

LEMMA CopyLater ==
    ASSUME NEW l \in Nat, NEW m \in Nat, l <= m, NEW v, NEW c, CopyOK(c, l, v)
    PROVE  CopyOK(c, m, v)
  <1>1. Top(l) <= Top(m) /\ Top(l) \in Int /\ Top(m) \in Int
    BY TopIs, TopGrows
  <1>2. c.cursor \in Int /\ c.last \in Int
    BY DEF CopyOK, Cursor, Null
  <1> QED
    BY <1>1, <1>2 DEF CopyOK

\* A subscription that stays as it is, or is gone.
OrGone(b, c) == c = b \/ (b.pc # "unused" /\ c = [b EXCEPT !.pc = "gone"])
LEMMA OrGoneKeeps ==
    ASSUME NEW l, NEW m, NEW v, NEW b \in Sub, NEW c, OrGone(b, c), SubOK(b, m, l)
    PROVE  /\ c \in Sub /\ SubOK(c, m, l)
           /\ Working(c) => c = b
           /\ c.pc = "unused" => b.pc = "unused"
           /\ NullOK(b, v) => NullOK(c, v)
  <1>1. CASE c = b
    BY <1>1
  <1>2. CASE b.pc # "unused" /\ c = [b EXCEPT !.pc = "gone"]
    <2>1. c \in Sub /\ c.pc = "gone" /\ c.at = b.at /\ c.start = b.start
      BY <1>2 DEF Sub
    <2> QED
      BY <1>2, <2>1 DEF SubOK, Working, NullOK
  <1> QED
    BY <1>1, <1>2 DEF OrGone

\* The stored resume point does not move back.
Forward == ~setting.overlap => Onward(disk', disk)
LEMMA DiskSame == ASSUME SyncBase, disk' = disk PROVE Forward
  BY SyncFacts DEF Forward, Onward, Null

\* A step of the subscriptions only.
LEMMA SubsStep ==
    ASSUME SyncInv, UNCHANGED <<setting, ledger, disk, mem, delivered, twice, since>>,
           subs' \in [Subs -> Sub], current' \in 0..MaxSubs,
           \A r \in Subs : SubOK(subs'[r], mem[r], ledger),
           \A r \in Subs : Working(subs'[r]) => Working(subs[r]),
           \A r \in Subs : Streaming(subs'[r]) => r = current',
           \A r \in Subs : subs'[r].pc = "unused" => r # current',
           Calm(setting) => \A r \in Subs : subs'[r].pc = "open" =>
                (subs[r].pc = "open" /\ subs'[r].at = subs[r].at) \/ delivered \subseteq 1..subs'[r].at,
           Told(setting) => \A r \in Subs : mem[r].cursor = Null /\ NullOK(subs[r], setting) =>
                                                NullOK(subs'[r], setting)
    PROVE  SyncInv' /\ Forward
  <1>1. SyncBase'
    BY DEF SyncInv, SyncBase
  <1>2. (~setting.overlap => Alone)'
    BY DEF SyncInv, Alone
  <1>3. (Calm(setting) => NoneTwice)'
    <2> SUFFICES ASSUME Calm(setting) PROVE NoneTwice'
      OBVIOUS
    <2>1. \A r \in Subs : subs'[r].pc = "open" => delivered \subseteq 1..subs'[r].at
      BY DEF SyncInv, NoneTwice
    <2> QED
      BY <2>1 DEF SyncInv, NoneTwice
  <1>4. (Told(setting) => NonePassedOver)'
    <2> SUFFICES ASSUME Told(setting) PROVE NonePassedOver'
      OBVIOUS
    <2> QED
      BY DEF SyncInv, NonePassedOver
  <1> QED
    BY <1>1, <1>2, <1>3, <1>4, DiskSame DEF SyncInv

\* One subscription goes on, and nothing else changes.
LEMMA OneStep ==
    ASSUME SyncInv, UNCHANGED <<setting, ledger, disk, mem, current, delivered, twice, since>>,
           NEW s \in Subs, NEW n \in Sub, subs' = [subs EXCEPT ![s] = n],
           Working(subs[s]), SubOK(n, mem[s], ledger), n.pc # "unused",
           Streaming(n) => s = current,
           Calm(setting) /\ n.pc = "open" => delivered \subseteq 1..n.at,
           Told(setting) /\ mem[s].cursor = Null /\ NullOK(subs[s], setting) => NullOK(n, setting)
    PROVE  SyncInv' /\ Forward
  <1>1. /\ subs' \in [Subs -> Sub] /\ subs'[s] = n
        /\ \A r \in Subs : r # s => subs'[r] = subs[r]
    BY DEF SyncInv, SyncBase
  <1>2. current' \in 0..MaxSubs
    BY DEF SyncInv, SyncBase
  <1>3. \A r \in Subs : SubOK(subs'[r], mem[r], ledger)
    BY <1>1 DEF SyncInv, SyncBase
  <1>4. \A r \in Subs : Working(subs'[r]) => Working(subs[r])
    BY <1>1
  <1>5. \A r \in Subs : Streaming(subs'[r]) => r = current'
    BY <1>1 DEF SyncInv, SyncBase
  <1>6. \A r \in Subs : subs'[r].pc = "unused" => r # current'
    BY <1>1 DEF SyncInv, SyncBase
  <1>7. Calm(setting) => \A r \in Subs : subs'[r].pc = "open" =>
            (subs[r].pc = "open" /\ subs'[r].at = subs[r].at) \/ delivered \subseteq 1..subs'[r].at
    BY <1>1
  <1>8. Told(setting) => \A r \in Subs : mem[r].cursor = Null /\ NullOK(subs[r], setting) =>
                                            NullOK(subs'[r], setting)
    BY <1>1
  <1>9. UNCHANGED <<setting, ledger, disk, mem, delivered, twice, since>>
    OBVIOUS
  <1> QED
    BY <1>1, <1>2, <1>3, <1>4, <1>5, <1>6, <1>7, <1>8, <1>9, SubsStep

LEMMA LatestLedgerStep ==
    ASSUME SyncInv, NEW s \in Subs, LatestLedger(s)
    PROVE  SyncInv' /\ Forward
  <1> DEFINE m == [subs[s] EXCEPT !.pc = "catching"]
             n == [m EXCEPT !.start = ledger]
  <1>1. SyncBase /\ subs[s] \in Sub /\ subs[s].pc = "asking" /\ SubOK(subs[s], mem[s], ledger)
    BY SyncFacts DEF SyncInv, SyncBase, LatestLedger
  <1>2. subs' = [subs EXCEPT ![s] = n]
    BY <1>1 DEF LatestLedger, SyncBase
  <1>3. ledger \in 0..MaxLedger /\ ledger > 0
    BY <1>1, SyncFacts, EventsTyped
  <1>4. m \in Sub /\ m.pc = "catching" /\ m.at = subs[s].at
    BY <1>1 DEF Sub
  <1> HIDE DEF m
  <1>5. n \in Sub /\ n.pc = "catching" /\ n.at = subs[s].at /\ n.start = ledger
    BY <1>3, <1>4 DEF Sub
  <1> HIDE DEF n
  <1>6. SubOK(n, mem[s], ledger)
    BY <1>1, <1>3, <1>5 DEF SubOK
  <1>7. NullOK(subs[s], setting) => NullOK(n, setting)
    BY <1>1, <1>5 DEF NullOK
  <1>8. UNCHANGED <<setting, ledger, disk, mem, current, delivered, twice, since>>
    BY DEF LatestLedger
  <1>9. Working(subs[s]) /\ ~Streaming(n) /\ n.pc \notin {"unused", "open"}
    BY <1>1, <1>5 DEF Working, Streaming
  <1> QED
    BY <1>2, <1>5, <1>6, <1>7, <1>8, <1>9, OneStep

LEMMA CatchUpFailsStep ==
    ASSUME SyncInv, NEW s \in Subs, CatchUpFails(s)
    PROVE  SyncInv' /\ Forward
  <1> DEFINE m == [subs[s] EXCEPT !.pc = AfterCatchUp(s)]
             n == [m EXCEPT !.pages = 0]
  <1>1. /\ SyncBase /\ subs[s] \in Sub /\ subs[s].pc \in {"asking", "catching"}
        /\ SubOK(subs[s], mem[s], ledger) /\ setting.rpcFails
    BY SyncFacts DEF SyncInv, SyncBase, CatchUpFails, Busy
  <1>2. subs' = [subs EXCEPT ![s] = n]
    BY <1>1 DEF CatchUpFails, SyncBase
  <1>3. /\ AfterCatchUp(s) \in {"opening", "gone"}
        /\ AfterCatchUp(s) = "opening" => s = current
    BY DEF AfterCatchUp
  <1>4. m \in Sub /\ m.pc = AfterCatchUp(s) /\ m.at = subs[s].at /\ m.start = subs[s].start
    BY <1>1, <1>3 DEF Sub
  <1> HIDE DEF m
  <1>5. 0 \in 0..(MaxPages - 1)
    BY EventsTyped
  <1>6. n \in Sub /\ n.pc = AfterCatchUp(s) /\ n.at = subs[s].at /\ n.start = subs[s].start
    BY <1>4, <1>5 DEF Sub
  <1> HIDE DEF n
  <1>7. SubOK(n, mem[s], ledger)
    BY <1>1, <1>3, <1>6 DEF SubOK
  <1>8. Told(setting) => ~NullOK(subs[s], setting)
    BY <1>1 DEF NullOK, Told
  <1>9. UNCHANGED <<setting, ledger, disk, mem, current, delivered, twice, since>>
    BY DEF CatchUpFails
  <1>10. Working(subs[s]) /\ (Streaming(n) => s = current) /\ n.pc \notin {"unused", "open"}
    BY <1>1, <1>3, <1>6 DEF Working, Streaming
  <1> QED
    BY <1>2, <1>6, <1>7, <1>8, <1>9, <1>10, OneStep

\* A stream that is not behind the RPC begins behind all that was delivered.
LEMMA ConnectStep ==
    ASSUME SyncInv, NEW s \in Subs, Connect(s)
    PROVE  SyncInv' /\ Forward
  <1>1. /\ SyncBase /\ subs[s] \in Sub /\ subs[s].pc = "opening"
        /\ SubOK(subs[s], mem[s], ledger)
    BY SyncFacts DEF SyncInv, SyncBase, Connect
  <1>2. PICK now \in (IF setting.lag THEN 1..ledger ELSE {ledger}) :
            subs' = [subs EXCEPT ![s].pc = "open", ![s].at = Top(now)]
    BY DEF Connect
  <1> DEFINE m == [subs[s] EXCEPT !.pc = "open"]
             n == [m EXCEPT !.at = Top(now)]
  <1>3. subs' = [subs EXCEPT ![s] = n]
    BY <1>1, <1>2 DEF SyncBase
  <1>4. now \in Int /\ Top(now) \in 0..Len(LedgerOf) /\ Edge(Top(now))
    <2>1. now \in Int
      BY <1>1, SyncFacts
    <2> QED
      BY <2>1, TopIs
  <1>5. m \in Sub /\ m.pc = "open" /\ m.start = subs[s].start
    BY <1>1 DEF Sub
  <1> HIDE DEF m
  <1>6. n \in Sub /\ n.pc = "open" /\ n.at = Top(now) /\ n.start = subs[s].start
    BY <1>4, <1>5 DEF Sub
  <1> HIDE DEF n
  <1>7. SubOK(n, mem[s], ledger)
    BY <1>1, <1>4, <1>6 DEF SubOK
  <1>8. Calm(setting) => delivered \subseteq 1..n.at
    BY <1>1, <1>6 DEF SyncBase, Calm
  <1>9. UNCHANGED <<setting, ledger, disk, mem, current, delivered, twice, since>>
    BY DEF Connect
  <1>10. Working(subs[s]) /\ s = current /\ n.pc # "unused" /\ ~NullOK(subs[s], setting)
    BY <1>1, <1>6 DEF Working, Streaming, SyncBase, NullOK
  <1> QED
    BY <1>3, <1>6, <1>7, <1>8, <1>9, <1>10, OneStep

LEMMA ReconnectStep ==
    ASSUME SyncInv, NEW s \in Subs, Reconnect(s)
    PROVE  SyncInv' /\ Forward
  <1> DEFINE n == [subs[s] EXCEPT !.pc = FirstStep(s, mem[s])]
  <1>1. /\ SyncBase /\ subs[s] \in Sub /\ subs[s].pc = "waiting"
        /\ SubOK(subs[s], mem[s], ledger) /\ subs[s].start \in Nat
    BY SyncFacts DEF SyncInv, SyncBase, Reconnect
  <1>2. subs' = [subs EXCEPT ![s] = n]
    BY <1>1 DEF Reconnect, Goes, SyncBase
  <1>3. /\ FirstStep(s, mem[s]) \in {"asking", "catching"}
        /\ FirstStep(s, mem[s]) = "catching" /\ mem[s].cursor = Null /\ mem[s].last = 0 =>
                subs[s].start > 0
    BY <1>1 DEF FirstStep
  <1>4. n \in Sub /\ n.pc = FirstStep(s, mem[s]) /\ n.at = subs[s].at /\ n.start = subs[s].start
    BY <1>1, <1>3 DEF Sub
  <1> HIDE DEF n
  <1>5. SubOK(n, mem[s], ledger)
    BY <1>1, <1>3, <1>4 DEF SubOK
  <1>6. UNCHANGED <<setting, ledger, disk, mem, current, delivered, twice, since>>
    BY DEF Reconnect
  <1>7. /\ Working(subs[s]) /\ ~Streaming(n) /\ n.pc \notin {"unused", "open"}
        /\ ~NullOK(subs[s], setting)
    BY <1>1, <1>3, <1>4 DEF Working, Streaming, NullOK
  <1> QED
    BY <1>2, <1>4, <1>5, <1>6, <1>7, OneStep

\* Steps that end subscriptions, and change nothing else.
LEMMA EndsStep ==
    ASSUME SyncInv, UNCHANGED <<setting, ledger, disk, mem, delivered, twice, since>>,
           subs' = [r \in Subs |-> subs'[r]], \A r \in Subs : OrGone(subs[r], subs'[r]),
           current' = 0, \A r \in Subs : ~Streaming(subs'[r])
    PROVE  SyncInv' /\ Forward
  <1>1. \A r \in Subs : subs[r] \in Sub /\ SubOK(subs[r], mem[r], ledger)
    BY DEF SyncInv, SyncBase
  <1>2. \A r \in Subs :
            /\ subs'[r] \in Sub /\ SubOK(subs'[r], mem[r], ledger)
            /\ Working(subs'[r]) => Working(subs[r])
            /\ NullOK(subs[r], setting) => NullOK(subs'[r], setting)
            /\ subs'[r].pc # "open"
    <2> SUFFICES ASSUME NEW r \in Subs
                 PROVE  /\ subs'[r] \in Sub /\ SubOK(subs'[r], mem[r], ledger)
                        /\ Working(subs'[r]) => Working(subs[r])
                        /\ NullOK(subs[r], setting) => NullOK(subs'[r], setting)
                        /\ subs'[r].pc # "open"
      OBVIOUS
    <2>1. PICK b \in Sub : b = subs[r]
      BY <1>1
    <2>2. SubOK(b, mem[r], ledger) /\ OrGone(b, subs'[r])
      BY <1>1, <2>1
    <2>3. /\ subs'[r] \in Sub /\ SubOK(subs'[r], mem[r], ledger)
          /\ Working(subs'[r]) => subs'[r] = b
          /\ NullOK(b, setting) => NullOK(subs'[r], setting)
      BY <2>2, OrGoneKeeps
    <2>4. subs'[r].pc # "open"
      BY DEF Streaming
    <2> QED
      BY <2>1, <2>3, <2>4
  <1>3. subs' \in [Subs -> Sub]
    BY <1>2
  <1>4. current' \in 0..MaxSubs /\ \A r \in Subs : r # current'
    BY EventsTyped DEF Subs
  <1>5. \A r \in Subs : Streaming(subs'[r]) => r = current'
    OBVIOUS
  <1>6. UNCHANGED <<setting, ledger, disk, mem, delivered, twice, since>>
    OBVIOUS
  <1> QED
    BY <1>2, <1>3, <1>4, <1>5, <1>6, SubsStep

LEMMA ClosedKeepingIs ==
    ASSUME SyncBase, NEW r \in Subs
    PROVE  OrGone(subs[r], ClosedKeeping(r)) /\ ~Streaming(ClosedKeeping(r))
  <1>1. subs[r] \in Sub /\ (subs[r].pc = "unused" => r # current) /\ (Streaming(subs[r]) => r = current)
    BY SyncFacts DEF SyncBase
  <1>2. CASE r = current /\ ~Busy(r)
    <2>1. ClosedKeeping(r) = [subs[r] EXCEPT !.pc = "gone"] /\ subs[r].pc # "unused"
      BY <1>1, <1>2 DEF ClosedKeeping
    <2>2. ClosedKeeping(r).pc = "gone"
      BY <1>1, <2>1 DEF Sub
    <2> QED
      BY <2>1, <2>2 DEF OrGone, Streaming
  <1>3. CASE ~(r = current /\ ~Busy(r))
    <2>1. ClosedKeeping(r) = subs[r] /\ ~Streaming(subs[r])
      BY <1>1, <1>3 DEF ClosedKeeping, Busy, Streaming
    <2> QED
      BY <2>1 DEF OrGone
  <1> QED
    BY <1>2, <1>3

LEMMA CloseSubscriptionStep ==
    ASSUME SyncInv, CloseSubscription
    PROVE  SyncInv' /\ Forward
  <1>1. subs' = [r \in Subs |-> ClosedKeeping(r)] /\ current' = 0
    BY DEF CloseSubscription
  <1>2. \A r \in Subs : OrGone(subs[r], subs'[r]) /\ ~Streaming(subs'[r])
    BY <1>1, ClosedKeepingIs DEF SyncInv
  <1>3. UNCHANGED <<setting, ledger, disk, mem, delivered, twice, since>>
    BY DEF CloseSubscription
  <1>4. subs' = [r \in Subs |-> subs'[r]]
    BY <1>1
  <1> QED
    BY <1>1, <1>2, <1>3, <1>4, EndsStep

LEMMA ReloadPageStep ==
    ASSUME SyncInv, ReloadPage
    PROVE  SyncInv' /\ Forward
  <1>1. /\ subs' = [s \in Subs |-> IF subs[s].pc = "unused" THEN subs[s]
                                   ELSE [subs[s] EXCEPT !.pc = "gone"]]
        /\ current' = 0
    BY DEF ReloadPage
  <1>2. \A r \in Subs : OrGone(subs[r], subs'[r]) /\ ~Streaming(subs'[r])
    <2>1. \A r \in Subs : subs[r] \in Sub
      BY SyncFacts DEF SyncInv
    <2> QED
      BY <1>1, <2>1 DEF OrGone, Streaming, Sub
  <1>3. UNCHANGED <<setting, ledger, disk, mem, delivered, twice, since>>
    BY DEF ReloadPage
  <1>4. subs' = [r \in Subs |-> subs'[r]]
    BY <1>1
  <1> QED
    BY <1>1, <1>2, <1>3, <1>4, EndsStep

LEMMA StreamErrorStep ==
    ASSUME SyncInv, NEW s \in Subs, StreamError(s)
    PROVE  SyncInv' /\ Forward
  <1> DEFINE a == subs[s].attempts + 1
  <1>1. /\ SyncBase /\ subs[s] \in Sub /\ subs[s].pc \in {"opening", "open"}
        /\ SubOK(subs[s], mem[s], ledger) /\ subs[s].attempts \in 0..MaxAttempts
        /\ MaxAttempts \in Nat
    BY SyncFacts, EventsTyped DEF SyncInv, SyncBase, StreamError
  <1>2. s = current
    BY <1>1 DEF SyncBase, Streaming
  <1>3. CASE a > MaxAttempts
    <2>1. subs' = [subs EXCEPT ![s].pc = "gone"] /\ current' = 0
      BY <1>3 DEF StreamError, Goes
    <2>2. \A r \in Subs : r # s => subs'[r] = subs[r]
      BY <2>1 DEF SyncInv, SyncBase
    <2>3. subs'[s] = [subs[s] EXCEPT !.pc = "gone"] /\ subs'[s].pc = "gone"
      BY <1>1, <2>1 DEF SyncBase, Sub
    <2>4. \A r \in Subs : OrGone(subs[r], subs'[r])
      BY <1>1, <2>2, <2>3 DEF OrGone
    <2>5. \A r \in Subs : ~Streaming(subs'[r])
      BY <1>1, <1>2, <2>2, <2>3 DEF SyncBase, Streaming
    <2>6. subs' = [r \in Subs |-> subs'[r]]
      BY <1>1, <2>1 DEF SyncBase
    <2>7. UNCHANGED <<setting, ledger, disk, mem, delivered, twice, since>>
      BY DEF StreamError
    <2> QED
      BY <2>1, <2>4, <2>5, <2>6, <2>7, EndsStep
  <1>4. CASE ~(a > MaxAttempts)
    <2> DEFINE m == [subs[s] EXCEPT !.pc = "waiting"]
               n == [m EXCEPT !.attempts = a]
    <2>1. subs' = [subs EXCEPT ![s] = n]
      BY <1>1, <1>4 DEF StreamError, SyncBase
    <2>2. a \in 0..MaxAttempts
      BY <1>1, <1>4
    <2>3. m \in Sub /\ m.pc = "waiting" /\ m.at = subs[s].at /\ m.start = subs[s].start
      BY <1>1 DEF Sub
    <2> HIDE DEF m, a
    <2>4. n \in Sub /\ n.pc = "waiting" /\ n.at = subs[s].at /\ n.start = subs[s].start
      BY <2>2, <2>3 DEF Sub
    <2> HIDE DEF n
    <2>5. SubOK(n, mem[s], ledger)
      BY <1>1, <2>4 DEF SubOK
    <2>6. UNCHANGED <<setting, ledger, disk, mem, current, delivered, twice, since>>
      BY <1>4 DEF StreamError, a
    <2>7. /\ Working(subs[s]) /\ n.pc \notin {"unused", "open"} /\ ~NullOK(subs[s], setting)
      BY <1>1, <2>4 DEF Working, NullOK
    <2> QED
      BY <1>2, <2>1, <2>4, <2>5, <2>6, <2>7, OneStep
  <1> QED
    BY <1>3, <1>4

LEMMA CloseLedgerStep ==
    ASSUME SyncInv, CloseLedger
    PROVE  SyncInv' /\ Forward
  <1>1. /\ SyncBase /\ ledger \in Nat /\ ledger + 1 \in 1..MaxLedger
        /\ UNCHANGED <<setting, disk, mem, subs, current, delivered, twice, since>>
    BY SyncFacts, EventsTyped DEF SyncInv, CloseLedger
  <1>2. PICK l \in Nat : l = ledger + 1 /\ ledger' = l
    BY <1>1 DEF CloseLedger
  <1>3. CopyOK(disk, l, setting) /\ \A s \in Subs : CopyOK(mem[s], l, setting)
    <2>1. CopyOK(disk, ledger, setting) /\ \A s \in Subs : CopyOK(mem[s], ledger, setting)
      BY <1>1 DEF SyncBase
    <2>2. ledger <= l
      BY <1>1, <1>2
    <2> QED
      BY <1>1, <2>1, <2>2, CopyLater
  <1>4. \A s \in Subs : SubOK(subs[s], mem[s], l)
    <2>1. \A s \in Subs : subs[s].start \in Nat /\ SubOK(subs[s], mem[s], ledger)
      BY <1>1, SyncFacts DEF SyncBase
    <2> QED
      BY <1>1, <1>2, <2>1 DEF SubOK
  <1>5. delivered \subseteq 1..Top(l)
    <2>1. Top(ledger) <= Top(l) /\ Top(ledger) \in Int /\ Top(l) \in Int
      BY <1>1, <1>2, TopIs, TopGrows
    <2> QED
      BY <1>1, <2>1 DEF SyncBase
  <1>6. SyncBase'
    BY <1>1, <1>2, <1>3, <1>4, <1>5 DEF SyncBase
  <1>7. (~setting.overlap => Alone)'
    BY <1>1 DEF SyncInv, Alone
  <1>8. (Calm(setting) => NoneTwice)'
    BY <1>1 DEF SyncInv, NoneTwice
  <1>9. (Told(setting) => NonePassedOver)'
    BY <1>1 DEF SyncInv, NonePassedOver
  <1> QED
    BY <1>1, <1>6, <1>7, <1>8, <1>9, DiskSame DEF SyncInv

LEMMA SubscribeStep ==
    ASSUME SyncInv, NEW s \in Subs, Subscribe(s)
    PROVE  SyncInv' /\ Forward
  <1> DEFINE b == [Unused EXCEPT !.pc = FirstStep(s, disk)]
  <1>1. /\ SyncBase /\ subs[s].pc = "unused" /\ current' = s
        /\ mem' = [mem EXCEPT ![s] = disk]
        /\ UNCHANGED <<setting, ledger, disk, delivered, twice, since>>
        /\ ~setting.overlap => \A r \in Subs : ~Busy(r)
    BY DEF Subscribe, SyncInv
  <1>2. subs' = [r \in Subs |-> IF r = s THEN b ELSE ClosedKeeping(r)]
    BY DEF Subscribe
  <1>3. subs[s] = Unused /\ subs[s].start = 0
    BY <1>1 DEF SyncBase, SubOK, Unused
  <1>4. /\ FirstStep(s, disk) \in {"asking", "catching"}
        /\ FirstStep(s, disk) = "catching" => ~(disk.cursor = Null /\ disk.last = 0)
    BY <1>3 DEF FirstStep
  <1>5. b \in Sub /\ b.pc = FirstStep(s, disk) /\ b.start = 0 /\ b.at = 0
    BY <1>4, EventsTyped DEF Unused, Sub
  <1> HIDE DEF b
  <1>6. SubOK(b, disk, ledger)
    <2>1. Edge(0)
      BY EventsTyped DEF Edge
    <2>2. 0 <= ledger
      BY <1>1, SyncFacts
    <2> QED
      BY <1>4, <1>5, <2>1, <2>2 DEF SubOK
  <1>7. \A r \in Subs : r # s =>
            /\ subs'[r] \in Sub /\ SubOK(subs'[r], mem[r], ledger)
            /\ Working(subs'[r]) => subs'[r] = subs[r]
            /\ NullOK(subs[r], setting) => NullOK(subs'[r], setting)
            /\ ~Streaming(subs'[r])
    <2> SUFFICES ASSUME NEW r \in Subs, r # s
                 PROVE  /\ subs'[r] \in Sub /\ SubOK(subs'[r], mem[r], ledger)
                        /\ Working(subs'[r]) => subs'[r] = subs[r]
                        /\ NullOK(subs[r], setting) => NullOK(subs'[r], setting)
                        /\ ~Streaming(subs'[r])
      OBVIOUS
    <2>1. subs'[r] = ClosedKeeping(r)
      BY <1>2
    <2>2. OrGone(subs[r], subs'[r]) /\ ~Streaming(subs'[r])
      BY <1>1, <2>1, ClosedKeepingIs
    <2>3. PICK a \in Sub : a = subs[r]
      BY <1>1, SyncFacts
    <2>4. SubOK(a, mem[r], ledger) /\ OrGone(a, subs'[r])
      BY <1>1, <2>2, <2>3 DEF SyncBase
    <2>5. /\ subs'[r] \in Sub /\ SubOK(subs'[r], mem[r], ledger)
          /\ Working(subs'[r]) => subs'[r] = a
          /\ NullOK(a, setting) => NullOK(subs'[r], setting)
      BY <2>4, OrGoneKeeps
    <2> QED
      BY <2>2, <2>3, <2>5
  <1>8. /\ subs'[s] = b /\ mem'[s] = disk
        /\ \A r \in Subs : r # s => mem'[r] = mem[r]
    BY <1>1, <1>2 DEF SyncBase
  <1>9. ~Streaming(b) /\ b.pc # "unused" /\ b.pc # "open"
    BY <1>4, <1>5 DEF Streaming
  <1>10. SyncBase'
    <2>1. current' \in 0..MaxSubs
      BY <1>1, EventsTyped DEF Subs
    <2>2. mem' \in [Subs -> Cursor] /\ CopyOK(disk, ledger, setting)
      BY <1>1, SyncFacts DEF SyncBase
    <2>3. subs' \in [Subs -> Sub]
      BY <1>2, <1>5, <1>7, <1>8
    <2>4. \A r \in Subs : CopyOK(mem'[r], ledger, setting) /\ SubOK(subs'[r], mem'[r], ledger)
      BY <1>1, <1>6, <1>7, <1>8, <2>2 DEF SyncBase
    <2>5. \A r \in Subs : /\ Streaming(subs'[r]) => r = current'
                          /\ subs'[r].pc = "unused" => r # current'
      BY <1>1, <1>7, <1>8, <1>9
    <2> QED
      BY <1>1, <2>1, <2>2, <2>3, <2>4, <2>5 DEF SyncBase
  <1>11. (~setting.overlap => Alone)'
    <2> SUFFICES ASSUME ~setting.overlap PROVE Alone'
      BY <1>1
    <2>1. \A r \in Subs : Working(subs'[r]) => r = s
      BY <1>1, <1>7 DEF Working, Streaming, Busy, Sub
    <2>2. Onward(disk, disk)
      BY <1>1, SyncFacts DEF Onward, Null
    <2> QED
      BY <1>1, <1>8, <2>1, <2>2 DEF Alone
  <1>12. (Calm(setting) => NoneTwice)'
    <2>1. \A r \in Subs : subs'[r].pc # "open"
      BY <1>7, <1>8, <1>9 DEF Streaming
    <2> QED
      BY <1>1, <2>1 DEF SyncInv, NoneTwice
  <1>13. (Told(setting) => NonePassedOver)'
    <2> SUFFICES ASSUME Told(setting), NonePassedOver PROVE NonePassedOver'
      BY <1>1 DEF SyncInv
    <2>1. \A r \in Subs : Truthful(mem'[r], delivered, since)
      BY <1>1, <1>8 DEF NonePassedOver
    <2>2. disk.cursor = Null => NullOK(b, setting)
      BY <1>4, <1>5 DEF NonePassedOver, NullOK
    <2>3. \A r \in Subs : mem'[r].cursor = Null => NullOK(subs'[r], setting)
      BY <1>7, <1>8, <2>2 DEF NonePassedOver
    <2> QED
      BY <1>1, <2>1, <2>3 DEF NonePassedOver
  <1> QED
    BY <1>1, <1>10, <1>11, <1>12, <1>13, DiskSame DEF SyncInv

\* The copy of a subscription becomes c, and the events X are delivered.
LEMMA CopyStep ==
    ASSUME SyncInv, NEW s \in Subs, NEW c, NEW X, UNCHANGED <<setting, ledger>>,
           Persist(s, c), Deliver(X), X \subseteq 1..Top(ledger),
           CopyOK(c, ledger, setting), Onward(c, mem[s]),
           since' \in 0..MaxLedger, since <= since',
           Working(subs[s]), subs' \in [Subs -> Sub], SubOK(subs'[s], c, ledger),
           \A r \in Subs : r # s => OrGone(subs[r], subs'[r]),
           current' \in 0..MaxSubs,
           \A r \in Subs : Streaming(subs'[r]) => r = current',
           \A r \in Subs : subs'[r].pc = "unused" => r # current',
           Calm(setting) /\ NoneTwice /\ mem[s] = disk =>
                /\ X \cap delivered = {} /\ \A e \in delivered \cup X : HasIdOf(e, c)
                /\ subs'[s].pc = "open" => delivered \cup X \subseteq 1..subs'[s].at,
           Told(setting) /\ NonePassedOver =>
                Truthful(c, delivered \cup X, since') /\ c.cursor # Null
    PROVE  SyncInv' /\ Forward
  <1>1. /\ SyncBase /\ disk \in Cursor /\ mem[s] \in Cursor /\ c \in Cursor
        /\ ledger \in Nat /\ since \in Nat /\ since' \in Nat
    BY SyncFacts DEF SyncInv, CopyOK
  <1>2. /\ mem' = [mem EXCEPT ![s] = c] /\ mem'[s] = c
        /\ \A r \in Subs : r # s => mem'[r] = mem[r]
        /\ disk' = c \/ (setting.full /\ disk' = disk)
    BY <1>1 DEF Persist, SyncBase
  <1>3. delivered' = delivered \cup X /\ twice' = twice \cup (X \cap delivered)
    BY DEF Deliver
  <1>4. \A r \in Subs : r # s =>
            /\ SubOK(subs'[r], mem[r], ledger)
            /\ Working(subs'[r]) => subs'[r] = subs[r]
            /\ NullOK(subs[r], setting) => NullOK(subs'[r], setting)
    <2> SUFFICES ASSUME NEW r \in Subs, r # s
                 PROVE  /\ SubOK(subs'[r], mem[r], ledger)
                        /\ Working(subs'[r]) => subs'[r] = subs[r]
                        /\ NullOK(subs[r], setting) => NullOK(subs'[r], setting)
      OBVIOUS
    <2>1. PICK a \in Sub : a = subs[r]
      BY <1>1, SyncFacts
    <2>2. SubOK(a, mem[r], ledger) /\ OrGone(a, subs'[r])
      BY <1>1, <2>1 DEF SyncBase
    <2>3. /\ SubOK(subs'[r], mem[r], ledger)
          /\ Working(subs'[r]) => subs'[r] = a
          /\ NullOK(a, setting) => NullOK(subs'[r], setting)
      BY <2>2, OrGoneKeeps
    <2> QED
      BY <2>1, <2>3
  <1>5. SyncBase'
    <2>1. CopyOK(disk', ledger, setting)
      BY <1>1, <1>2 DEF SyncBase
    <2>2. mem' \in [Subs -> Cursor]
      BY <1>1, <1>2 DEF SyncBase
    <2>3. \A r \in Subs : CopyOK(mem'[r], ledger, setting) /\ SubOK(subs'[r], mem'[r], ledger)
      BY <1>1, <1>2, <1>4 DEF SyncBase
    <2>4. delivered' \subseteq 1..Top(ledger) /\ twice' \subseteq Events
      <3>1. Top(ledger) \in 0..Len(LedgerOf) /\ Len(LedgerOf) \in Nat /\ Events = 1..Len(LedgerOf)
        BY <1>1, TopIs, EventsTyped
      <3>2. 1..Top(ledger) \subseteq Events
        BY <3>1
      <3> QED
        BY <1>1, <1>3, <3>2 DEF SyncBase
    <2> QED
      BY <1>1, <2>1, <2>2, <2>3, <2>4 DEF SyncBase
  <1>6. ~setting.overlap => /\ Alone /\ Onward(mem[s], disk)
                            /\ ~setting.full => mem[s] = disk
                            /\ \A r \in Subs : Working(subs'[r]) => r = s
    BY <1>4 DEF SyncInv, Alone
  <1>7. Onward(c, c) /\ (Onward(mem[s], disk) => Onward(c, disk))
    <2>1. \A d \in Cursor : d.cursor \in Int /\ d.last \in Int
      BY DEF Cursor, Null
    <2> QED
      BY <1>1, <2>1 DEF Onward
  <1>8. (~setting.overlap => Alone)'
    <2> SUFFICES ASSUME ~setting.overlap PROVE Alone'
      OBVIOUS
    <2> QED
      BY <1>2, <1>6, <1>7 DEF Alone
  <1>9. Forward
    <2>1. Onward(disk, disk)
      BY <1>1, SyncFacts DEF Onward, Null
    <2> QED
      BY <1>2, <1>6, <1>7, <2>1 DEF Forward
  <1>10. (Calm(setting) => NoneTwice)'
    <2> SUFFICES ASSUME Calm(setting) PROVE NoneTwice'
      OBVIOUS
    <2>1. ~setting.overlap /\ ~setting.full
      BY DEF Calm
    <2>2. NoneTwice /\ mem[s] = disk /\ disk' = c
      BY <1>2, <1>6, <2>1 DEF SyncInv
    <2>3. \A r \in Subs : subs'[r].pc = "open" => r = s
      BY <1>6, <2>1 DEF Working
    <2>4. /\ X \cap delivered = {} /\ \A e \in delivered \cup X : HasIdOf(e, c)
          /\ subs'[s].pc = "open" => delivered \cup X \subseteq 1..subs'[s].at
      BY <2>2
    <2> QED
      BY <1>3, <2>2, <2>3, <2>4 DEF NoneTwice
  <1>11. (Told(setting) => NonePassedOver)'
    <2> SUFFICES ASSUME Told(setting), NonePassedOver PROVE NonePassedOver'
      BY DEF SyncInv
    <2>1. Truthful(c, delivered', since') /\ c.cursor # Null
      BY <1>3
    <2>2. Truthful(disk, delivered', since') /\ \A r \in Subs : Truthful(mem[r], delivered', since')
      <3>1. /\ CopyOK(disk, ledger, setting) /\ Truthful(disk, delivered, since)
            /\ \A r \in Subs : CopyOK(mem[r], ledger, setting) /\ Truthful(mem[r], delivered, since)
        BY <1>1 DEF SyncBase, NonePassedOver
      <3>2. delivered \subseteq delivered'
        BY <1>3
      <3> QED
        BY <1>1, <3>1, <3>2, TruthfulStays
    <2>3. Truthful(disk', delivered', since') /\ (disk'.cursor = Null => ~setting.resumed)
      BY <1>2, <2>1, <2>2 DEF NonePassedOver
    <2>4. \A r \in Subs : /\ Truthful(mem'[r], delivered', since')
                          /\ mem'[r].cursor = Null => NullOK(subs'[r], setting)
      BY <1>2, <1>4, <2>1, <2>2 DEF NonePassedOver
    <2> QED
      BY <2>3, <2>4 DEF NonePassedOver
  <1> QED
    BY <1>5, <1>8, <1>9, <1>10, <1>11 DEF SyncInv

\* The copy after a page.
LEMMA PageCopy ==
    ASSUME SyncBase, NEW s \in Subs, NEW P, P = Processed(s)
    PROVE  \E n \in Nat :
            /\ From(s) \in Nat /\ Page(s) = (From(s) + 1)..(From(s) + n)
            /\ From(s) + n <= Top(ledger)
            /\ mem[s].cursor # Null => mem[s].cursor = From(s)
            /\ P.cursor = IF n = 0 /\ setting.bare THEN mem[s].cursor ELSE From(s) + n
            /\ P.last = ledger
            /\ CopyOK(P, ledger, setting) /\ Onward(P, mem[s])
            /\ \A y : Contains(P.ids, y) => Contains(mem[s].ids, y) \/ Contains(PageIds(s), y)
            /\ ~setting.small =>
                    \A y : Contains(mem[s].ids, y) \/ Contains(PageIds(s), y) => Contains(P.ids, y)
  <1>1. /\ mem[s] \in Cursor /\ mem[s].cursor \in {Null} \cup Nat /\ mem[s].last \in Nat
        /\ mem[s].ids \in Seq(Id) /\ ledger \in Nat /\ setting.small \in BOOLEAN
    BY SyncFacts
  <1>2. mem[s].last <= ledger /\ mem[s].cursor <= Top(ledger)
    BY DEF SyncBase, CopyOK
  <1>3. PICK n \in 0..PageSize :
            /\ From(s) \in Nat /\ Page(s) = (From(s) + 1)..(From(s) + n)
            /\ From(s) + n <= Top(ledger)
            /\ Reported(s) = IF n = 0 /\ setting.bare THEN Null ELSE From(s) + n
    BY PageRead
  <1>4. n \in Nat /\ Reported(s) \in {Null} \cup Nat /\ (Reported(s) = Null <=> n = 0 /\ setting.bare)
    BY <1>3, EventsTyped DEF Null
  <1>5. mem[s].cursor # Null => mem[s].cursor = From(s)
    BY DEF From
  <1>6. PICK r : r = Remember(mem[s].ids, PageIds(s))
    OBVIOUS
  <1>7. PageIds(s) \in Seq(Id) /\ SmallCap \in Nat
    BY PageIdsAre, EventsTyped
  <1>8. /\ r \in Seq(Id)
        /\ \A y : Contains(r, y) => Contains(mem[s].ids, y) \/ Contains(PageIds(s), y)
        /\ setting.small => Len(r) <= SmallCap
        /\ ~setting.small =>
                \A y : Contains(mem[s].ids, y) \/ Contains(PageIds(s), y) => Contains(r, y)
    BY <1>1, <1>6, <1>7, Remembers
  <1>9. PICK c \in Cursor : c = mem[s]
    BY <1>1
  <1>10. PICK p \in {Null} \cup Nat : p = Reported(s)
    BY <1>4
  <1>11. PICK l \in Nat : l = ledger
    BY <1>1
  <1>12. P = Advanced([c EXCEPT !.ids = r], p, l)
    BY <1>1, <1>6, <1>9, <1>10, <1>11 DEF Processed, Cursor
  <1>13. /\ P \in Cursor /\ P.ids = r
         /\ P.cursor = IF p = Null THEN c.cursor ELSE p
         /\ P.last = IF l > c.last THEN l ELSE c.last
    BY <1>8, <1>12, AdvancedIs
  <1>14. /\ P.cursor = IF n = 0 /\ setting.bare THEN mem[s].cursor ELSE From(s) + n
         /\ P.last = ledger
    BY <1>1, <1>2, <1>3, <1>4, <1>9, <1>10, <1>11, <1>13
  <1>15. CopyOK(P, ledger, setting)
    BY <1>1, <1>2, <1>3, <1>8, <1>13, <1>14 DEF CopyOK
  <1>16. Onward(P, mem[s])
    BY <1>1, <1>2, <1>3, <1>4, <1>5, <1>14 DEF Onward, Null
  <1> QED
    BY <1>3, <1>4, <1>5, <1>8, <1>13, <1>14, <1>15, <1>16

\* A page is read, and the events X of it are delivered.
LEMMA PageStep ==
    ASSUME SyncInv, NEW s \in Subs, NEW X, X \subseteq Fresh(s),
           setting.abrupt \/ X = Fresh(s), subs[s].pc = "catching",
           Persist(s, Processed(s)), Deliver(X), Began(s), UNCHANGED <<setting, ledger>>,
           subs' \in [Subs -> Sub], \A r \in Subs : r # s => OrGone(subs[r], subs'[r]),
           subs'[s].at = subs[s].at, subs'[s].start = subs[s].start,
           subs'[s].pc \in {"catching", "opening", "gone"},
           current' \in {0, current}, \A r \in Subs : Streaming(subs'[r]) => r = current'
    PROVE  SyncInv' /\ Forward
  <1> DEFINE b == subs'[s]
  <1>1. PICK P : P = Processed(s)
    OBVIOUS
  <1>2. /\ SyncBase /\ ledger \in Nat /\ ledger >= 1 /\ since \in Nat
        /\ mem[s].last \in Nat /\ subs[s].start \in 0..MaxLedger /\ SubOK(subs[s], mem[s], ledger)
        /\ subs[s] \in Sub /\ MaxLedger \in Nat /\ since \in 0..MaxLedger
    <2>1. SyncBase
      BY DEF SyncInv
    <2>2. subs[s].start \in 0..MaxLedger
      BY <2>1, SyncFacts DEF Sub
    <2> QED
      BY <2>1, <2>2, SyncFacts, EventsTyped DEF SyncBase
  <1>3. PICK n \in Nat :
            /\ From(s) \in Nat /\ Page(s) = (From(s) + 1)..(From(s) + n)
            /\ From(s) + n <= Top(ledger)
            /\ mem[s].cursor # Null => mem[s].cursor = From(s)
            /\ P.cursor = IF n = 0 /\ setting.bare THEN mem[s].cursor ELSE From(s) + n
            /\ P.last = ledger
            /\ CopyOK(P, ledger, setting) /\ Onward(P, mem[s])
            /\ \A y : Contains(P.ids, y) => Contains(mem[s].ids, y) \/ Contains(PageIds(s), y)
            /\ ~setting.small =>
                    \A y : Contains(mem[s].ids, y) \/ Contains(PageIds(s), y) => Contains(P.ids, y)
    BY <1>1, <1>2, PageCopy
  <1>4. Fresh(s) = {e \in Page(s) : ~HasIdOf(e, mem[s])} \ Malformed
    BY DEF Fresh, HasIdOf, RpcId, KeyId
  <1>5. /\ \A e \in Events : Contains(PageIds(s), RpcId(e)) <=> e \in Page(s)
        /\ \A e \in Events : ~Contains(PageIds(s), KeyId(e))
    BY <1>2, PageIdsAre
  <1>6. Top(ledger) \in 0..Len(LedgerOf) /\ Len(LedgerOf) \in Nat /\ Events = 1..Len(LedgerOf)
    BY <1>2, TopIs, EventsTyped
  <1>7. Page(s) \subseteq 1..Top(ledger) /\ Page(s) \subseteq Events /\ X \subseteq Page(s)
    BY <1>3, <1>4, <1>6
  <1>8. /\ since' \in 0..MaxLedger /\ since <= since'
        /\ mem[s].cursor = Null /\ mem[s].last = 0 => subs[s].start <= since'
    BY <1>2 DEF Began
  <1>9. SubOK(b, P, ledger)
    BY <1>2, <1>3 DEF SubOK
  <1>10. Working(subs[s])
    BY DEF Working
  <1>11. current' \in 0..MaxSubs
    BY <1>2, EventsTyped DEF SyncBase
  <1>12. \A r \in Subs : subs'[r].pc = "unused" => r # current'
    <2> SUFFICES ASSUME NEW r \in Subs, subs'[r].pc = "unused" PROVE r # current'
      OBVIOUS
    <2>1. r # s
      OBVIOUS
    <2>2. PICK a \in Sub : a = subs[r]
      BY <1>2, SyncFacts
    <2>3. SubOK(a, mem[r], ledger) /\ OrGone(a, subs'[r])
      BY <1>2, <2>1, <2>2 DEF SyncBase
    <2>4. a.pc = "unused"
      BY <2>3 DEF OrGone, Sub
    <2>5. r # current /\ r # 0
      BY <1>2, <2>2, <2>4, EventsTyped DEF SyncBase, Subs
    <2> QED
      BY <2>5
  <1>13. ASSUME Calm(setting), NoneTwice, mem[s] = disk
         PROVE  /\ X \cap delivered = {} /\ \A e \in delivered \cup X : HasIdOf(e, P)
                /\ b.pc = "open" => delivered \cup X \subseteq 1..b.at
    <2>1. \A e \in delivered : HasIdOf(e, mem[s])
      BY <1>13 DEF NoneTwice
    <2>2. \A e \in delivered : HasIdOf(e, P)
      BY <1>3, <1>13, <2>1 DEF Calm, HasIdOf
    <2>3. \A e \in X : HasIdOf(e, P)
      BY <1>3, <1>5, <1>7, <1>13 DEF Calm, HasIdOf
    <2>4. X \cap delivered = {}
      BY <1>4, <2>1
    <2> QED
      BY <2>2, <2>3, <2>4
  <1>14. ASSUME Told(setting), NonePassedOver
         PROVE  Truthful(P, delivered \cup X, since') /\ P.cursor # Null
    <2> DEFINE D == delivered \cup X
    <2>1. X = Fresh(s) /\ Truthful(mem[s], delivered, since)
      BY <1>14 DEF Told, NonePassedOver
    <2>2. mem[s].cursor = Null => ~setting.bare
      BY <1>14 DEF Told, NonePassedOver, NullOK
    <2>3. P.cursor = From(s) + n /\ P.cursor # Null
      BY <1>3, <2>2 DEF Null
    <2>4. \A e \in Page(s) : e \in D \cup Malformed
      BY <1>4, <1>7, <2>1 DEF HasIdOf, Truthful
    <2>5. ASSUME NEW e \in 1..From(s), e \notin Malformed, LedgerOf[e] >= since'
          PROVE  e \in D
      <3>1. e \in Events /\ LedgerOf[e] \in Nat
        BY <1>3, <1>6, EventsTyped
      <3>2. CASE mem[s].cursor # Null
        <4>1. Point(mem[s]) = From(s)
          BY <1>3, <3>2 DEF Point
        <4>2. LedgerOf[e] >= since
          BY <1>2, <1>8, <2>5, <3>1
        <4> QED
          BY <2>1, <2>5, <4>1, <4>2 DEF Truthful
      <3>3. CASE mem[s].cursor = Null
        <4>1. mem[s].last = 0
          BY <2>1, <3>3 DEF Truthful
        <4>2. From(s) = Top(subs[s].start - 1) /\ subs[s].start > 0
          BY <1>2, <3>3, <4>1 DEF From, SubOK
        <4>3. PICK k \in Int : k = subs[s].start - 1
          BY <1>2
        <4>4. LedgerOf[e] <= k
          <5>1. \A f \in Events : f <= Top(k) <=> LedgerOf[f] <= k
            BY TopIs
          <5> QED
            BY <1>3, <3>1, <4>2, <4>3, <5>1
        <4>5. subs[s].start <= since'
          BY <1>8, <3>3, <4>1
        <4> QED
          BY <1>2, <1>8, <2>5, <3>1, <4>3, <4>4, <4>5
      <3> QED
        BY <3>2, <3>3
    <2>6. \A e \in (1..Point(P)) \ Malformed : LedgerOf[e] >= since' => e \in D
      <3> SUFFICES ASSUME NEW e \in (1..Point(P)) \ Malformed, LedgerOf[e] >= since' PROVE e \in D
        OBVIOUS
      <3>1. Point(P) = From(s) + n
        BY <2>3 DEF Point
      <3>2. e \in 1..From(s) \/ e \in Page(s)
        BY <1>3, <3>1
      <3> QED
        BY <2>4, <2>5, <3>2
    <2>7. \A e \in Events : Contains(P.ids, RpcId(e)) => e \in D \cup Malformed
      BY <1>3, <1>5, <2>1, <2>4 DEF Truthful
    <2>8. \A e \in Events : Contains(P.ids, KeyId(e)) => e \in D
      BY <1>3, <1>5, <2>1 DEF Truthful
    <2> QED
      BY <2>3, <2>6, <2>7, <2>8 DEF Truthful
  <1>15. Persist(s, P) /\ X \subseteq 1..Top(ledger)
    BY <1>1, <1>7
  <1>16. UNCHANGED <<setting, ledger>> /\ Deliver(X)
    OBVIOUS
  <1> QED
    BY <1>3, <1>8, <1>9, <1>10, <1>11, <1>12, <1>13, <1>14, <1>15, <1>16, CopyStep

LEMMA EventsPageStep ==
    ASSUME SyncInv, NEW s \in Subs, EventsPage(s)
    PROVE  SyncInv' /\ Forward
  <1> DEFINE pc == IF LastPage(s) THEN AfterCatchUp(s) ELSE "catching"
             pages == IF LastPage(s) THEN 0 ELSE subs[s].pages + 1
             m == [subs[s] EXCEPT !.pc = pc]
             n == [m EXCEPT !.pages = pages]
  <1>1. /\ SyncBase /\ subs \in [Subs -> Sub] /\ subs[s] \in Sub /\ subs[s].pc = "catching"
        /\ subs[s].pages \in 0..(MaxPages - 1) /\ MaxPages \in Nat \ {0}
    BY SyncFacts, EventsTyped DEF SyncInv, SyncBase, EventsPage
  <1>2. subs' = [subs EXCEPT ![s] = n]
    BY <1>1 DEF EventsPage
  <1>3. pc \in {"catching", "opening", "gone"} /\ (pc = "opening" => s = current)
    BY DEF AfterCatchUp
  <1>4. pages \in 0..(MaxPages - 1)
    BY <1>1 DEF LastPage
  <1> HIDE DEF pc, pages
  <1>5. m \in Sub /\ m.pc = pc /\ m.at = subs[s].at /\ m.start = subs[s].start
    BY <1>1, <1>3 DEF Sub
  <1> HIDE DEF m
  <1>6. n \in Sub /\ n.pc = pc /\ n.at = subs[s].at /\ n.start = subs[s].start
    BY <1>4, <1>5 DEF Sub
  <1> HIDE DEF n
  <1>7. /\ subs' \in [Subs -> Sub] /\ subs'[s] = n
        /\ \A r \in Subs : r # s => subs'[r] = subs[r]
    BY <1>1, <1>2, <1>6
  <1>8. current' \in {0, current} /\ \A r \in Subs : Streaming(subs'[r]) => r = current'
    BY <1>1, <1>3, <1>6, <1>7 DEF SyncBase, Streaming, EventsPage
  <1>9. \A r \in Subs : r # s => OrGone(subs[r], subs'[r])
    BY <1>7 DEF OrGone
  <1>10. /\ Persist(s, Processed(s)) /\ Deliver(Fresh(s)) /\ Began(s)
         /\ UNCHANGED <<setting, ledger>>
    BY DEF EventsPage
  <1>11. PICK X : X = Fresh(s)
    OBVIOUS
  <1>12. X \subseteq Fresh(s) /\ (setting.abrupt \/ X = Fresh(s)) /\ Deliver(X)
    BY <1>10, <1>11
  <1>13. /\ subs'[s].at = subs[s].at /\ subs'[s].start = subs[s].start
         /\ subs'[s].pc \in {"catching", "opening", "gone"}
    BY <1>3, <1>6, <1>7
  <1> QED
    BY <1>1, <1>7, <1>8, <1>9, <1>10, <1>12, <1>13, PageStep

LEMMA DiesInPageStep ==
    ASSUME SyncInv, NEW s \in Subs, DiesInPage(s)
    PROVE  SyncInv' /\ Forward
  <1>1. /\ SyncBase /\ setting.abrupt /\ subs[s].pc = "catching" /\ current' = 0
        /\ subs' = [r \in Subs |-> IF subs[r].pc = "unused" THEN subs[r]
                                   ELSE [subs[r] EXCEPT !.pc = "gone"]]
    BY DEF DiesInPage, SyncInv
  <1>2. \A r \in Subs : subs[r] \in Sub
    BY <1>1, SyncFacts
  <1>3. \A r \in Subs : /\ OrGone(subs[r], subs'[r]) /\ ~Streaming(subs'[r]) /\ subs'[r] \in Sub
    BY <1>1, <1>2 DEF OrGone, Streaming, Sub
  <1>4. subs'[s].at = subs[s].at /\ subs'[s].start = subs[s].start /\ subs'[s].pc = "gone"
    BY <1>1, <1>2 DEF Sub
  <1>5. PICK e \in Fresh(s) : Deliver({f \in Fresh(s) : f < e})
    BY DEF DiesInPage
  <1>6. PICK X : X = {f \in Fresh(s) : f < e}
    OBVIOUS
  <1>7. X \subseteq Fresh(s) /\ Deliver(X)
    BY <1>5, <1>6
  <1>8. Persist(s, Processed(s)) /\ Began(s) /\ UNCHANGED <<setting, ledger>>
    BY DEF DiesInPage
  <1>9. subs' \in [Subs -> Sub]
    BY <1>1, <1>3
  <1> QED
    BY <1>1, <1>3, <1>4, <1>7, <1>8, <1>9, PageStep

\* The next transaction of the stream.
LEMMA MessageStep ==
    ASSUME SyncInv, NEW s \in Subs, Message(s)
    PROVE  SyncInv' /\ Forward
  <1> DEFINE p == subs[s].at
             e == p + 1
             X == OfTx(e)
  <1>1. /\ SyncBase /\ subs \in [Subs -> Sub] /\ subs[s] \in Sub /\ subs[s].pc = "open"
        /\ mem[s] \in Cursor /\ mem[s].cursor \in {Null} \cup Nat /\ mem[s].last \in Nat
        /\ mem[s].ids \in Seq(Id) /\ ledger \in Nat /\ setting.small \in BOOLEAN
        /\ SubOK(subs[s], mem[s], ledger) /\ p \in Nat /\ since \in Nat
    <2>1. SyncBase
      BY DEF SyncInv
    <2>2. p \in Nat
      BY <2>1, SyncFacts, EventsTyped
    <2> QED
      BY <2>1, <2>2, SyncFacts DEF SyncBase, Message
  <1>2. /\ Top(ledger) \in 0..Len(LedgerOf) /\ Len(LedgerOf) \in Nat /\ Events = 1..Len(LedgerOf)
        /\ \A f \in Events : f <= Top(ledger) <=> LedgerOf[f] <= ledger
    BY <1>1, TopIs, EventsTyped
  <1>3. e <= Top(ledger) /\ e \in Events /\ LedgerOf[e] \in Nat /\ LedgerOf[e] <= ledger
    <2>1. e <= Top(ledger)
      BY DEF Message
    <2>2. e \in 1..Len(LedgerOf)
      BY <1>1, <1>2, <2>1
    <2>3. e \in Events /\ LedgerOf[e] \in Nat
      BY <1>2, <2>2, EventsTyped
    <2> QED
      BY <1>2, <2>1, <2>3
  <1>4. Edge(p)
    BY <1>1 DEF SubOK
  <1>5. PICK m \in Events :
            /\ m > p /\ OfTx(p + 1) = (p + 1)..m /\ Cardinality(OfTx(p + 1)) = m - p
            /\ Edge(m) /\ TxOf[m] = TxOf[p + 1] /\ LedgerOf[m] = LedgerOf[p + 1]
    BY <1>1, <1>3, <1>4, TxIs
  <1>6. m \in 0..Len(LedgerOf) /\ m <= Top(ledger) /\ X = e..m /\ Cardinality(X) = m - p
    BY <1>2, <1>3, <1>5
  <1> HIDE DEF X
  <1>7. X \subseteq 1..Top(ledger) /\ X \subseteq Events
    BY <1>1, <1>2, <1>6
  <1>8. /\ TxIds(e) \in Seq(Id) /\ Contains(TxIds(e), KeyId(e))
        /\ \A f \in Events : ~Contains(TxIds(e), RpcId(f))
        /\ \A f \in Events : Contains(TxIds(e), KeyId(f)) => TxOf[f] = TxOf[e]
    <2>1. m - p \in Nat /\ Cardinality(OfTx(e)) = m - p
      BY <1>1, <1>2, <1>5
    <2>2. PICK g \in Events : g = e
      BY <1>3
    <2>3. PICK k \in Nat : k = m - p
      BY <2>1
    <2>4. Cardinality(OfTx(g)) = k
      BY <2>1, <2>2, <2>3
    <2>5. /\ TxIds(g) \in Seq(Id) /\ Contains(TxIds(g), KeyId(g))
          /\ \A f \in Events : ~Contains(TxIds(g), RpcId(f))
          /\ \A f \in Events : Contains(TxIds(g), KeyId(f)) => TxOf[f] = TxOf[g]
      BY <2>4, TxIdsAre
    <2> QED
      BY <2>2, <2>5
  <1>9. PICK r : r = Remember(mem[s].ids, TxIds(e))
    OBVIOUS
  <1>10. /\ r \in Seq(Id)
         /\ \A y : Contains(r, y) => Contains(mem[s].ids, y) \/ Contains(TxIds(e), y)
         /\ setting.small => Len(r) <= SmallCap
         /\ ~setting.small =>
                \A y : Contains(mem[s].ids, y) \/ Contains(TxIds(e), y) => Contains(r, y)
    BY <1>1, <1>8, <1>9, Remembers, EventsTyped
  <1>11. PICK c : c = Advanced([mem[s] EXCEPT !.ids = Remember(@, TxIds(e))], Null, LedgerOf[e])
    OBVIOUS
  <1>12. /\ c \in Cursor /\ c.ids = r /\ c.cursor = mem[s].cursor
         /\ c.last = IF LedgerOf[e] > mem[s].last THEN LedgerOf[e] ELSE mem[s].last
    <2>1. PICK d \in Cursor : d = mem[s]
      BY <1>1
    <2>2. PICK l \in Nat : l = LedgerOf[e]
      BY <1>3
    <2>3. PICK q \in {Null} \cup Nat : q = Null
      OBVIOUS
    <2>4. c = Advanced([d EXCEPT !.ids = r], q, l)
      BY <1>9, <1>11, <2>1, <2>2, <2>3 DEF Cursor
    <2>5. PICK w \in Seq(Id) : w = r
      BY <1>10
    <2>6. c = Advanced([d EXCEPT !.ids = w], q, l)
      BY <2>4, <2>5
    <2>7. \A x : x = Advanced([d EXCEPT !.ids = w], q, l) =>
            /\ x \in Cursor /\ x.ids = w
            /\ x.cursor = IF q = Null THEN d.cursor ELSE q
            /\ x.last = IF l > d.last THEN l ELSE d.last
      BY ONLY AdvancedIs
    <2> QED
      BY <2>1, <2>2, <2>3, <2>5, <2>6, <2>7
  <1>13. CopyOK(c, ledger, setting) /\ Onward(c, mem[s])
    <2>1. mem[s].last <= ledger /\ mem[s].cursor <= Top(ledger)
      BY <1>1 DEF SyncBase, CopyOK
    <2> QED
      BY <1>1, <1>3, <1>10, <1>12, <2>1 DEF CopyOK, Onward, Null
  <1>14. Persist(s, c) /\ Deliver(X) /\ UNCHANGED <<setting, ledger, current, since>>
    BY <1>11 DEF Message, X
  <1> DEFINE n == [subs[s] EXCEPT !.at = m]
  <1>15. subs' = [subs EXCEPT ![s] = n]
    <2>1. p + (m - p) = m
      BY <1>1, <1>6
    <2>2. subs' = [subs EXCEPT ![s].at = p + (m - p)]
      BY <1>1, <1>5 DEF Message
    <2> HIDE DEF p
    <2> QED
      BY <1>1, <2>1, <2>2
  <1>16. n \in Sub /\ n.pc = "open" /\ n.at = m /\ n.start = subs[s].start
    BY <1>1, <1>6 DEF Sub
  <1> HIDE DEF n
  <1>17. /\ subs' \in [Subs -> Sub] /\ subs'[s] = n
         /\ \A q \in Subs : q # s => subs'[q] = subs[q]
    BY <1>1, <1>15, <1>16
  <1>18. SubOK(n, c, ledger)
    BY <1>1, <1>5, <1>16 DEF SubOK
  <1>19. \A q \in Subs : q # s => OrGone(subs[q], subs'[q])
    BY <1>17 DEF OrGone
  <1>20. /\ current' \in 0..MaxSubs
         /\ \A q \in Subs : Streaming(subs'[q]) => q = current'
         /\ \A q \in Subs : subs'[q].pc = "unused" => q # current'
    BY <1>1, <1>14, <1>16, <1>17 DEF SyncBase, Streaming
  <1>21. ASSUME Calm(setting), NoneTwice, mem[s] = disk
         PROVE  /\ X \cap delivered = {} /\ \A f \in delivered \cup X : HasIdOf(f, c)
                /\ subs'[s].pc = "open" => delivered \cup X \subseteq 1..subs'[s].at
    <2>1. delivered \subseteq 1..p /\ \A f \in delivered : HasIdOf(f, mem[s])
      BY <1>1, <1>21 DEF NoneTwice
    <2>2. \A f \in delivered : HasIdOf(f, c)
      BY <1>10, <1>12, <1>21, <2>1 DEF Calm, HasIdOf
    <2>3. \A f \in X : KeyId(f) = KeyId(e)
      BY DEF X, OfTx, KeyId
    <2>4. \A f \in X : HasIdOf(f, c)
      BY <1>8, <1>10, <1>12, <1>21, <2>3 DEF Calm, HasIdOf
    <2>5. X \cap delivered = {} /\ delivered \cup X \subseteq 1..m
      <3>1. m \in Nat /\ m > p
        BY <1>5, <1>6
      <3>2. \A f \in X : f \in 1..m /\ f > p
        BY <1>1, <1>6, <3>1
      <3>3. \A f \in delivered : f \in 1..m /\ ~(f > p)
        BY <1>1, <2>1, <3>1
      <3> QED
        BY <3>2, <3>3
    <2> QED
      BY <1>16, <1>17, <2>2, <2>4, <2>5
  <1>22. ASSUME Told(setting), NonePassedOver
         PROVE  Truthful(c, delivered \cup X, since') /\ c.cursor # Null
    <2>1. Truthful(mem[s], delivered, since) /\ since' = since
      BY <1>14, <1>22 DEF NonePassedOver
    <2>2. c.cursor # Null
      BY <1>1, <1>12, <1>22 DEF NonePassedOver, NullOK
    <2>3. Point(c) = Point(mem[s])
      BY <1>12, <2>2 DEF Point
    <2>4. \A f \in (1..Point(c)) \ Malformed : LedgerOf[f] >= since' => f \in delivered \cup X
      BY <2>1, <2>3 DEF Truthful
    <2>5. \A f \in Events : Contains(c.ids, RpcId(f)) => f \in delivered \cup X \cup Malformed
      BY <1>8, <1>10, <1>12, <2>1 DEF Truthful
    <2>6. \A f \in Events : Contains(c.ids, KeyId(f)) => f \in delivered \cup X
      <3>1. \A f \in Events : TxOf[f] = TxOf[e] => f \in X
        BY DEF X, OfTx
      <3> QED
        BY <1>8, <1>10, <1>12, <2>1, <3>1 DEF Truthful
    <2> QED
      BY <2>2, <2>4, <2>5, <2>6 DEF Truthful
  <1>23. /\ since' \in 0..MaxLedger /\ since <= since'
         /\ Working(subs[s]) /\ SubOK(subs'[s], c, ledger)
    BY <1>1, <1>14, <1>17, <1>18 DEF SyncBase, Working
  <1> HIDE DEF p
  <1> QED
    BY <1>7, <1>13, <1>14, <1>17, <1>19, <1>20, <1>21, <1>22, <1>23, CopyStep

LEMMA SyncStarts ==
    ASSUME SyncInit
    PROVE  SyncInv
  <1>1. setting \in Settings /\ setting \in Setting /\ ledger = 1 /\ 1 \in 1..MaxLedger
    BY SyncBoundsAssumption, EventsTyped DEF SyncInit
  <1>2. Top(1) \in 0..Len(LedgerOf) /\ Len(LedgerOf) \in Nat /\ Top(0) = 0
    BY TopIs, TopZero, EventsTyped
  <1>3. \A e \in Events : e <= Top(1) => LedgerOf[e] <= 1
    BY TopIs
  <1>4. <<>> \in Seq(Id) /\ Len(<<>>) = 0 /\ \A y : ~Contains(<<>>, y)
    BY DEF Contains
  <1>5. CopyOK(NoCursor, 1, setting)
    BY <1>2, <1>4, EventsTyped DEF CopyOK, NoCursor, Cursor, Null
  <1>6. CopyOK(disk, 1, setting)
    <2>1. CASE setting.resumed
      <3>1. disk = [cursor |-> Top(1), last |-> 1, ids |-> <<>>]
        BY <2>1 DEF SyncInit
      <3> QED
        BY <1>2, <1>4, <3>1, EventsTyped DEF CopyOK, Cursor
    <2>2. CASE ~setting.resumed
      BY <1>5, <2>2 DEF SyncInit
    <2> QED
      BY <2>1, <2>2
  <1>7. Unused \in Sub /\ Unused.pc = "unused" /\ Unused.at = 0 /\ Unused.start = 0
    BY EventsTyped DEF Unused, Sub
  <1>8. SubOK(Unused, NoCursor, 1)
    <2>1. Edge(0)
      BY EventsTyped DEF Edge
    <2> QED
      BY <1>7, <2>1 DEF SubOK
  <1>9. /\ mem = [s \in Subs |-> NoCursor] /\ subs = [s \in Subs |-> Unused]
        /\ current = 0 /\ delivered = {} /\ twice = {}
    BY DEF SyncInit
  <1>10. since \in 0..MaxLedger
    BY EventsTyped DEF SyncInit
  <1>11. SyncBase
    <2>1. NoCursor \in Cursor /\ 0 \in 0..MaxSubs /\ \A s \in Subs : s # 0
      BY <1>5, EventsTyped DEF CopyOK, Subs
    <2> QED
      BY <1>1, <1>5, <1>6, <1>7, <1>8, <1>9, <1>10, <2>1 DEF SyncBase, Streaming
  <1>12. Alone
    BY <1>7, <1>9 DEF Alone, Working
  <1>13. NoneTwice
    BY <1>7, <1>9 DEF NoneTwice
  <1>14. Told(setting) => NonePassedOver
    <2>1. Truthful(NoCursor, {}, since)
      <3>1. Point(NoCursor) = 0
        BY <1>2 DEF Point, NoCursor
      <3> QED
        BY <1>4, <3>1 DEF Truthful, NoCursor
    <2>2. setting.resumed => Truthful(disk, {}, since) /\ disk.cursor # Null
      <3> SUFFICES ASSUME setting.resumed PROVE Truthful(disk, {}, since) /\ disk.cursor # Null
        OBVIOUS
      <3>1. disk = [cursor |-> Top(1), last |-> 1, ids |-> <<>>] /\ since = 2
        BY DEF SyncInit
      <3>2. disk.cursor # Null /\ Point(disk) = Top(1)
        BY <1>2, <3>1 DEF Point, Null
      <3>3. \A e \in 1..Top(1) : ~(LedgerOf[e] >= since)
        BY <1>2, <1>3, <3>1, EventsTyped
      <3> QED
        BY <1>4, <3>1, <3>2, <3>3 DEF Truthful
    <2>3. ~setting.resumed => disk = NoCursor
      BY DEF SyncInit
    <2>4. \A s \in Subs : NullOK(subs[s], setting)
      BY <1>7, <1>9 DEF NullOK
    <2> QED
      BY <1>9, <2>1, <2>2, <2>3, <2>4 DEF NonePassedOver
  <1> QED
    BY <1>11, <1>12, <1>13, <1>14 DEF SyncInv

LEMMA SyncKeeps ==
    ASSUME SyncInv, [SyncNext]_syncVars
    PROVE  SyncInv' /\ Forward
  <1>1. CASE CloseLedger
    BY <1>1, CloseLedgerStep
  <1>2. CASE CloseSubscription
    BY <1>2, CloseSubscriptionStep
  <1>3. CASE ReloadPage
    BY <1>3, ReloadPageStep
  <1>4. CASE \E s \in Subs :
                \/ Subscribe(s) \/ LatestLedger(s) \/ EventsPage(s) \/ DiesInPage(s)
                \/ CatchUpFails(s) \/ Connect(s) \/ Message(s) \/ StreamError(s) \/ Reconnect(s)
    BY <1>4, SubscribeStep, LatestLedgerStep, EventsPageStep, DiesInPageStep, CatchUpFailsStep,
       ConnectStep, MessageStep, StreamErrorStep, ReconnectStep
  <1>5. CASE UNCHANGED syncVars
    <2>1. SyncInv'
      BY <1>5 DEF syncVars, SyncInv, SyncBase, Alone, NoneTwice, NonePassedOver
    <2>2. disk' = disk /\ SyncBase
      BY <1>5 DEF syncVars, SyncInv
    <2> QED
      BY <2>1, <2>2, DiskSame
  <1> QED
    BY <1>1, <1>2, <1>3, <1>4, <1>5 DEF SyncNext

LEMMA SyncAlways == SyncSpec => []SyncInv
  <1>1. SyncInv /\ [SyncNext]_syncVars => SyncInv'
    BY SyncKeeps
  <1> QED
    BY SyncStarts, <1>1, PTL DEF SyncSpec

\* The types, and that the ids fit where MAX_PROCESSED_IDS is SmallCap.
THEOREM SyncTypesAlways == SyncSpec => []SyncTypeOK
  <1>1. SyncInv => SyncTypeOK
    <2> SUFFICES ASSUME SyncInv PROVE SyncTypeOK
      OBVIOUS
    <2>1. SyncBase /\ disk \in Cursor
      BY SyncFacts DEF SyncInv
    <2>2. delivered \subseteq Events
      <3>1. Top(ledger) \in 0..Len(LedgerOf) /\ Len(LedgerOf) \in Nat /\ Events = 1..Len(LedgerOf)
        BY <2>1, SyncFacts, TopIs, EventsTyped
      <3>2. 1..Top(ledger) \subseteq Events
        BY <3>1
      <3> QED
        BY <2>1, <3>2 DEF SyncBase
    <2> QED
      BY <2>1, <2>2 DEF SyncBase, CopyOK, SyncTypeOK
  <1> QED
    BY SyncAlways, <1>1, PTL

\* Of every length of the event sequence, every page size and every number of
\* subscriptions: under the conditions of NothingPassedOver, the catch-up and the
\* stream between them deliver every event the stored resume point has passed.
THEOREM NothingIsEverPassedOver == SyncSpec => []NothingPassedOver
  <1>1. SyncInv => NothingPassedOver
    BY DEF SyncInv, NonePassedOver, Truthful, Told, NothingPassedOver, Passed, Point
  <1> QED
    BY SyncAlways, <1>1, PTL

\* No event reaches onEvent twice, across reconnects and reloads, while catch-ups
\* do not overlap, Horizon keeps up, localStorage takes the writes and the ids fit.
THEOREM NeverDeliveredTwice == SyncSpec => []NeverTwice
  <1>1. SyncInv => NeverTwice
    BY DEF SyncInv, NoneTwice, Calm, NeverTwice, ProcessedOnce
  <1> QED
    BY SyncAlways, <1>1, PTL

\* The resume point in localStorage only moves forward (advance), whichever
\* subscription writes it, while catch-ups do not overlap.
THEOREM ResumePointNeverGoesBack == SyncSpec => NeverBackwards
  <1>1. SyncInv /\ [SyncNext]_syncVars =>
            [~setting.overlap => disk'.cursor >= disk.cursor /\ disk'.last >= disk.last]_syncVars
    BY SyncKeeps DEF Forward, Onward
  <1> QED
    BY SyncAlways, <1>1, PTL DEF SyncSpec, NeverBackwards

------------------------------------------------------------------------------
(* The composition                                                           *)

\* A behaviour of the instances side by side is a behaviour of every component: what is
\* proved of a component holds in it.
LEMMA NetworkIsItsParts ==
    MCSpec => SyncSpec /\ PayoutSpec /\ EffectsSpec /\ OfflineSpec /\ CacheSpec
  <1>1. MCInit => SyncInit /\ PayoutInit /\ EffectsInit /\ OfflineInit /\ CacheInit
    BY DEF MCInit
  <1>2. [MCNext]_MCVars => /\ [SyncNext]_syncVars /\ [PayoutNext]_payoutVars
                           /\ [EffectsNext]_effectsVars /\ [OfflineNext]_offlineVars
                           /\ [CacheNext]_cacheVars
    BY DEF MCNext, MCVars
  <1> QED
    BY <1>1, <1>2, PTL DEF MCSpec, SyncSpec, PayoutSpec, EffectsSpec, OfflineSpec, CacheSpec

\* The variables of all five components keep their types, for any amounts, keys, tabs,
\* submissions, readers and events.
THEOREM NetworkTypesAlways == MCSpec => []NetworkTypeOK
  <1>1. EffectsSpec => []EffectsTypeOK
    <2>1. EffectsInit => EffectsInv
      BY EffectsStarts
    <2>2. EffectsInv /\ [EffectsNext]_effectsVars => EffectsInv'
      BY EffectsKeeps
    <2>3. EffectsInv => EffectsTypeOK
      BY DEF EffectsInv
    <2> QED
      BY <2>1, <2>2, <2>3, PTL DEF EffectsSpec
  <1>2. OfflineSpec => []OfflineTypeOK
    <2>1. OfflineInv => OfflineTypeOK
      BY DEF OfflineInv
    <2> QED
      BY <2>1, OfflineStarts, OfflineKeeps, PTL DEF OfflineSpec
  <1>3. SyncTypeOK /\ PayoutTypeOK /\ EffectsTypeOK /\ OfflineTypeOK /\ CacheTypeOK
            => NetworkTypeOK
    BY DEF NetworkTypeOK
  <1> QED
    BY <1>1, <1>2, <1>3, NetworkIsItsParts, SyncTypesAlways, PayoutTypesAlways,
       CacheTypesAlways, PTL
==============================================================================
