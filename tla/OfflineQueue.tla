---------------------------- MODULE OfflineQueue ----------------------------
(***************************************************************************)
(* The offline mutation queue of lib/pwa-utils.ts: submissions kept in       *)
(* localStorage, and flushes that replay them in order.  A flush is started  *)
(* by the online event, by the tab becoming visible, by the service worker   *)
(* and by the user, and nothing keeps two of them apart.                     *)
(*                                                                           *)
(* A flush works on the list it read when it started and yields only while   *)
(* it awaits a response: the queue operation that follows is done in         *)
(* microtasks, so an action is the answer to one request with all it does to *)
(* the queue, up to the next request.                                        *)
(***************************************************************************)
EXTENDS Integers, Sequences, SequencesExt

CONSTANTS
    Submissions,    \* ids that may be queued, each once
    Flushes,        \* flushes that may be under way at once
    MaxSubmits,     \* OFFLINE_SUBMISSION_MAX_ATTEMPTS
    Offlines        \* the environments considered: a subset of Offline

\* overlap: a flush may start while another is under way.  quota: setItem may throw.
Offline == [overlap : BOOLEAN, quota : BOOLEAN]

ASSUME OfflineAssumption == MaxSubmits \in Nat \ {0} /\ Offlines \subseteq Offline

VARIABLES
    offline,    \* fixed for a behaviour
    queue,      \* the stored submissions
    flush,      \* [Flushes -> what the flush still has to send, the first on the wire]
    (* history *)
    entered,    \* submissions in the order they were queued
    errors,     \* [Submissions -> 5xx answers, counted up to MaxSubmits]
    done        \* submissions accepted, refused with a 4xx, or discarded by the user

offlineVars == <<offline, queue, flush, entered, errors, done>>

Entry == [id : Submissions, attempts : 0..(MaxSubmits - 1), conflict : BOOLEAN]

OfflineTypeOK ==
    /\ offline \in Offlines
    /\ queue \in Seq(Entry)
    /\ flush \in [Flushes -> Seq(Entry)]
    /\ entered \in Seq(Submissions)
    /\ errors \in [Submissions -> 0..MaxSubmits]
    /\ done \subseteq Submissions

OfflineInit ==
    /\ offline \in Offlines
    /\ queue = <<>>
    /\ flush = [f \in Flushes |-> <<>>]
    /\ entered = <<>>
    /\ errors = [s \in Submissions |-> 0]
    /\ done = {}

------------------------------------------------------------------------------
(* createOfflineQueue over createLocalStorageQueueStorage                    *)

Queued(s) == \E i \in DOMAIN queue : queue[i].id = s
InConflict(s) == \E i \in DOMAIN queue : queue[i].id = s /\ queue[i].conflict

\* A write that fails is swallowed: the queue stays as it was.
Writes(q) ==
    \/ queue' = q
    \/ offline.quota /\ UNCHANGED queue

\* Ids differ: the filter by id drops one entry at most.
Without(q, s) == RemoveFirstMatch(q, LAMBDA e : e.id = s)
Removes(s) == Writes(Without(queue, s))
\* { ...current, ...patch }
Updates(s, patched) ==
    Writes([i \in DOMAIN queue |-> IF queue[i].id = s THEN patched[queue[i]] ELSE queue[i]])

Enqueue(s) ==
    /\ ~Contains(entered, s)
    /\ Writes(Append(queue, [id |-> s, attempts |-> 0, conflict |-> FALSE]))
    /\ entered' = Append(entered, s)
    /\ UNCHANGED <<offline, flush, errors, done>>

------------------------------------------------------------------------------
(* flushOfflineQueue                                                         *)

\* What a flush that lists q will send: the entries before the first conflict.
Sendable(q) ==
    LET first == SelectInSeq(q, LAMBDA e : e.conflict)
    IN IF first = 0 THEN q ELSE SubSeq(q, 1, first - 1)

CountsError(s) ==
    errors' = [errors EXCEPT ![s] = IF errors[s] < MaxSubmits THEN errors[s] + 1 ELSE MaxSubmits]

Sending(f) == flush[f] # <<>>
OnWire(f) == Head(flush[f])
GoesOn(f) == flush' = [flush EXCEPT ![f] = Tail(@)]
Breaks(f) == flush' = [flush EXCEPT ![f] = <<>>]

StartFlush(f) ==
    /\ offline.overlap \/ \A g \in Flushes : ~Sending(g)
    /\ ~Sending(f)
    /\ Sendable(queue) # <<>>
    /\ flush' = [flush EXCEPT ![f] = Sendable(queue)]
    /\ UNCHANGED <<offline, queue, entered, errors, done>>

\* 2xx or 3xx, and every 4xx but 409 and 412: removed, and on to the next.
Settles(f) ==
    /\ Sending(f)
    /\ Removes(OnWire(f).id)
    /\ GoesOn(f)
    /\ done' = done \cup {OnWire(f).id}
    /\ UNCHANGED <<offline, entered, errors>>

ConflictDropped(f) ==       \* mutant: 409 is a 4xx like any other
    /\ Sending(f)
    /\ Removes(OnWire(f).id)
    /\ Breaks(f)
    /\ UNCHANGED <<offline, entered, errors, done>>

\* 409 or 412.
Conflicts(f) ==
    /\ Sending(f)
    /\ Updates(OnWire(f).id, [e \in Entry |-> [e EXCEPT !.conflict = TRUE]])
    /\ Breaks(f)
    /\ UNCHANGED <<offline, entered, errors, done>>

\* 5xx: the count is the listed one plus one.
ServerError(f) ==
    LET attempts == OnWire(f).attempts + 1
    IN /\ Sending(f)
       /\ CountsError(OnWire(f).id)
       /\ IF attempts >= MaxSubmits
          THEN Removes(OnWire(f).id)
          ELSE Updates(OnWire(f).id, [e \in Entry |-> [e EXCEPT !.attempts = attempts]])
       /\ Breaks(f)
       /\ UNCHANGED <<offline, entered, done>>

\* The fetch rejects, or the page goes away.
Abandons(f) ==
    /\ Sending(f)
    /\ Breaks(f)
    /\ UNCHANGED <<offline, queue, entered, errors, done>>

------------------------------------------------------------------------------
(* The user's choice on a conflict, as OfflineBanner offers it               *)

RetryConflict(s) ==
    /\ InConflict(s)
    /\ Updates(s, [e \in Entry |-> [e EXCEPT !.conflict = FALSE, !.attempts = 0]])
    /\ UNCHANGED <<offline, flush, entered, errors, done>>

DiscardConflict(s) ==
    /\ InConflict(s)
    /\ Removes(s)
    /\ done' = done \cup {s}
    /\ UNCHANGED <<offline, flush, entered, errors>>

OfflineNext ==
    \/ \E s \in Submissions : Enqueue(s) \/ RetryConflict(s) \/ DiscardConflict(s)
    \/ \E f \in Flushes :
        StartFlush(f) \/ Settles(f) \/ Conflicts(f) \/ ServerError(f) \/ Abandons(f)

OfflineSpec == OfflineInit /\ [][OfflineNext]_offlineVars

------------------------------------------------------------------------------
(* Properties                                                                *)

\* A submission that is no longer in the queue was accepted, refused or discarded, or has
\* had MaxSubmits server errors, whatever stale counts overlapping flushes write back.
\* The last is what the code does and its test asserts (pwa-utils.test.ts:342); it is not
\* what docs/offline-queue.md:108 says, that repeated server errors stop the retries
\* "without dropping the entry".
SubmissionsAccounted ==
    ~offline.quota =>
        \A i \in DOMAIN entered :
            Queued(entered[i]) \/ entered[i] \in done \/ errors[entered[i]] >= MaxSubmits
==============================================================================
