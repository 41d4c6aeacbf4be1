---------------------------- MODULE DomainEvents ----------------------------
(***************************************************************************)
(* A subscriber of a domain event in one tab: runWithRetry and               *)
(* registerReplay of lib/domain-events/consume.ts, and the dead-letter queue *)
(* of lib/domain-events/dlq.ts, kept in memory and written to localStorage.  *)
(* Envelopes are those that pass parseDomainEvent as the current version.    *)
(***************************************************************************)
EXTENDS Naturals, Sequences, SequencesExt, FiniteSets

CONSTANTS
    Envelopes,      \* events emitted
    EventRetries,     \* RetryPolicy.maxRetries
    MaxEventLetters,  \* MAX_DLQ_ENTRIES
    MaxReplays      \* bound on the attempts recorded with an entry

ASSUME DomainEventBoundsAssumption ==
    EventRetries \in Nat /\ MaxEventLetters \in Nat \ {0} /\ MaxReplays \in Nat

VARIABLES
    storageFull,    \* setItem may throw; fixed for a behaviour
    subscribed,     \* the listener and the replayer are registered
    delivery,       \* [Envelopes -> the attempts of runWithRetry]
    replaying,      \* entries whose replay awaits the handler
    entries,        \* the queue of the tab
    saved,          \* the queue in localStorage
    (* history *)
    handled,        \* envelopes a handler has accepted
    excused         \* envelopes removed, cleared, dropped at the cap, or cut off

eventVars ==
    <<storageFull, subscribed, delivery, replaying, entries, saved, handled, excused>>

Delivery == [pc : {"none", "running", "waiting", "over"}, n : 0..(EventRetries + 1)]
Entry == [envelope : Envelopes, attempts : 1..(EventRetries + 1 + MaxReplays)]

EventTypeOK ==
    /\ storageFull \in BOOLEAN /\ subscribed \in BOOLEAN
    /\ delivery \in [Envelopes -> Delivery]
    /\ replaying \subseteq Entry
    /\ entries \in Seq(Entry) /\ saved \in Seq(Entry)
    /\ Len(entries) <= MaxEventLetters /\ Len(saved) <= MaxEventLetters
    /\ handled \subseteq Envelopes /\ excused \subseteq Envelopes

EventInit ==
    /\ storageFull \in BOOLEAN
    /\ subscribed = TRUE
    /\ delivery = [e \in Envelopes |-> [pc |-> "none", n |-> 0]]
    /\ replaying = {}
    /\ entries = <<>> /\ saved = <<>>
    /\ handled = {} /\ excused = {}

------------------------------------------------------------------------------
(* The queue                                                                 *)

\* commit: a failing write keeps the in-memory copy.
Commit(queue) ==
    /\ entries' = queue
    /\ \/ saved' = queue
       \/ storageFull /\ saved' = saved

InQueue(queue) == {queue[i].envelope : i \in DOMAIN queue}

\* capture: the oldest entries are dropped past the cap.
Captured(queue, entry) ==
    LET all == Append(queue, entry)
    IN IF Len(all) > MaxEventLetters THEN Tail(all) ELSE all

Capture(entry) ==
    /\ Commit(Captured(entries, entry))
    /\ excused' = excused \cup (InQueue(entries) \ InQueue(Captured(entries, entry)))

\* Entries have ids of their own: the filter by id drops one.
Without(entry) == RemoveFirst(entries, entry)

RemoveEntry(entry) ==
    /\ entry \in ToSet(entries)
    /\ Commit(Without(entry))
    /\ excused' = excused \cup {entry.envelope}
    /\ UNCHANGED <<storageFull, subscribed, delivery, replaying, handled>>

ClearQueue ==
    /\ entries # <<>>
    /\ Commit(<<>>)
    /\ excused' = excused \cup InQueue(entries)
    /\ UNCHANGED <<storageFull, subscribed, delivery, replaying, handled>>

------------------------------------------------------------------------------
(* runWithRetry                                                              *)

Emit(e) ==
    /\ delivery[e].pc = "none"
    /\ delivery' = [delivery EXCEPT ![e] =
            IF subscribed THEN [pc |-> "running", n |-> 1] ELSE [pc |-> "over", n |-> 0]]
    /\ UNCHANGED <<storageFull, subscribed, replaying, entries, saved, handled, excused>>

Handle(e) ==
    /\ delivery[e].pc = "running"
    /\ delivery' = [delivery EXCEPT ![e].pc = "over"]
    /\ handled' = handled \cup {e}
    /\ UNCHANGED <<storageFull, subscribed, replaying, entries, saved, excused>>

HandlerFails(e) ==
    /\ delivery[e].pc = "running"
    /\ delivery[e].n <= EventRetries
    /\ delivery' = [delivery EXCEPT ![e].pc = "waiting"]
    /\ UNCHANGED <<storageFull, subscribed, replaying, entries, saved, handled, excused>>

\* The backoff timer, also when the subscriber has gone.
RetryHandler(e) ==
    /\ delivery[e].pc = "waiting"
    /\ delivery' = [delivery EXCEPT ![e] = [pc |-> "running", n |-> @.n + 1]]
    /\ UNCHANGED <<storageFull, subscribed, replaying, entries, saved, handled, excused>>

RetriesExhausted(e) ==
    /\ delivery[e].pc = "running" /\ delivery[e].n > EventRetries
    /\ delivery' = [delivery EXCEPT ![e].pc = "over"]
    /\ Capture([envelope |-> e, attempts |-> delivery[e].n])
    /\ UNCHANGED <<storageFull, subscribed, replaying, handled>>

------------------------------------------------------------------------------
(* replay                                                                    *)

KeepsEntry(entry) == entries    \* mutant: the entry is left in the queue
TakenOut(entry) == Without(entry)

\* "the original is removed up front"
ReplayEntry(entry) ==
    /\ entry \in ToSet(entries) /\ subscribed
    /\ entry.attempts < EventRetries + 1 + MaxReplays
    /\ Commit(TakenOut(entry))
    /\ replaying' = replaying \cup {entry}
    /\ UNCHANGED <<storageFull, subscribed, delivery, handled, excused>>

ReplayOk(entry) ==
    /\ entry \in replaying
    /\ replaying' = replaying \ {entry}
    /\ handled' = handled \cup {entry.envelope}
    /\ UNCHANGED <<storageFull, subscribed, delivery, entries, saved, excused>>

ReplayFails(entry) ==
    /\ entry \in replaying
    /\ replaying' = replaying \ {entry}
    /\ Capture([entry EXCEPT !.attempts = entry.attempts + 1])
    /\ UNCHANGED <<storageFull, subscribed, delivery, handled>>

------------------------------------------------------------------------------

Toggle ==
    /\ subscribed' = ~subscribed
    /\ UNCHANGED <<storageFull, delivery, replaying, entries, saved, handled, excused>>

\* The page is reloaded: the queue is loaded again, timers and replays are gone.
ReloadQueue ==
    LET cut == {e \in Envelopes : delivery[e].pc \in {"running", "waiting"}}
                \cup {entry.envelope : entry \in replaying}
    IN /\ delivery' = [e \in Envelopes |->
                        IF e \in cut THEN [delivery[e] EXCEPT !.pc = "over"] ELSE delivery[e]]
       /\ replaying' = {}
       /\ entries' = saved
       /\ excused' = excused \cup cut \cup (InQueue(entries) \ InQueue(saved))
       /\ UNCHANGED <<storageFull, subscribed, saved, handled>>

HandlerSettles(e) == Handle(e) \/ HandlerFails(e) \/ RetriesExhausted(e)

EventNext ==
    \/ \E e \in Envelopes : Emit(e) \/ HandlerSettles(e) \/ RetryHandler(e)
    \/ \E entry \in ToSet(entries) : RemoveEntry(entry) \/ ReplayEntry(entry)
    \/ \E entry \in replaying : ReplayOk(entry) \/ ReplayFails(entry)
    \/ ClearQueue \/ Toggle \/ ReloadQueue

EventSpec == EventInit /\ [][EventNext]_eventVars

------------------------------------------------------------------------------
(* Properties                                                                *)

\* "captured here so a maintainer can inspect and replay it [...] instead of losing
\* it" (dlq.ts:6): an event that was delivered and that no handler has accepted is
\* still being tried, being replayed, or in the queue, unless somebody removed it,
\* the cap dropped it or a reload cut its handler off; and the localStorage copy
\* has it too, while writes succeed.  It is in one place only: no two entries, nor
\* an entry and a replay, nor a retry and an entry, even when a write that failed
\* brings an old entry back with a reload.
Places(e) ==
    Cardinality({i \in DOMAIN entries : entries[i].envelope = e})
        + Cardinality({entry \in replaying : entry.envelope = e})
        + (IF delivery[e].pc \in {"running", "waiting"} THEN 1 ELSE 0)
InOnePlace ==
    \A e \in Envelopes :
        /\ delivery[e].n > 0 /\ e \notin handled \cup excused => Places(e) > 0
        /\ Places(e) <= 1
        /\ ~storageFull /\ e \in InQueue(entries) => e \in InQueue(saved)
==============================================================================
