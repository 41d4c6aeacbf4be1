-------------------------- MODULE ConflictResolver --------------------------
(***************************************************************************)
(* lib/conflict-resolver.ts: calls of resolveEdit over one versioned record. *)
(* A call awaits the authorization, a read, the applied-operation log when   *)
(* the store has one, and a compare-and-swap; other calls, of other clients  *)
(* or repeating the same edit, run in between.                               *)
(*                                                                           *)
(* Drafts are made from the record as it was read, so the checks of a future *)
(* or mismatched base pass, and documents are flat (see ThreeWayMerge).      *)
(***************************************************************************)
EXTENDS ThreeWayMerge, Sequences, SequencesExt

CONSTANTS
    Edits,          \* edits, each with an identity of its own
    Calls,          \* calls of resolveEdit
    EditOf,         \* [Calls -> Edits] two calls of an edit are a retry or a double submit
    Start,          \* the document of version 0
    MaxAttempts,    \* maxAttempts
    Stores          \* the environments considered: a subset of Store

\* hook: findAppliedVersion is implemented.  fails: a request may fail, or lose its
\* response.  revokes: access may be withdrawn.
Store == [hook : BOOLEAN, fails : BOOLEAN, revokes : BOOLEAN]

ASSUME ResolverAssumption ==
    /\ EditOf \in [Calls -> Edits]
    /\ Start \in Document
    /\ MaxAttempts \in Nat \ {0}
    /\ Stores \subseteq Store

VARIABLES
    store,      \* fixed for a behaviour
    value,      \* the record's document
    commits,    \* the calls that committed, in order: the record's version is their number
    draft,      \* [Edits -> the version and document it was made from, and the new one]
    allowed,    \* what authorize answers
    call        \* [Calls -> what the call does or has answered]

resolverVars == <<store, value, commits, draft, allowed, call>>

Version == Len(commits)
Identity(c) == EditOf[c]
NotDrafted == [made |-> FALSE, version |-> 0, base |-> Start, value |-> Start]
Draft == [made : BOOLEAN, version : Nat, base : Document, value : Document]

Awaiting == {"authorize", "read", "find", "swap"}
Success == {"applied", "already_applied"}
Failure == {"unauthorized", "authorization_error", "storage_error", "retry_exhausted"}
\* version and value are those of the record read; began is the version at the call.
Call == [at : {"unused"} \cup Awaiting \cup Success \cup Failure,
         attempt : 1..MaxAttempts, version : Nat, value : Document, began : Nat]

ResolverTypeOK ==
    /\ store \in Stores
    /\ value \in Document
    /\ commits \in Seq(Calls)
    /\ draft \in [Edits -> Draft]
    /\ allowed \in BOOLEAN
    /\ call \in [Calls -> Call]

ResolverInit ==
    /\ store \in Stores
    /\ value = Start
    /\ commits = <<>>
    /\ draft = [e \in Edits |-> NotDrafted]
    /\ allowed = TRUE
    /\ call = [c \in Calls |->
        [at |-> "unused", attempt |-> 1, version |-> 0, value |-> Start, began |-> 0]]

------------------------------------------------------------------------------
(* The clients                                                               *)

\* A client reads the record and edits it.
MakeDraft(e) ==
    /\ ~draft[e].made
    /\ \E doc \in Document \ {value} :
        draft' = [draft EXCEPT
            ![e] = [made |-> TRUE, version |-> Version, base |-> value, value |-> doc]]
    /\ UNCHANGED <<store, value, commits, allowed, call>>

Submit(c) ==
    /\ call[c].at = "unused"
    /\ draft[Identity(c)].made
    /\ call' = [call EXCEPT ![c].at = "authorize", ![c].began = Version]
    /\ UNCHANGED <<store, value, commits, draft, allowed>>

Revoke ==
    /\ store.revokes /\ allowed
    /\ allowed' = FALSE
    /\ UNCHANGED <<store, value, commits, draft, call>>

------------------------------------------------------------------------------
(* resolveEdit                                                               *)

Goes(c, at) == call' = [call EXCEPT ![c].at = at]

Authorize(c) ==
    /\ call[c].at = "authorize"
    /\ Goes(c, IF allowed THEN "read" ELSE "unauthorized")
    /\ UNCHANGED <<store, value, commits, draft, allowed>>

AuthorizeFails(c) ==
    /\ store.fails
    /\ call[c].at = "authorize"
    /\ Goes(c, "authorization_error")
    /\ UNCHANGED <<store, value, commits, draft, allowed>>

NeverLatest(c) == FALSE     \* mutant: lastWriter is not compared

\* The record's lastWriter is this edit.
WroteLast(c) == Version > 0 /\ Identity(commits[Version]) = Identity(c)

ReadsOnce(c) ==             \* mutant: later attempts keep the first snapshot
    IF call[c].attempt = 1
    THEN [call[c] EXCEPT !.version = Version, !.value = value]
    ELSE call[c]
\* What the call keeps of the record.
Snapshot(c) == [call[c] EXCEPT !.version = Version, !.value = value]

Read(c) ==
    /\ call[c].at = "read"
    /\ \/ WroteLast(c) /\ Goes(c, "already_applied")
       \/ ~WroteLast(c) /\ call' = [call EXCEPT ![c] =
            [Snapshot(c) EXCEPT !.at = IF store.hook THEN "find" ELSE "swap"]]
    /\ UNCHANGED <<store, value, commits, draft, allowed>>

\* findAppliedVersion looks the identity up in the store's log of this moment.
IsApplied(c) == \E i \in DOMAIN commits : Identity(commits[i]) = Identity(c)

Find(c) ==
    /\ call[c].at = "find"
    /\ Goes(c, IF IsApplied(c) THEN "already_applied" ELSE "swap")
    /\ UNCHANGED <<store, value, commits, draft, allowed>>

Swaps(c) == call[c].version = Version

CommitRetriesLost(c) ==     \* mutant: a lost response counts as a refused swap
    LET e == Identity(c)
    IN /\ call[c].at = "swap"
       /\ Swaps(c)
       /\ value' = Merge(draft[e].base, call[c].value, draft[e].value)
       /\ commits' = Append(commits, c)
       /\ \/ Goes(c, "applied")
          \/ /\ store.fails
             /\ IF call[c].attempt < MaxAttempts
                THEN call' = [call EXCEPT ![c].at = "authorize", ![c].attempt = @ + 1]
                ELSE Goes(c, "retry_exhausted")
       /\ UNCHANGED <<store, draft, allowed>>

\* compareAndSwap commits; its response may be lost.
Commit(c) ==
    LET e == Identity(c)
    IN /\ call[c].at = "swap"
       /\ Swaps(c)
       /\ value' = Merge(draft[e].base, call[c].value, draft[e].value)
       /\ commits' = Append(commits, c)
       /\ \/ Goes(c, "applied")
          \/ store.fails /\ Goes(c, "storage_error")
       /\ UNCHANGED <<store, draft, allowed>>

RefusedOnceMore(c) ==       \* mutant: one attempt too many
    /\ call[c].at = "swap"
    /\ ~Swaps(c)
    /\ IF call[c].attempt <= MaxAttempts
       THEN call' = [call EXCEPT ![c].at = "authorize", ![c].attempt = @ + 1]
       ELSE Goes(c, "retry_exhausted")
    /\ UNCHANGED <<store, value, commits, draft, allowed>>

\* compareAndSwap finds another version: the next attempt starts over.
Refused(c) ==
    /\ call[c].at = "swap"
    /\ ~Swaps(c)
    /\ IF call[c].attempt < MaxAttempts
       THEN call' = [call EXCEPT ![c].at = "authorize", ![c].attempt = @ + 1]
       ELSE Goes(c, "retry_exhausted")
    /\ UNCHANGED <<store, value, commits, draft, allowed>>

StorageFails(c) ==
    /\ store.fails
    /\ call[c].at \in {"read", "find", "swap"}
    /\ Goes(c, "storage_error")
    /\ UNCHANGED <<store, value, commits, draft, allowed>>

ResolverNext ==
    \/ \E e \in Edits : MakeDraft(e)
    \/ Revoke
    \/ \E c \in Calls :
        \/ Submit(c) \/ Authorize(c) \/ AuthorizeFails(c) \/ Read(c) \/ Find(c)
        \/ Commit(c) \/ Refused(c) \/ StorageFails(c)

ResolverSpec == ResolverInit /\ [][ResolverNext]_resolverVars

------------------------------------------------------------------------------
(* Properties                                                                *)

Atomic == INSTANCE AtomicEdits WITH
    remembers <- store.hook,
    applied <- [i \in DOMAIN commits |-> Identity(commits[i])],
    base <- [e \in Edits |-> draft[e].base],
    proposal <- [e \in Edits |-> draft[e].value]

\* An edit takes effect at one instant, merged into the record of that instant: no
\* update is lost, whatever ran between the read and the swap, and no retry or double
\* submission applies it again but over another client's write in a store without a
\* log, the case docs/conflict-resolution.md warns of.
EditsAreAtomic == Atomic!Spec

Committed(e) == \E i \in DOMAIN commits : Identity(commits[i]) = e

\* The values edits of the first version, once committed, gave to a path.
Changes(p) ==
    {draft[e].value[p] : e \in {d \in Edits : Committed(d) /\ draft[d].value[p] # Start[p]}}

\* "This rule is associative across successive merges and does not depend on arrival
\* order" (docs/conflict-resolution.md:19): edits made from one version leave the
\* greatest of the values they gave to a leaf, in whatever order, over whatever
\* attempts and however often they were committed.
OrderIndependent ==
    (\A e \in Edits : draft[e].version = 0) =>
        \A p \in Paths :
            IF Changes(p) = {} THEN value[p] = Start[p]
            ELSE value[p] \in Changes(p) /\ \A v \in Changes(p) : v <= value[p]

\* A call says its edit was applied only if it was, and a call that says it was
\* refused, or that it ran out of attempts, has not applied it.
TruthfulAnswer ==
    \A c \in Calls :
        /\ call[c].at \in Success => Committed(Identity(c))
        /\ call[c].at \in Failure \ {"storage_error"} => ~Contains(commits, c)

\* Attempts run out only under contention: for every attempt, somebody committed
\* since the call began.
ExhaustionNeedsRivals ==
    \A c \in Calls :
        call[c].at = "retry_exhausted" => Version - call[c].began >= MaxAttempts
==============================================================================
