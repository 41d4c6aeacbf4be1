------------------------ MODULE MaintainerApprovals ------------------------
(***************************************************************************)
(* MaintainerApprovalService of lib/maintainer-approvals/service.ts: signed  *)
(* intents are approved, executed at once or from the offline queue, and     *)
(* rolled back.  An execution yields while it awaits the executor; several   *)
(* may be under way, directly or inside syncOfflineQueue.  An intent is      *)
(* named by its fingerprint, which has at most one receipt.                  *)
(***************************************************************************)
EXTENDS Naturals, Sequences, SequencesExt, FiniteSets

CONSTANTS
    Intents,
    Executors,      \* executions and syncs that may be under way at once
    MaxRollbacks    \* bound on the rollbacks of a receipt

ASSUME ApprovalBoundsAssumption == MaxRollbacks \in Nat

VARIABLES
    observerThrows, \* onTelemetryEvent may throw; fixed for a behaviour
    receipt,        \* [Intents -> the receipt's status]
    offline,        \* offlineQueue, in the order of its insertions
    expired,        \* intents whose expiresAt has passed
    work,           \* [Executors -> what the execution or sync is doing]
    audit,          \* [Intents -> the statuses of its audit log]
    (* history *)
    started,        \* [Intents -> calls of an executor]
    done            \* intents an executor has carried out

approvalVars == <<observerThrows, receipt, offline, expired, work, audit, started, done>>

Status == {"none", "approved", "queued_offline", "executing", "completed",
           "failed", "rolled_back"}

\* on: intents whose executor is awaited (at most one).  left: the rest of the
\* snapshot a sync goes through.
Work == [syncing : BOOLEAN, on : SUBSET Intents, left : Seq(Intents)]
AtRest == [syncing |-> FALSE, on |-> {}, left |-> <<>>]

ApprovalTypeOK ==
    /\ observerThrows \in BOOLEAN
    /\ receipt \in [Intents -> Status]
    /\ offline \in Seq(Intents) /\ IsInjective(offline)
    /\ expired \subseteq Intents
    /\ work \in [Executors -> Work] /\ \A x \in Executors : Cardinality(work[x].on) <= 1
    /\ audit \in [Intents -> Seq(Status \ {"none", "executing"})]
    /\ started \in [Intents -> Nat]
    /\ done \subseteq Intents

ApprovalInit ==
    /\ observerThrows \in BOOLEAN
    /\ receipt = [i \in Intents |-> "none"]
    /\ offline = <<>>
    /\ expired = {}
    /\ work = [x \in Executors |-> AtRest]
    /\ audit = [i \in Intents |-> <<>>]
    /\ started = [i \in Intents |-> 0]
    /\ done = {}

\* approveAndSignIntent: an expired intent is refused, and one that has a receipt
\* is answered with it.
Approve(i, isOffline) ==
    LET status == IF isOffline THEN "queued_offline" ELSE "approved"
    IN /\ i \notin expired
       /\ receipt[i] = "none"
       /\ receipt' = [receipt EXCEPT ![i] = status]
       /\ offline' = IF isOffline THEN Append(offline, i) ELSE offline
       /\ audit' = [audit EXCEPT ![i] = Append(@, status)]
       /\ UNCHANGED <<observerThrows, expired, work, started, done>>

PassExpiry(i) ==
    /\ i \notin expired
    /\ expired' = expired \cup {i}
    /\ UNCHANGED <<observerThrows, receipt, offline, work, audit, started, done>>

------------------------------------------------------------------------------
(* executeApprovedAction and syncOfflineQueue                                *)

ExecutableAgain(i) ==   \* mutant: only what ended well is refused
    receipt[i] \notin {"none", "executing", "completed"}
Executable(i) == receipt[i] \in {"approved", "queued_offline"}

StartUnsaved(i) ==      \* mutant: 'executing' is not saved before the executor runs
    /\ UNCHANGED receipt
    /\ started' = [started EXCEPT ![i] = @ + 1]

\* 'executing' is saved, then the executor is called.
StartExecution(i) ==
    /\ receipt' = [receipt EXCEPT ![i] = "executing"]
    /\ started' = [started EXCEPT ![i] = @ + 1]

Execute(x, i) ==
    /\ work[x] = AtRest
    /\ Executable(i)
    /\ StartExecution(i)
    /\ work' = [work EXCEPT ![x] = [syncing |-> FALSE, on |-> {i}, left |-> <<>>]]
    /\ UNCHANGED <<observerThrows, offline, expired, audit, done>>

Sync(x) ==
    /\ work[x] = AtRest /\ offline # <<>>
    /\ work' = [work EXCEPT ![x] = [syncing |-> TRUE, on |-> {}, left |-> offline]]
    /\ UNCHANGED <<observerThrows, receipt, offline, expired, audit, started, done>>

StopAtFailure(left) == <<>>     \* mutant: a refused item ends the sync
RestAfterRefusal(left) == Tail(left)

\* The next item of the snapshot; one that is refused is noted as failed and
\* stays in the queue.
SyncItem(x) ==
    LET i == Head(work[x].left)
    IN /\ work[x].syncing /\ work[x].on = {} /\ work[x].left # <<>>
       /\ IF Executable(i)
          THEN /\ StartExecution(i)
               /\ work' = [work EXCEPT ![x] = [syncing |-> TRUE, on |-> {i}, left |-> Tail(work[x].left)]]
          ELSE /\ work' = [work EXCEPT ![x].left = RestAfterRefusal(@)]
               /\ UNCHANGED <<receipt, started>>
       /\ UNCHANGED <<observerThrows, offline, expired, audit, done>>

SyncEnds(x) ==
    /\ work[x].syncing /\ work[x].on = {} /\ work[x].left = <<>>
    /\ work' = [work EXCEPT ![x] = AtRest]
    /\ UNCHANGED <<observerThrows, receipt, offline, expired, audit, started, done>>

NextOf(x) == IF work[x].syncing THEN [work[x] EXCEPT !.on = {}] ELSE AtRest

Log(i, statuses) == audit' = [audit EXCEPT ![i] = @ \o statuses]

\* The executor resolves: the receipt is written without being read again.
Complete(x, i) ==
    /\ i \in work[x].on
    /\ receipt' = [receipt EXCEPT ![i] = "completed"]
    /\ Log(i, <<"completed">>)
    /\ offline' = IF work[x].syncing THEN RemoveFirst(offline, i) ELSE offline
    /\ work' = [work EXCEPT ![x] = NextOf(x)]
    /\ done' = done \cup {i}
    /\ UNCHANGED <<observerThrows, expired, started>>

\* Telemetry throws inside the try: the catch turns the completion into a failure.
CompleteUnobserved(x, i) ==
    /\ observerThrows
    /\ i \in work[x].on
    /\ receipt' = [receipt EXCEPT ![i] = "failed"]
    /\ Log(i, <<"completed", "failed">>)
    /\ work' = [work EXCEPT ![x] = NextOf(x)]
    /\ done' = done \cup {i}
    /\ UNCHANGED <<observerThrows, offline, expired, started>>

\* The executor rejects.
Fail(x, i) ==
    /\ i \in work[x].on
    /\ receipt' = [receipt EXCEPT ![i] = "failed"]
    /\ Log(i, <<"failed">>)
    /\ work' = [work EXCEPT ![x] = NextOf(x)]
    /\ UNCHANGED <<observerThrows, offline, expired, started, done>>

\* rollbackAction, in whatever status the receipt is.
Rollback(i) ==
    /\ receipt[i] # "none"
    /\ Cardinality({n \in DOMAIN audit[i] : audit[i][n] = "rolled_back"}) < MaxRollbacks
    /\ receipt' = [receipt EXCEPT ![i] = "rolled_back"]
    /\ Log(i, <<"rolled_back">>)
    /\ UNCHANGED <<observerThrows, offline, expired, work, started, done>>

Settle(x) == \E i \in Intents : Complete(x, i) \/ CompleteUnobserved(x, i) \/ Fail(x, i)

ApprovalNext ==
    \/ \E i \in Intents :
        \/ \E isOffline \in BOOLEAN : Approve(i, isOffline)
        \/ PassExpiry(i) \/ Rollback(i)
        \/ \E x \in Executors : Execute(x, i)
    \/ \E x \in Executors : Sync(x) \/ SyncItem(x) \/ SyncEnds(x) \/ Settle(x)

ApprovalSpec == ApprovalInit /\ [][ApprovalNext]_approvalVars

------------------------------------------------------------------------------
(* Properties                                                                *)

\* An intent is carried out at most once, whatever executions and syncs run side
\* by side, and its receipt says completed only if it was; it says failed although
\* it was carried out only if the telemetry observer may throw.  Unless the intent
\* is being executed, the last entry of the audit trail is the status, also when a
\* rollback and an execution overlap.
ReceiptsAreTrue ==
    \A i \in Intents :
        /\ started[i] <= 1
        /\ receipt[i] = "completed" => i \in done
        /\ receipt[i] = "failed" => started[i] = 1 /\ (i \notin done \/ observerThrows)
        /\ receipt[i] \notin {"none", "executing"} => audit[i] # <<>> /\ Last(audit[i]) = receipt[i]

\* A rollback of a receipt that is not being executed is final.
RollbackIsFinal ==
    [][\A i \in Intents :
            receipt[i] = "rolled_back" /\ (\A x \in Executors : i \notin work[x].on)
                => receipt'[i] = "rolled_back" /\ started'[i] = started[i]]_approvalVars

\* "Replays and syncs offline queued receipts once connectivity is restored"
\* (service.ts:329): if syncs go on being started and end, a queued receipt is
\* tried, whatever other items of the queue fail before it.
QueuedIsTried ==
    \A i \in Intents : receipt[i] = "queued_offline" ~> receipt[i] # "queued_offline"
==============================================================================
