---------------------------- MODULE ProtocolGuard ----------------------------
(***************************************************************************)
(* lib/protocol: the pauses of emergency-pause.ts, their audit log, and the  *)
(* receipts that guard.ts creates for the operations it lets pass.  Every    *)
(* call is synchronous; what is hard is that pauses of an operation and of   *)
(* one wallet's operation come and go independently, over the same records.  *)
(*                                                                           *)
(* A target is an operation in an environment, always compared together.     *)
(* The rules of preflight.ts other than the pause gate, and the score of     *)
(* abuse-detection.ts, are pure functions of a request: they may refuse any  *)
(* request, which changes nothing.  A request stands for its fingerprint.    *)
(***************************************************************************)
EXTENDS Naturals, Sequences, FiniteSets

CONSTANTS
    Targets,
    Wallets,
    Anyone,         \* the subjectId of a pause for everyone (undefined)
    MaxAudit,       \* bound on the audit log, and so on the pauses
    MaxReceipts     \* bound on the receipts

ASSUME GuardAssumption == Anyone \notin Wallets

VARIABLES
    pauses,     \* PauseStore: [scope, resumed] of every pause, oldest first
    audit,      \* InMemoryPauseAuditLog: [action, scope], oldest first
    receipts    \* ReceiptStore: statuses by request, for those that have a receipt

guardVars == <<pauses, audit, receipts>>

Scopes == [target : Targets, subject : Wallets \cup {Anyone}]
Requests == [target : Targets, actor : Wallets]
Roles == {"guest", "viewer", "contributor", "maintainer", "admin"}
ReceiptStatus == {"received", "submitted", "confirmed", "failed"}

GuardTypeOK ==
    /\ pauses \in Seq([scope : Scopes, resumed : BOOLEAN])
    /\ audit \in Seq([action : {"pause", "resume", "resume_denied"}, scope : Scopes])
    /\ \E known \in SUBSET Requests : receipts \in [known -> ReceiptStatus]

GuardInit == pauses = <<>> /\ audit = <<>> /\ receipts = [r \in {} |-> "received"]

------------------------------------------------------------------------------
(* PauseManager                                                              *)

PAUSE_ROLES == {"admin", "maintainer"}
RESUME_ROLES == {"admin"}

Active(i) == ~pauses[i].resumed
ActiveOfTarget(scope) ==        \* mutant: the subject is not compared
    {i \in DOMAIN pauses : Active(i) /\ pauses[i].scope.target = scope.target}
ActivePauses(scope) == {i \in DOMAIN pauses : Active(i) /\ pauses[i].scope = scope}

Audited(action, scope) ==
    /\ Len(audit) < MaxAudit
    /\ audit' = Append(audit, [action |-> action, scope |-> scope])

\* A role that may not pause throws; an identical active pause is returned as it is.
pause(role, scope) ==
    /\ role \in PAUSE_ROLES
    /\ ActivePauses(scope) = {}
    /\ pauses' = Append(pauses, [scope |-> scope, resumed |-> FALSE])
    /\ Audited("pause", scope)
    /\ UNCHANGED receipts

DenyResume(role, scope) ==
    /\ role \notin RESUME_ROLES
    /\ Audited("resume_denied", scope)
    /\ UNCHANGED <<pauses, receipts>>

\* The first active pause is lifted; without one there is nothing to record.
Resume(role, scope) ==
    /\ role \in RESUME_ROLES
    /\ \E i \in ActivePauses(scope) :
          /\ \A j \in ActivePauses(scope) : i <= j
          /\ pauses' = [pauses EXCEPT ![i].resumed = TRUE]
    /\ Audited("resume", scope)
    /\ UNCHANGED receipts

Covers(scope, request) ==
    scope.target = request.target /\ scope.subject \in {Anyone, request.actor}

\* evaluateOperation finds a reason to reject the request.
Paused(request) ==
    \E i \in DOMAIN pauses : Active(i) /\ Covers(pauses[i].scope, request)

------------------------------------------------------------------------------
(* executeGuardedOperation and ReceiptService                                *)

\* A request with a receipt is answered with it, which changes nothing.
executeGuardedOperation(request) ==
    /\ ~Paused(request)
    /\ request \notin DOMAIN receipts
    /\ Cardinality(DOMAIN receipts) < MaxReceipts
    /\ receipts' = [r \in DOMAIN receipts \cup {request} |->
                        IF r = request THEN "received" ELSE receipts[r]]
    /\ UNCHANGED <<pauses, audit>>

\* Callers report what became of the operation; any status may follow any other.
transition(request, status) ==
    /\ request \in DOMAIN receipts
    /\ receipts' = [receipts EXCEPT ![request] = status]
    /\ UNCHANGED <<pauses, audit>>

GuardNext ==
    \/ \E role \in Roles, scope \in Scopes :
          pause(role, scope) \/ DenyResume(role, scope) \/ Resume(role, scope)
    \/ \E request \in Requests :
          \/ executeGuardedOperation(request)
          \/ \E status \in ReceiptStatus \ {"received"} : transition(request, status)

GuardSpec == GuardInit /\ [][GuardNext]_guardVars

------------------------------------------------------------------------------
(* Properties                                                                *)

\* The last that was said of a scope, refused calls aside, is that it pauses.
PausedByAudit(scope) ==
    \E i \in DOMAIN audit :
        /\ audit[i] = [action |-> "pause", scope |-> scope]
        /\ \A j \in DOMAIN audit :
              j > i /\ audit[j].scope = scope => audit[j].action = "resume_denied"

\* A pause stops all it covers and nothing else until exactly that pause is
\* lifted: the gate follows the audit log, over pauses of an operation and of
\* single wallets, repeated, lifted and refused to be lifted in any order, and
\* no receipt is created against the log.
GateFollowsAudit ==
    [][/\ \A r \in Requests :
            Paused(r) <=> \E s \in Scopes : Covers(s, r) /\ PausedByAudit(s)
       /\ \A r \in DOMAIN receipts' \ DOMAIN receipts :
            \A s \in Scopes : Covers(s, r) => ~PausedByAudit(s)]_guardVars
==============================================================================
