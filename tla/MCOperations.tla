---------------------------- MODULE MCOperations ----------------------------
(***************************************************************************)
(* Instances for TLC of the components whose work must come to an end:       *)
(* Recovery, MaintainerApprovals, ExportCancellation, DomainEvents,          *)
(* TelemetryTransport and SessionSync.  They share nothing, so a behaviour   *)
(* is one of a single part: the state spaces add up and do not multiply.     *)
(***************************************************************************)
EXTENDS MaintainerApprovals, ExportCancellation, DomainEvents, TelemetryTransport,
    Recovery, SessionSync

VARIABLE part

CONSTANTS o1, o2

MCVars == <<part, approvalVars, exportVars, eventVars, transportVars, vars, sessionVars>>

\* An operation of a side effect, a pure step and a second side effect.
MCSideEffect == {1, 3}

CalmLink == [rtc |-> "works", sockets |-> TRUE, slow |-> FALSE, loss |-> FALSE]
MCLinks == Link

\* The first and the last publish carry the same.
MCPayloadOf == <<1, 2, 1>>

MCInit ==
    /\ part \in {"approvals", "exports", "events", "transport", "recovery", "session"}
    /\ ApprovalInit /\ ExportInit /\ EventInit /\ TransportInit /\ Init /\ SessionInit
    /\ part # "approvals" => ~observerThrows
    /\ part # "exports" => ~sameId
    /\ part # "events" => ~storageFull
    /\ part # "transport" => link = CalmLink
    /\ part # "session" => channel

\* Ids are interchangeable: nothing is lost when the first export takes o1.
FirstTakesO1 == op'[1].pc # "unused" => op'[1].id = o1

MCNext ==
    /\ \/ part = "approvals" /\ ApprovalNext
            /\ UNCHANGED <<exportVars, eventVars, transportVars, vars, sessionVars>>
       \/ part = "exports" /\ ExportNext /\ FirstTakesO1
            /\ UNCHANGED <<approvalVars, eventVars, transportVars, vars, sessionVars>>
       \/ part = "events" /\ EventNext
            /\ UNCHANGED <<approvalVars, exportVars, transportVars, vars, sessionVars>>
       \/ part = "transport" /\ TransportNext
            /\ UNCHANGED <<approvalVars, exportVars, eventVars, vars, sessionVars>>
       \/ part = "recovery" /\ Next
            /\ UNCHANGED <<approvalVars, exportVars, eventVars, transportVars, sessionVars>>
       \/ part = "session" /\ SessionNext
            /\ UNCHANGED <<approvalVars, exportVars, eventVars, transportVars, vars>>
    /\ UNCHANGED part

\* Executors settle, a sync is started as long as something is queued, and goes
\* on; fetches come back and timers fire; and the fairness of TransportNext and of
\* Recovery, whose actions change nothing in another part.
MCFairness ==
    /\ \A x \in Executors :
        /\ WF_approvalVars(part = "approvals" /\ Settle(x))
        /\ WF_approvalVars(part = "approvals" /\ Sync(x))
        /\ WF_approvalVars(part = "approvals" /\ SyncItem(x))
        /\ WF_approvalVars(part = "approvals" /\ SyncEnds(x))
    /\ \A x \in Exports : WF_exportVars(part = "exports" /\ ExportSteps(x))
    /\ TransportFairness /\ Fairness

MCSpec == MCInit /\ [][MCNext]_MCVars /\ MCFairness

\* The parts' variables have the types their comments say.
OperationsTypeOK == TypeOK /\ ApprovalTypeOK /\ ExportTypeOK /\ EventTypeOK /\ TransportTypeOK
    /\ SessionTypeOK
==============================================================================
