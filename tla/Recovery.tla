------------------------------ MODULE Recovery ------------------------------
(***************************************************************************)
(* OperationManager of lib/recovery/operation-manager.ts: one multi-step    *)
(* operation that several tabs create, execute, resume, sweep, prune and    *)
(* abort through the shared checkpoint store.                               *)
(*                                                                          *)
(* execute() reads the record once and from then on works on its own copy,  *)
(* writing the whole copy back at each step.  It yields only while it       *)
(* awaits the executor, so an action covers the code between two awaits.    *)
(***************************************************************************)
EXTENDS CheckpointStore

CONSTANTS
    SlowSteps,  \* TRUE: abandonAfterMs may pass while an executor is awaited
    MaxStarts   \* bound on the calls of execute() that start a run

ASSUME SlowAssumption == SlowSteps \in BOOLEAN
ASSUME StartsAssumption == MaxStarts \in Nat

VARIABLES
    run,        \* [Tabs -> Run]: the locals of the execute() call of each tab
    created,    \* create() was called
    (* history, read by no action's guard but the bound *)
    starts,     \* runs started so far
    effects,    \* [Step -> Nat]: times the executor carried the step out
    unfenced    \* [Step -> Nat]: of those, cut off before their checkpoint

histVars == <<created, starts, effects, unfenced>>
vars == <<disk, mem, quota, run, created, starts, effects, unfenced>>

Run == [live  : BOOLEAN,
        op    : Operation,           \* op, the copy execute() works on
        at    : Step,                \* the step whose executor is awaited
        snap  : SUBSET SideEffect,   \* checkpointedStepIds
        outs  : SUBSET Step,         \* keys of previousOutputs
        acted : BOOLEAN]             \* the executor has had its effect

NoRun == [live |-> FALSE, op |-> AbsentOp, at |-> 1, snap |-> {}, outs |-> {},
          acted |-> FALSE]

TypeOK ==
    /\ StoreTypeOK
    /\ run \in [Tabs -> Run]
    /\ created \in BOOLEAN
    /\ starts \in 0..MaxStarts
    /\ effects \in [Step -> Nat]
    /\ unfenced \in [Step -> Nat]

Init ==
    /\ StoreInit
    /\ run = [t \in Tabs |-> NoRun]
    /\ created = FALSE
    /\ starts = 0
    /\ effects = [i \in Step |-> 0]
    /\ unfenced = [i \in Step |-> 0]

------------------------------------------------------------------------------
OPERATION_TRANSITION_TABLE ==
    [absent      |-> {},
     pending     |-> {"in_progress", "abandoned"},
     in_progress |-> {"paused", "completed", "failed", "abandoned"},
     paused      |-> {"in_progress", "abandoned", "failed"},
     abandoned   |-> {"in_progress", "failed"},
     completed   |-> {},
     failed      |-> {}]

\* _updateOp validates a change of status only.
Allows(op, status) ==
    op.status = status \/ status \in OPERATION_TRANSITION_TABLE[op.status]

\* _updateOp(op, { status }): updatedAt is set to now.
WithStatus(op, status) == [op EXCEPT !.status = status, !.age = "fresh"]

create(t) ==
    /\ ~created
    /\ created' = TRUE
    /\ Save(t, WithStatus(AbsentOp, "pending"), {})
    /\ UNCHANGED <<run, starts, effects, unfenced>>

------------------------------------------------------------------------------
(* execute() *)

SkippedByStatus(op, snap, i) == op.step[i] = "completed"   \* mutant: no fence

Skipped(op, snap, i) ==
    \/ i \in SideEffect /\ i \in snap
    \/ op.step[i] = "completed"

\* The loop from step `from` on, up to the next await or to the end; cps are
\* the checkpoints this handler has written on the way.
Proceed(t, op, snap, outs, from, cps) ==
    \/ \E i \in from..NumSteps :
          LET started == [op EXCEPT !.step[i] = "in_progress"] IN
          /\ ~Skipped(op, snap, i)
          /\ \A k \in from..(i - 1) : Skipped(op, snap, k)
          /\ Save(t, started, cps)
          /\ run' = [run EXCEPT ![t] =
                [live |-> TRUE, op |-> started, at |-> i, snap |-> snap,
                 outs |-> outs, acted |-> FALSE]]
    \/ /\ \A k \in from..NumSteps : Skipped(op, snap, k)
       /\ Save(t, WithStatus(op, "completed"), cps)
       /\ run' = [run EXCEPT ![t] = NoRun]

ResumableInProgress(op) ==  \* mutant: without the concurrent-tab guard
    op.status \notin {"absent", "completed", "failed"}

Resumable(op) == op.status \notin {"absent", "in_progress", "completed", "failed"}

\* execute() up to its first await.
Start(t) ==
    LET seen == View(t) IN
    /\ ~run[t].live
    /\ starts < MaxStarts
    /\ Resumable(seen.op)
    /\ Allows(seen.op, "in_progress")
    /\ Proceed(t, WithStatus(seen.op, "in_progress"), seen.cps, seen.cps, 1, {})
    /\ starts' = starts + 1
    /\ UNCHANGED <<created, effects, unfenced>>

\* The executor does what the step is for (a transaction, a request).
Effect(t) ==
    /\ run[t].live
    /\ ~run[t].acted
    /\ run' = [run EXCEPT ![t].acted = TRUE]
    /\ effects' = [effects EXCEPT ![run[t].at] = @ + 1]
    /\ UNCHANGED <<disk, mem, quota, created, starts, unfenced>>

\* The copy once the step is marked completed and currentStepIndex moved.
DoneOffByOne(r) ==  \* mutant: one too many
    [r.op EXCEPT !.step[r.at] = "completed", !.cur = r.at + 1]

Done(r) == [r.op EXCEPT !.step[r.at] = "completed", !.cur = r.at]
Fence(r) == {r.at} \cap SideEffect

ResolveUnawaited(t) ==  \* mutant: await missing before executor(...)
    LET r == run[t] IN
    /\ r.live
    /\ Proceed(t, Done(r), r.snap, r.outs \cup {r.at}, r.at + 1, Fence(r))
    /\ UNCHANGED histVars

\* The executor's promise resolves: checkpoint, step, index, next step.
Resolve(t) ==
    LET r == run[t] IN
    /\ r.live
    /\ r.acted
    /\ Proceed(t, Done(r), r.snap, r.outs \cup {r.at}, r.at + 1, Fence(r))
    /\ UNCHANGED histVars

CutOff(r) == [unfenced EXCEPT ![r.at] = @ + (IF r.live /\ r.acted THEN 1 ELSE 0)]

\* The executor's promise rejects, before its effect or after it (a timeout
\* of a request that went through): the step fails, the operation pauses.
Reject(t) ==
    LET r == run[t] IN
    /\ r.live
    /\ Save(t, WithStatus([r.op EXCEPT !.step[r.at] = "failed"], "paused"), {})
    /\ run' = [run EXCEPT ![t] = NoRun]
    /\ unfenced' = CutOff(r)
    /\ UNCHANGED <<created, starts, effects>>

------------------------------------------------------------------------------
(* Crashes: the tab is closed or reloaded *)

Crash(t) ==
    /\ run[t].live \/ mem[t] # EmptySlot
    /\ run' = [run EXCEPT ![t] = NoRun]
    /\ unfenced' = CutOff(run[t])
    /\ ForgetFallback(t)
    /\ UNCHANGED <<disk, quota, created, starts, effects>>

\* The copy once the step is marked completed and before the index is moved.
StepDone(r) == [r.op EXCEPT !.step[r.at] = "completed"]

\* ... in the middle of Resolve, after any of its writes: the checkpoint, the step,
\* the index.
CrashInResolve(t) ==
    LET r == run[t] IN
    /\ r.live
    /\ r.acted
    /\ quota = "ok"
    /\ \E op \in {disk.op, StepDone(r), Done(r)} : WriteDisk(op, Fence(r))
    /\ run' = [run EXCEPT ![t] = NoRun]
    /\ ForgetFallback(t)
    /\ UNCHANGED <<quota, created, starts, effects, unfenced>>

------------------------------------------------------------------------------
(* Maintenance, from any tab *)

SweepAnyAge(t) ==   \* mutant: without the cutoff
    LET op == View(t).op IN
    /\ op.status \in {"paused", "in_progress"}
    /\ Save(t, WithStatus(op, "abandoned"), {})
    /\ UNCHANGED <<run, created, starts, effects, unfenced>>

SweepPausedOnly(t) ==   \* mutant: in_progress forgotten
    LET op == View(t).op IN
    /\ op.status = "paused"
    /\ op.age # "fresh"
    /\ Save(t, WithStatus(op, "abandoned"), {})
    /\ UNCHANGED <<run, created, starts, effects, unfenced>>

sweepAbandoned(t) ==
    LET op == View(t).op IN
    /\ op.status \in {"paused", "in_progress"}
    /\ op.age # "fresh"
    /\ Save(t, WithStatus(op, "abandoned"), {})
    /\ UNCHANGED <<run, created, starts, effects, unfenced>>

pruneExpired(t) ==
    LET op == View(t).op IN
    /\ op.status \in {"completed", "failed", "abandoned"}
    /\ op.age = "expired"
    /\ Delete(t)
    /\ UNCHANGED <<run, created, starts, effects, unfenced>>

abortOperation(t) ==
    LET op == View(t).op IN
    /\ op.status # "absent"
    /\ Allows(op, "failed")
    /\ Save(t, WithStatus(op, "failed"), {})
    /\ UNCHANGED <<run, created, starts, effects, unfenced>>

\* abandonAfterMs or retentionMs pass without a write.
TimePasses ==
    /\ SlowSteps \/ \A t \in Tabs : ~run[t].live
    /\ \E age \in {"stale", "expired"} : GrowOld(age)
    /\ UNCHANGED <<run, created, starts, effects, unfenced>>

StorageChanges == QuotaChanges /\ UNCHANGED <<run, created, starts, effects, unfenced>>

------------------------------------------------------------------------------
Next ==
    \/ \E t \in Tabs :
        \/ create(t)
        \/ Start(t)
        \/ Effect(t)
        \/ Resolve(t)
        \/ Reject(t)
        \/ Crash(t)
        \/ CrashInResolve(t)
        \/ sweepAbandoned(t)
        \/ pruneExpired(t)
        \/ abortOperation(t)
    \/ TimePasses
    \/ StorageChanges

Spec == Init /\ [][Next]_vars

\* The executors the callers pass settle, time goes on, and a page calls
\* sweepAbandoned on load or on a timer, as its comment asks.
Fairness ==
    /\ \A t \in Tabs :
        /\ WF_vars(Effect(t))
        /\ WF_vars(Resolve(t) \/ Reject(t))
        /\ WF_vars(sweepAbandoned(t))
    /\ WF_vars(TimePasses)

FairSpec == Spec /\ Fairness

------------------------------------------------------------------------------
(* Safety, whatever the tabs, the clock and the storage do *)

Performed(i) == effects[i] > 0

\* A record or a run never claims work nobody did: a checkpoint, a step marked
\* completed, and an operation marked completed each imply that the executor
\* has carried the step (every step) out.  It covers stale copies written back
\* by a second runner, lost writes and records read from the fallback store.
OpSound(op) ==
    /\ \A i \in Step : op.step[i] = "completed" => Performed(i)
    /\ op.status = "completed" => \A i \in Step : Performed(i)
SlotSound(s) == OpSound(s.op) /\ \A i \in s.cps : Performed(i)

CompletedMeansDone == SlotSound(disk) /\ \A t \in Tabs : SlotSound(mem[t])

------------------------------------------------------------------------------
(* Safety while executors are quicker than abandonAfterMs and the storage    *)
(* takes every write                                                         *)

\* DUPLICATE PREVENTION (operation-manager.ts:17): the in_progress status keeps
\* a second tab from resuming an operation whose run is still in flight.
SingleRunner == \A t, u \in Tabs : run[t].live /\ run[u].live => t = u

\* IDEMPOTENCY (operation-manager.ts:8), with what a checkpoint can give: a
\* side effect is repeated only after a run of it that was cut off between
\* its effect and its checkpoint, once for each such cut.
AtMostOncePerFence == \A i \in SideEffect : effects[i] <= unfenced[i] + 1

\* A completed operation has the checkpoint of each of its side-effect steps,
\* so that no later resume could run one again.
CompletedIsFenced == disk.op.status = "completed" => SideEffect \subseteq disk.cps

\* The fences do what they are for: neither an interrupted nor a completed
\* operation runs a side effect again that has its checkpoint.
FencesHold == AtMostOncePerFence /\ CompletedIsFenced

\* FORWARD-ONLY (operation-manager.ts:10): no write takes the stored operation
\* back, neither the current step nor a step already completed; and a completed
\* operation stays completed until it is pruned, once retentionMs has passed.
ForwardStep ==
    disk.op.status # "absent" /\ disk'.op.status # "absent" =>
        /\ disk'.op.cur >= disk.op.cur
        /\ \A i \in Step : disk.op.step[i] = "completed" => disk'.op.step[i] = "completed"

FinalStep ==
    disk.op.status = "completed" =>
        \/ disk'.op.status = "completed"
        \/ disk'.op.status = "absent" /\ disk.op.age = "expired"

ForwardOnly == [][ForwardStep /\ FinalStep]_vars

\* An operation whose tab died does not stay in_progress, where execute()
\* refuses it: the sweep makes it resumable (operation-manager.ts:14).
Orphaned == disk.op.status = "in_progress" /\ \A t \in Tabs : ~run[t].live
OrphanIsReleased == Orphaned ~> ~Orphaned

------------------------------------------------------------------------------
(* The strengthenings that make these inductive *)

RunSound(r) ==
    r.live => /\ OpSound(r.op)
              /\ r.op.status = "in_progress"
              /\ \A i \in r.snap : Performed(i)
              /\ \A i \in 1..(r.at - 1) : Performed(i)
              /\ r.acted => Performed(r.at)

SoundInv == CompletedMeansDone /\ \A t \in Tabs : RunSound(run[t])

\* Some executor has done step i and its handler has not run yet.
InFlight(i) == \E t \in Tabs : run[t].live /\ run[t].at = i /\ run[t].acted

DiskInv ==
    /\ quota = "ok"
    /\ disk.op.status # "absent" => created
    /\ \A i \in SideEffect : disk.op.step[i] = "completed" => i \in disk.cps
    /\ \A i \in 1..disk.op.cur : disk.op.step[i] = "completed" \/ i \in disk.cps
    /\ CompletedIsFenced

\* The copy of a live run is the stored record, but for an abort.
RunInv(r) ==
    r.live => /\ disk.op.status \in {"in_progress", "failed"}
              /\ disk.op.age = "fresh"
              /\ r.op.status = "in_progress"
              /\ r.op.age = "fresh"
              /\ r.op.step = disk.op.step
              /\ r.op.cur = disk.op.cur
              /\ r.op.cur < r.at
              /\ r.op.step[r.at] = "in_progress"
              /\ r.at \notin disk.cps
              /\ r.snap \subseteq disk.cps
              /\ \A i \in disk.cps : i \in r.snap \/ i < r.at
              /\ \A i \in 1..(r.at - 1) : r.op.step[i] = "completed" \/ i \in disk.cps

CountInv ==
    \A i \in SideEffect :
        /\ effects[i] <= unfenced[i] + 1
        /\ \/ effects[i] <= unfenced[i]
           \/ i \in disk.cps
           \/ InFlight(i)
           \/ created /\ disk.op.status = "absent"

QuickInv ==
    /\ DiskInv
    /\ SingleRunner
    /\ \A t \in Tabs : RunInv(run[t])
    /\ CountInv

------------------------------------------------------------------------------
(* Stated by the source, refuted by runs *)

\* state-machine.ts:11, "Terminal states (completed, failed) can never
\* transition": the record of an aborted operation stays failed.
TerminalImmutability ==
    [][disk.op.status \in {"completed", "failed"} =>
          disk'.op.status \in {disk.op.status, "absent"}]_vars

\* operation-manager.ts:178, "Accumulate outputs from all steps so later steps
\* can reference them": a step's executor is given the output of each earlier
\* step.
EarlierOutputsKnown ==
    \A t \in Tabs : run[t].live => 1..(run[t].at - 1) \subseteq run[t].outs
==============================================================================
