------------------------- MODULE RecoveryQuickProofs -------------------------
(***************************************************************************)
(* Proofs about Recovery while no executor is slower than abandonAfterMs    *)
(* and localStorage takes every write: one run at a time, whose copy of the *)
(* operation is the stored record, and every effect accounted for.          *)
(***************************************************************************)
EXTENDS RecoveryProofs

USE StepsAssumption, StartsAssumption

\* With a reliable storage a save replaces the stored record.
LEMMA SaveQuick ==
    ASSUME quota = "ok", NEW t, NEW op, NEW cps, Save(t, op, cps)
    PROVE  disk' = [op |-> op, cps |-> disk.cps \cup cps] /\ quota' = "ok"
  BY DEF Save, WriteDisk, WriteLands

\* The end of a run is no live run.
LEMMA NoRunQuick == ~NoRun.live
  BY DEF NoRun

\* The loop of execute(), from a copy that agrees with the store.
LEMMA ProceedQuick ==
    ASSUME TypeOK, quota = "ok", created', effects' = effects, unfenced' = unfenced,
           NEW t \in Tabs, NEW op \in Operation, NEW snap \in SUBSET SideEffect,
           NEW outs, NEW from \in 1..(NumSteps + 1), NEW cps \in SUBSET SideEffect,
           Proceed(t, op, snap, outs, from, cps),
           op.status = "in_progress", op.age = "fresh",
           \A u \in Tabs \ {t} : ~run[u].live,
           NEW all, all = disk.cps \cup cps,
           \A i \in SideEffect : op.step[i] = "completed" => i \in all,
           \A i \in 1..(from - 1) : op.step[i] = "completed" \/ i \in all,
           \A i \in 1..op.cur : op.step[i] = "completed" \/ i \in all,
           snap \subseteq all,
           \A i \in all : i \in snap \/ i < from,
           \A i \in SideEffect : /\ effects[i] <= unfenced[i] + 1
                                 /\ effects[i] <= unfenced[i] \/ i \in all
    PROVE  QuickInv'
  <1>1. /\ run \in [Tabs -> Run] /\ op.cur \in 0..NumSteps
    BY DEF TypeOK, Operation
  <1>2. ASSUME disk'.cps = all PROVE CountInv'
    BY <1>2 DEF CountInv
  <1>3. ASSUME NEW i \in from..NumSteps, Skipped(op, snap, i)
        PROVE  op.step[i] = "completed" \/ i \in all
    BY <1>3 DEF Skipped
  <1>4. CASE /\ \A k \in from..NumSteps : Skipped(op, snap, k)
             /\ Save(t, WithStatus(op, "completed"), cps)
             /\ run' = [run EXCEPT ![t] = NoRun]
    <2> DEFINE final == WithStatus(op, "completed")
    <2>1. disk' = [op |-> final, cps |-> all] /\ quota' = "ok"
      BY <1>4, SaveQuick
    <2>2. disk'.op.status = "completed" /\ disk'.op.step = op.step /\ disk'.op.cur = op.cur
          /\ disk'.cps = all
      BY <2>1, StatusFields
    <2>3. ASSUME NEW i \in SideEffect PROVE i \in all
      <3>1. i \in 1..NumSteps
        OBVIOUS
      <3>2. op.step[i] = "completed" \/ i \in all
        <4>1. CASE i < from
          <5>1. i \in 1..(from - 1)
            BY <3>1, <4>1
          <5> QED
            BY <5>1
        <4>2. CASE ~(i < from)
          <5>1. i \in from..NumSteps
            BY <3>1, <4>2
          <5> QED
            BY <1>3, <1>4, <5>1
        <4> QED
          BY <4>1, <4>2
      <3> QED
        BY <3>2
    <2>4. DiskInv'
      BY <2>1, <2>2, <2>3 DEF DiskInv, CompletedIsFenced
    <2>5. \A u \in Tabs : ~run'[u].live
      BY <1>1, <1>4, NoRunQuick
    <2>6. SingleRunner' /\ \A u \in Tabs : RunInv(run[u])'
      BY <2>5 DEF SingleRunner, RunInv
    <2> QED
      BY <1>2, <2>2, <2>4, <2>6 DEF QuickInv
  <1>5. ASSUME NEW i \in from..NumSteps,
               ~Skipped(op, snap, i),
               \A k \in from..(i - 1) : Skipped(op, snap, k),
               Save(t, [op EXCEPT !.step[i] = "in_progress"], cps),
               run' = [run EXCEPT ![t] =
                  [live |-> TRUE, op |-> [op EXCEPT !.step[i] = "in_progress"], at |-> i,
                   snap |-> snap, outs |-> outs, acted |-> FALSE]]
        PROVE  QuickInv'
    <2> DEFINE started == [op EXCEPT !.step[i] = "in_progress"]
               r2 == [live |-> TRUE, op |-> started, at |-> i, snap |-> snap,
                      outs |-> outs, acted |-> FALSE]
    <2>1. i \in Step /\ i \in 1..NumSteps /\ from <= i
      BY DEF Step
    <2>2. disk' = [op |-> started, cps |-> all] /\ quota' = "ok"
      BY <1>5, SaveQuick
    <2>3. /\ started.status = "in_progress" /\ started.age = "fresh" /\ started.cur = op.cur
          /\ started.step[i] = "in_progress"
          /\ \A k \in Step \ {i} : started.step[k] = op.step[k]
      BY <2>1 DEF Operation
    <2>4. op.step[i] # "completed" /\ i \notin all
      <3>1. op.step[i] # "completed" /\ ~(i \in SideEffect /\ i \in snap)
        BY <1>5 DEF Skipped
      <3>2. i \notin snap
        BY <3>1
      <3> QED
        BY <2>1, <3>1, <3>2
    <2>5. op.cur < i
      <3>1. i \notin 1..op.cur
        BY <2>4
      <3> QED
        BY <1>1, <2>1, <3>1
    <2>6. ASSUME NEW k \in 1..(i - 1) PROVE op.step[k] = "completed" \/ k \in all
      <3>1. CASE k < from
        <4>1. k \in 1..(from - 1)
          BY <3>1
        <4> QED
          BY <4>1
      <3>2. CASE ~(k < from)
        <4>1. k \in from..(i - 1) /\ k \in from..NumSteps
          BY <2>1, <3>2
        <4> QED
          BY <1>3, <1>5, <4>1
      <3> QED
        BY <3>1, <3>2
    <2>7. /\ \A k \in 1..(i - 1) : started.step[k] = "completed" \/ k \in all
          /\ \A k \in 1..op.cur : started.step[k] = "completed" \/ k \in all
          /\ \A k \in SideEffect : started.step[k] = "completed" => k \in all
      <3>1. ASSUME NEW k \in 1..(i - 1) PROVE k \in Step \ {i}
        BY <2>1 DEF Step
      <3>2. ASSUME NEW k \in 1..op.cur PROVE k \in 1..(i - 1)
        BY <1>1, <2>1, <2>5
      <3>3. ASSUME NEW k \in SideEffect PROVE k = i \/ k \in Step \ {i}
        BY DEF Step
      <3>4. \A k \in SideEffect : started.step[k] = "completed" => k \in all
        BY <2>3, <3>3
      <3> QED
        BY <2>3, <2>6, <3>1, <3>2, <3>4
    <2>8. DiskInv'
      BY <2>2, <2>3, <2>7 DEF DiskInv, CompletedIsFenced
    <2>9. RunInv(r2)'
      <3>1. /\ disk'.op = started /\ disk'.cps = all
        BY <2>2
      <3>2. \A k \in all : k \in snap \/ k < i
        <4>1. \A k \in all : k \in Int
          BY DEF TypeOK, StoreTypeOK, Slot
        <4> QED
          BY <2>1, <4>1
      <3> QED
        BY <2>3, <2>4, <2>5, <2>7, <3>1, <3>2 DEF RunInv
    <2>10. /\ run'[t] = r2 /\ \A u \in Tabs \ {t} : ~run'[u].live
      BY <1>1, <1>5
    <2> HIDE DEF r2
    <2>11. \A u \in Tabs : RunInv(run[u])'
      BY <2>9, <2>10 DEF RunInv
    <2>12. SingleRunner'
      BY <2>10 DEF SingleRunner
    <2>13. disk'.cps = all
      BY <2>2
    <2> QED
      BY <1>2, <2>8, <2>11, <2>12, <2>13 DEF QuickInv
  <1> QED
    BY <1>4, <1>5 DEF Proceed

\* A record that is neither in_progress nor aborted, or is old, has no live run.
LEMMA NobodyRuns ==
    ASSUME QuickInv, \/ disk.op.status \notin {"in_progress", "failed"}
                     \/ disk.op.age # "fresh"
    PROVE  \A t \in Tabs : ~run[t].live
  BY DEF QuickInv, RunInv

\* A save of the stored record under another status, outside a run.
LEMMA RelabelQuick ==
    ASSUME TypeOK, QuickInv, \A t \in Tabs : ~run[t].live,
           disk.op.status # "absent", disk'.cps = disk.cps,
           disk'.op.status \notin {"absent", "completed"} \/ disk'.op.status = disk.op.status,
           disk'.op.step = disk.op.step, disk'.op.cur = disk.op.cur,
           quota' = quota, run' = run, created' = created,
           effects' = effects, unfenced' = unfenced
    PROVE  QuickInv'
  <1>1. DiskInv'
    BY DEF QuickInv, DiskInv, CompletedIsFenced
  <1>2. SingleRunner' /\ \A t \in Tabs : RunInv(run[t])'
    BY DEF SingleRunner, RunInv
  <1>3. CountInv'
    BY DEF QuickInv, CountInv, InFlight
  <1> QED
    BY <1>1, <1>2, <1>3 DEF QuickInv

\* The invariant holds at first.
LEMMA InitQuick == Init => QuickInv
  <1> SUFFICES ASSUME Init PROVE QuickInv
    OBVIOUS
  <1>1. \A t \in Tabs : ~run[t].live
    BY NoRunQuick DEF Init
  <1>2. DiskInv
    BY DEF Init, StoreInit, DiskInv, EmptySlot, AbsentOp, CompletedIsFenced, Step
  <1>3. SingleRunner /\ \A t \in Tabs : RunInv(run[t])
    BY <1>1 DEF SingleRunner, RunInv
  <1>4. CountInv
    BY DEF Init, CountInv, Step
  <1> QED
    BY <1>2, <1>3, <1>4 DEF QuickInv

\* Every step keeps the invariant, one case per action.
LEMMA NextQuick ==
    ASSUME TypeOK, TypeOK', QuickInv, ~SlowSteps, ~StorageFaults, [Next]_vars
    PROVE  QuickInv'
  <1>1. /\ run \in [Tabs -> Run] /\ disk \in Slot /\ disk.op \in Operation
        /\ disk.cps \in SUBSET SideEffect
        /\ effects \in [Step -> Nat] /\ unfenced \in [Step -> Nat]
    BY DEF TypeOK, StoreTypeOK, Slot
  <1>2. quota = "ok" /\ DiskInv /\ SingleRunner /\ CountInv
    BY DEF QuickInv, DiskInv
  <1>3. ASSUME NEW t PROVE View(t) = disk
    BY <1>2 DEF View
  <1>4. ASSUME NEW t \in Tabs, run[t].live
        PROVE  /\ RunInv(run[t]) /\ disk.op.status # "absent" /\ created
               /\ run[t] \in Run /\ run[t].at \in Step /\ run[t].op \in Operation
               /\ \A u \in Tabs \ {t} : ~run[u].live
    BY <1>1, <1>2, <1>4 DEF QuickInv, RunInv, DiskInv, SingleRunner, Run
  <1>5. ASSUME NEW t \in Tabs, create(t) PROVE QuickInv'
    <2> DEFINE op == WithStatus(AbsentOp, "pending")
    <2>1. /\ Save(t, op, {}) /\ created' = TRUE /\ ~created
          /\ run' = run /\ effects' = effects /\ unfenced' = unfenced
      BY <1>5 DEF create
    <2>2. disk' = [op |-> op, cps |-> disk.cps \cup {}] /\ quota' = "ok"
      BY <1>2, <2>1, SaveQuick
    <2>3. \A u \in Tabs : ~run[u].live
      BY <1>4, <2>1
    <2>4. /\ op.status = "pending" /\ op.cur = 0
          /\ \A i \in Step : op.step[i] = "pending"
      BY EmptyTyped, StatusFields DEF AbsentOp
    <2>5. DiskInv'
      BY <1>1, <2>1, <2>2, <2>4 DEF DiskInv, CompletedIsFenced, Step
    <2>6. SingleRunner' /\ \A u \in Tabs : RunInv(run[u])'
      BY <2>1, <2>3 DEF SingleRunner, RunInv
    <2>7. CountInv'
      <3>1. disk'.cps = disk.cps
        BY <2>2
      <3> QED
        BY <1>2, <2>1, <3>1 DEF CountInv, InFlight
    <2> QED
      BY <2>5, <2>6, <2>7 DEF QuickInv
  <1>6. ASSUME NEW t \in Tabs, Start(t) PROVE QuickInv'
    <2> DEFINE op == WithStatus(disk.op, "in_progress")
               snap == disk.cps
               from == 1
               cps == {}
               all == disk.cps \cup cps
    <2>1. /\ disk.op.status \notin {"absent", "in_progress", "completed", "failed"}
          /\ Proceed(t, op, snap, snap, from, cps)
          /\ effects' = effects /\ unfenced' = unfenced
      BY <1>3, <1>6 DEF Start, Resumable
    <2>2. \A u \in Tabs : ~run[u].live
      BY <2>1, <1>2, NobodyRuns DEF DiskInv
    <2>3. created'
      <3>1. created' = created
        BY <1>6 DEF Start
      <3>2. created
        BY <1>2, <2>1 DEF DiskInv
      <3> QED
        BY <3>1, <3>2
    <2>4. /\ op \in Operation /\ op.status = "in_progress" /\ op.age = "fresh"
          /\ op.step = disk.op.step /\ op.cur = disk.op.cur
      BY <1>1, StatusTyped, StatusFields DEF OperationStatus
    <2>5. /\ snap \in SUBSET SideEffect /\ snap \subseteq all /\ cps \in SUBSET SideEffect
          /\ from \in 1..(NumSteps + 1)
          /\ \A i \in all : i \in snap \/ i < from
      BY <1>1
    <2>6. /\ \A i \in SideEffect : op.step[i] = "completed" => i \in all
          /\ \A i \in 1..(from - 1) : op.step[i] = "completed" \/ i \in all
          /\ \A i \in 1..op.cur : op.step[i] = "completed" \/ i \in all
      BY <1>2, <2>4 DEF DiskInv
    <2>7. \A i \in SideEffect : /\ effects[i] <= unfenced[i] + 1
                                /\ effects[i] <= unfenced[i] \/ i \in all
      BY <1>2, <2>1, <2>2 DEF CountInv, InFlight
    <2>8. all = disk.cps \cup cps
      OBVIOUS
    <2> HIDE DEF op, snap, from, cps, all
    <2> QED
      BY <1>2, <2>1, <2>2, <2>3, <2>4, <2>5, <2>6, <2>7, <2>8, ProceedQuick
  <1>7. ASSUME NEW t \in Tabs, Effect(t) PROVE QuickInv'
    <2> DEFINE r == run[t]
    <2>1. /\ r.live /\ ~r.acted
          /\ run' = [run EXCEPT ![t].acted = TRUE]
          /\ effects' = [effects EXCEPT ![r.at] = effects[r.at] + 1]
          /\ disk' = disk /\ quota' = quota /\ created' = created /\ unfenced' = unfenced
      BY <1>7 DEF Effect
    <2>2. /\ r.at \in Step /\ r \in Run /\ RunInv(r)
          /\ disk.op.status # "absent" /\ \A u \in Tabs \ {t} : ~run[u].live
      BY <1>4, <2>1
    <2>3. \A u \in Tabs : /\ run'[u].live = run[u].live /\ run'[u].op = run[u].op
                          /\ run'[u].snap = run[u].snap /\ run'[u].at = run[u].at
      BY <1>1, <2>1 DEF Run
    <2>4. run'[t].acted
      BY <1>1, <2>1, <2>2 DEF Run
    <2>5. DiskInv'
      BY <1>2, <2>1 DEF DiskInv, CompletedIsFenced
    <2>6. SingleRunner'
      BY <1>2, <2>3 DEF SingleRunner
    <2>7. \A u \in Tabs : RunInv(run[u])'
      BY <2>1, <2>3 DEF QuickInv, RunInv
    <2>8. CountInv'
      <3>1. ASSUME NEW i \in SideEffect, i # r.at
            PROVE  effects'[i] = effects[i] /\ ~InFlight(i)
        BY <1>1, <2>1, <2>2, <3>1 DEF InFlight, Step
      <3>2. ASSUME r.at \in SideEffect
            PROVE  effects[r.at] <= unfenced[r.at] /\ effects'[r.at] <= unfenced[r.at] + 1
        <4>1. r.at \notin disk.cps
          BY <2>1, <2>2 DEF RunInv
        <4>2. ~InFlight(r.at)
          BY <2>1, <2>2 DEF InFlight
        <4>3. effects[r.at] <= unfenced[r.at]
          BY <1>2, <2>2, <3>2, <4>1, <4>2 DEF CountInv
        <4> QED
          BY <1>1, <2>1, <2>2, <4>3
      <3>3. InFlight(r.at)'
        BY <2>1, <2>3, <2>4 DEF InFlight
      <3> QED
        BY <1>2, <2>1, <3>1, <3>2, <3>3 DEF CountInv
    <2> QED
      BY <2>5, <2>6, <2>7, <2>8 DEF QuickInv
  \* What Resolve writes, wholly or up to a crash.
  <1>8. ASSUME NEW t \in Tabs, run[t].live, run[t].acted,
               NEW all, all = disk.cps \cup Fence(run[t])
        PROVE  /\ Done(run[t]) \in Operation /\ Done(run[t]).status = "in_progress"
               /\ Done(run[t]).age = "fresh" /\ Done(run[t]).cur = run[t].at
               /\ \A i \in SideEffect : Done(run[t]).step[i] = "completed" => i \in all
               /\ \A i \in 1..run[t].at : Done(run[t]).step[i] = "completed" \/ i \in all
               /\ \A i \in SideEffect : disk.op.step[i] = "completed" => i \in all
               /\ \A i \in 1..disk.op.cur : disk.op.step[i] = "completed" \/ i \in all
               /\ \A i \in SideEffect : /\ effects[i] <= unfenced[i] + 1
                                        /\ effects[i] <= unfenced[i] \/ i \in all
    <2> DEFINE r == run[t]
    <2>1. /\ r.at \in Step /\ r \in Run /\ r.op \in Operation /\ RunInv(r) /\ r.live
          /\ disk.op.status # "absent" /\ \A u \in Tabs \ {t} : ~run[u].live
      BY <1>4, <1>8
    <2>2. /\ Done(r).status = r.op.status /\ Done(r).age = r.op.age /\ Done(r).cur = r.at
          /\ Done(r).step[r.at] = "completed"
          /\ \A i \in Step \ {r.at} : Done(r).step[i] = r.op.step[i]
      BY <2>1 DEF Done, Operation
    <2>3. /\ Done(r) \in Operation /\ disk.cps \subseteq all
          /\ r.at \in SideEffect => r.at \in all
      BY <1>8, <2>1, DoneTyped DEF Fence
    <2>4. /\ \A i \in SideEffect : disk.op.step[i] = "completed" => i \in all
          /\ \A i \in 1..disk.op.cur : disk.op.step[i] = "completed" \/ i \in all
      BY <1>2, <2>3 DEF DiskInv
    <2>5. /\ r.op.step = disk.op.step /\ r.op.status = "in_progress" /\ r.op.age = "fresh"
          /\ \A i \in 1..(r.at - 1) : r.op.step[i] = "completed" \/ i \in disk.cps
      BY <2>1 DEF RunInv
    <2>6. \A i \in SideEffect : Done(r).step[i] = "completed" => i \in all
      <3>1. \A i \in SideEffect : i = r.at \/ i \in Step \ {r.at}
        BY DEF Step
      <3> QED
        BY <2>2, <2>3, <2>4, <2>5, <3>1
    <2>7. \A i \in 1..r.at : Done(r).step[i] = "completed" \/ i \in all
      <3>1. \A i \in 1..r.at : i = r.at \/ (i \in Step \ {r.at} /\ i \in 1..(r.at - 1))
        BY <2>1 DEF Step
      <3> QED
        BY <2>2, <2>3, <2>5, <3>1
    <2>8. \A i \in SideEffect : /\ effects[i] <= unfenced[i] + 1
                                /\ effects[i] <= unfenced[i] \/ i \in all
      <3>1. \A i : InFlight(i) => i = r.at
        BY <2>1 DEF InFlight
      <3> QED
        BY <1>2, <2>1, <2>3, <3>1 DEF CountInv
    <2> QED
      BY <2>2, <2>3, <2>4, <2>5, <2>6, <2>7, <2>8
  \* The copy between the two writes is the completed one with the index of the stored one.
  <1>half. ASSUME NEW t \in Tabs, run[t].live
           PROVE  /\ StepDone(run[t]).step = Done(run[t]).step
                  /\ StepDone(run[t]).status = "in_progress"
                  /\ StepDone(run[t]).cur = disk.op.cur
                  /\ disk.op.cur \in 0..NumSteps
                  /\ \A i \in Step : disk.op.step[i] = "completed"
                                        => StepDone(run[t]).step[i] = "completed"
    <2> DEFINE r == run[t]
    <2>1. /\ r.op \in Operation /\ r.at \in Step /\ r.op.status = "in_progress"
          /\ r.op.cur = disk.op.cur /\ r.op.step = disk.op.step
      BY <1>4, <1>half DEF RunInv
    <2>2. disk.op.cur \in 0..NumSteps
      BY <1>1 DEF TypeOK, StoreTypeOK, Slot, Operation
    <2> QED
      BY <2>1, <2>2 DEF StepDone, Done, Operation
  <1>9. ASSUME NEW t \in Tabs, Resolve(t) PROVE QuickInv'
    <2> DEFINE r == run[t]
               op == Done(r)
               cps == Fence(r)
               all == disk.cps \cup cps
               from == r.at + 1
               snap == r.snap
               outs == r.outs \cup {r.at}
    <2>1. /\ r.live /\ r.acted /\ Proceed(t, op, snap, outs, from, cps)
          /\ created' = created /\ effects' = effects /\ unfenced' = unfenced
      BY <1>9 DEF Resolve, histVars
    <2>2. /\ r.at \in Step /\ r \in Run /\ RunInv(r) /\ created
          /\ \A u \in Tabs \ {t} : ~run[u].live
      BY <1>4, <2>1
    <2>3. /\ op \in Operation /\ op.status = "in_progress"
          /\ op.age = "fresh" /\ op.cur = r.at
          /\ \A i \in SideEffect : op.step[i] = "completed" => i \in all
          /\ \A i \in 1..r.at : op.step[i] = "completed" \/ i \in all
          /\ \A i \in SideEffect : /\ effects[i] <= unfenced[i] + 1
                                   /\ effects[i] <= unfenced[i] \/ i \in all
      BY <1>8, <2>1
    <2>4. from \in 1..(NumSteps + 1) /\ from - 1 = r.at
      BY <2>2 DEF Step
    <2>5. snap \in SUBSET SideEffect /\ snap \subseteq all /\ cps \in SUBSET SideEffect
      BY <2>1, <2>2, DoneTyped DEF RunInv, Run
    <2>6. \A i \in all : i \in snap \/ i < from
      <3>1. \A i \in disk.cps : i \in snap \/ i < r.at
        BY <2>1, <2>2 DEF RunInv
      <3>2. \A i \in disk.cps : i \in Step
        BY <1>1 DEF Step
      <3> QED
        BY <2>2, <3>1, <3>2 DEF Fence, Step
    <2>7. /\ \A i \in 1..(from - 1) : op.step[i] = "completed" \/ i \in all
          /\ \A i \in 1..op.cur : op.step[i] = "completed" \/ i \in all
      BY <2>3, <2>4
    <2>8. all = disk.cps \cup cps
      OBVIOUS
    <2> HIDE DEF op, cps, all, from, snap, outs, r
    <2> QED
      BY <1>2, <2>1, <2>2, <2>3, <2>4, <2>5, <2>6, <2>7, <2>8, ProceedQuick
  \* A run ends without a handler of its own: what CountInv needs.
  <1>10. ASSUME NEW t \in Tabs, run' = [run EXCEPT ![t] = NoRun],
                unfenced' = CutOff(run[t]), effects' = effects, created' = created,
                disk'.cps = disk.cps, disk'.op.status = "absent" <=> disk.op.status = "absent"
         PROVE  CountInv'
    <2> DEFINE r == run[t]
    <2>1. r \in Run /\ r.at \in Step /\ r.acted \in BOOLEAN
      BY <1>1 DEF Run
    <2>2. \A u \in Tabs : run'[u] = IF u = t THEN NoRun ELSE run[u]
      BY <1>1, <1>10
    <2>3. \A i \in Step : unfenced'[i] >= unfenced[i]
      BY <1>1, <1>10, <2>1 DEF CutOff
    <2>4. (r.live /\ r.acted) => unfenced'[r.at] = unfenced[r.at] + 1
      BY <1>1, <1>10, <2>1 DEF CutOff
    <2>5. ASSUME NEW i \in SideEffect
          PROVE  /\ effects'[i] <= unfenced'[i] + 1
                 /\ \/ effects'[i] <= unfenced'[i]
                    \/ i \in disk'.cps
                    \/ InFlight(i)'
                    \/ created' /\ disk'.op.status = "absent"
      <3>1. i \in Step /\ effects[i] \in Nat /\ unfenced[i] \in Nat
        BY <1>1 DEF Step
      <3>2. unfenced'[i] \in Nat
        <4>1. unfenced' \in [Step -> Nat]
          BY DEF TypeOK
        <4> QED
          BY <3>1, <4>1
      <3> DEFINE excused == i \in disk.cps \/ (created /\ disk.op.status = "absent")
      <3>a. /\ effects[i] <= unfenced[i] + 1
            /\ effects[i] <= unfenced[i] \/ InFlight(i) \/ excused
        BY <1>2 DEF CountInv
      <3>b. effects'[i] = effects[i] /\ unfenced'[i] >= unfenced[i]
        BY <1>10, <2>3, <3>1
      <3>c. excused => i \in disk'.cps \/ (created' /\ disk'.op.status = "absent")
        BY <1>10
      <3> HIDE DEF excused
      <3>3. effects'[i] <= unfenced'[i] + 1
        BY <3>1, <3>2, <3>a, <3>b
      <3>4. CASE InFlight(i) /\ ~(r.live /\ r.at = i /\ r.acted)
        <4>1. PICK u \in Tabs : run[u].live /\ run[u].at = i /\ run[u].acted
          BY <3>4 DEF InFlight
        <4>2. run'[u] = run[u]
          BY <2>2, <3>4, <4>1
        <4>3. InFlight(i)'
          BY <4>1, <4>2 DEF InFlight
        <4> QED
          BY <3>3, <4>3
      <3>5. CASE r.live /\ r.at = i /\ r.acted
        <4>1. unfenced'[i] = unfenced[i] + 1
          BY <2>4, <3>5
        <4>2. effects'[i] <= unfenced'[i]
          BY <3>1, <3>a, <3>b, <4>1
        <4> QED
          BY <3>3, <4>2
      <3>6. CASE ~InFlight(i)
        <4>1. effects[i] <= unfenced[i] => effects'[i] <= unfenced'[i]
          BY <3>1, <3>2, <3>b
        <4> QED
          BY <3>3, <3>6, <3>a, <3>c, <4>1
      <3> QED
        BY <3>4, <3>5, <3>6
    <2> QED
      BY <2>5 DEF CountInv
  <1>11. ASSUME NEW t \in Tabs, Reject(t) PROVE QuickInv'
    <2> DEFINE r == run[t]
               failed == [r.op EXCEPT !.step[r.at] = "failed"]
               op == WithStatus(failed, "paused")
    <2>1. /\ r.live /\ Save(t, op, {}) /\ run' = [run EXCEPT ![t] = NoRun]
          /\ unfenced' = CutOff(r) /\ created' = created /\ effects' = effects
      BY <1>11 DEF Reject
    <2>2. /\ r.at \in Step /\ r \in Run /\ r.op \in Operation /\ RunInv(r)
          /\ disk.op.status # "absent" /\ created
          /\ \A u \in Tabs \ {t} : ~run[u].live
      BY <1>4, <2>1
    <2>3. failed \in Operation
      BY <2>2 DEF Operation, StepStatus
    <2>4. /\ op.status = "paused" /\ op.cur = r.op.cur /\ op.step[r.at] = "failed"
          /\ \A i \in Step \ {r.at} : op.step[i] = r.op.step[i]
      BY <2>2, <2>3, StatusFields DEF Operation
    <2>5. disk' = [op |-> op, cps |-> disk.cps \cup {}] /\ quota' = "ok"
      BY <1>2, <2>1, SaveQuick
    <2>6. disk'.op = op /\ disk'.cps = disk.cps
      BY <2>5
    <2>7. r.op.step = disk.op.step /\ r.op.cur = disk.op.cur /\ r.op.step[r.at] = "in_progress"
      BY <2>1, <2>2 DEF RunInv
    <2>8. DiskInv'
      <3>1. \A i \in SideEffect : i \in Step
        BY DEF Step
      <3>2. \A i \in 1..disk.op.cur : i \in Step
        BY <1>1 DEF Operation, Step
      <3>3. \A i \in Step : op.step[i] = "completed" <=> disk.op.step[i] = "completed"
        BY <2>4, <2>7
      <3> HIDE DEF op
      <3> QED
        BY <1>2, <2>1, <2>2, <2>4, <2>5, <2>6, <2>7, <3>1, <3>2, <3>3
        DEF DiskInv, CompletedIsFenced
    <2>9. \A u \in Tabs : ~run'[u].live
      BY <1>1, <2>1, <2>2, NoRunQuick
    <2>10. SingleRunner' /\ \A u \in Tabs : RunInv(run[u])'
      BY <2>9 DEF SingleRunner, RunInv
    <2>11. CountInv'
      BY <1>10, <2>1, <2>2, <2>4, <2>6
    <2> QED
      BY <2>8, <2>10, <2>11 DEF QuickInv
  <1>12. ASSUME NEW t \in Tabs, Crash(t) PROVE QuickInv'
    <2>1. /\ run' = [run EXCEPT ![t] = NoRun] /\ unfenced' = CutOff(run[t])
          /\ effects' = effects /\ created' = created /\ disk' = disk /\ quota' = quota
      BY <1>12 DEF Crash
    <2>2. CountInv'
      BY <1>10, <2>1
    <2>3. DiskInv'
      BY <1>2, <2>1 DEF DiskInv, CompletedIsFenced
    <2>4. \A u \in Tabs : run'[u] = run[u] \/ ~run'[u].live
      BY <1>1, <2>1, NoRunQuick
    <2>5. SingleRunner' /\ \A u \in Tabs : RunInv(run[u])'
      BY <2>1, <2>4 DEF SingleRunner, RunInv, QuickInv
    <2> QED
      BY <2>2, <2>3, <2>5 DEF QuickInv
  <1>13. ASSUME NEW t \in Tabs, CrashInResolve(t) PROVE QuickInv'
    <2> DEFINE r == run[t]
               all == disk.cps \cup Fence(r)
    <2>1. /\ r.live /\ r.acted /\ run' = [run EXCEPT ![t] = NoRun]
          /\ effects' = effects /\ created' = created /\ unfenced' = unfenced /\ quota' = quota
      BY <1>13 DEF CrashInResolve
    <2>2. PICK op \in {disk.op, StepDone(r), Done(r)} : WriteDisk(op, Fence(r))
      BY <1>13 DEF CrashInResolve
    <2>3. disk' = [op |-> op, cps |-> all]
      BY <1>2, <2>2 DEF WriteDisk, WriteLands
    <2>4. disk'.op = op /\ disk'.cps = all
      BY <2>3
    <2>5. /\ created /\ disk.op.status \in {"in_progress", "failed"}
          /\ \A u \in Tabs \ {t} : ~run[u].live
      BY <1>4, <2>1 DEF RunInv
    <2>6. \A u \in Tabs : ~run'[u].live
      BY <1>1, <2>1, <2>5, NoRunQuick
    <2>7. /\ op.status # "completed"
          /\ \A i \in SideEffect : op.step[i] = "completed" => i \in all
          /\ \A i \in 1..op.cur : op.step[i] = "completed" \/ i \in all
      <3>1. CASE op = disk.op
        BY <1>8, <2>1, <2>5, <3>1
      <3>2. CASE op = Done(r)
        BY <1>8, <2>1, <3>2
      <3>3. CASE op = StepDone(r)
        <4>1. \A i \in SideEffect : op.step[i] = "completed" => i \in all
          BY <1>8, <1>half, <2>1, <3>3
        <4>2. op.cur = disk.op.cur /\ disk.op.cur \in 0..NumSteps
          BY <1>half, <2>1, <3>3
        <4>3. \A i \in 1..op.cur : disk.op.step[i] = "completed" \/ i \in all
          BY <1>8, <2>1, <4>2
        <4>4. \A i \in 1..op.cur : i \in Step
          BY <4>2 DEF Step
        <4> QED
          BY <1>half, <2>1, <3>3, <4>1, <4>3, <4>4
      <3> QED
        BY <2>2, <3>1, <3>2, <3>3
    <2>8. \A i \in SideEffect : /\ effects[i] <= unfenced[i] + 1
                                /\ effects[i] <= unfenced[i] \/ i \in all
      BY <1>8, <2>1
    <2> HIDE DEF all, r
    <2>9. DiskInv'
      BY <1>2, <2>1, <2>4, <2>5, <2>7 DEF DiskInv, CompletedIsFenced
    <2>10. SingleRunner' /\ \A u \in Tabs : RunInv(run[u])'
      BY <2>6 DEF SingleRunner, RunInv
    <2>11. CountInv'
      BY <2>1, <2>4, <2>8 DEF CountInv
    <2> QED
      BY <2>9, <2>10, <2>11 DEF QuickInv
  <1>14. ASSUME NEW t \in Tabs, sweepAbandoned(t) PROVE QuickInv'
    <2>1. /\ disk.op.status \in {"paused", "in_progress"} /\ disk.op.age # "fresh"
          /\ Save(t, WithStatus(disk.op, "abandoned"), {})
          /\ run' = run /\ created' = created /\ effects' = effects /\ unfenced' = unfenced
      BY <1>3, <1>14 DEF sweepAbandoned
    <2>2. disk' = [op |-> WithStatus(disk.op, "abandoned"), cps |-> disk.cps \cup {}]
          /\ quota' = quota
      BY <1>2, <2>1, SaveQuick
    <2>3. /\ disk'.cps = disk.cps /\ disk'.op.status = "abandoned"
          /\ disk'.op.step = disk.op.step /\ disk'.op.cur = disk.op.cur
      BY <1>1, <2>2, StatusFields
    <2> QED
      BY <2>1, <2>2, <2>3, NobodyRuns, RelabelQuick
  <1>15. ASSUME NEW t \in Tabs, pruneExpired(t) PROVE QuickInv'
    <2>1. /\ disk.op.status \in {"completed", "failed", "abandoned"} /\ disk.op.age = "expired"
          /\ disk' = EmptySlot /\ quota' = quota
          /\ run' = run /\ created' = created /\ effects' = effects /\ unfenced' = unfenced
      BY <1>2, <1>3, <1>15 DEF pruneExpired, Delete
    <2>2. created /\ \A u \in Tabs : ~run[u].live
      BY <1>2, <2>1, NobodyRuns DEF DiskInv
    <2>3. DiskInv'
      BY <1>2, <2>1 DEF DiskInv, CompletedIsFenced, EmptySlot, AbsentOp, Step
    <2>4. SingleRunner' /\ \A u \in Tabs : RunInv(run[u])'
      BY <2>1, <2>2 DEF SingleRunner, RunInv
    <2>5. CountInv'
      BY <1>2, <2>1, <2>2 DEF CountInv, EmptySlot, AbsentOp
    <2> QED
      BY <2>3, <2>4, <2>5 DEF QuickInv
  <1>16. ASSUME NEW t \in Tabs, abortOperation(t) PROVE QuickInv'
    <2> DEFINE op == WithStatus(disk.op, "failed")
    <2>1. /\ disk.op.status # "absent" /\ Allows(disk.op, "failed") /\ Save(t, op, {})
          /\ run' = run /\ created' = created /\ effects' = effects /\ unfenced' = unfenced
      BY <1>3, <1>16 DEF abortOperation
    <2>2. disk' = [op |-> op, cps |-> disk.cps \cup {}] /\ quota' = "ok"
      BY <1>2, <2>1, SaveQuick
    <2>3. /\ disk'.cps = disk.cps /\ disk'.op.status = "failed" /\ disk'.op.age = "fresh"
          /\ disk'.op.step = disk.op.step /\ disk'.op.cur = disk.op.cur
      BY <1>1, <2>2, StatusFields
    <2>4. DiskInv'
      BY <1>2, <2>1, <2>2, <2>3 DEF DiskInv, CompletedIsFenced
    <2>5. SingleRunner' /\ \A u \in Tabs : RunInv(run[u])'
      BY <2>1, <2>3 DEF SingleRunner, RunInv, QuickInv
    <2>6. CountInv'
      BY <1>2, <2>1, <2>3 DEF CountInv, InFlight
    <2> QED
      BY <2>4, <2>5, <2>6 DEF QuickInv
  <1>17. CASE TimePasses
    <2>1. PICK age \in {"stale", "expired"} : GrowOld(age)
      BY <1>17 DEF TimePasses
    <2>2. /\ disk' = [disk EXCEPT !.op = Aged(disk.op, age)] /\ quota' = quota
          /\ run' = run /\ created' = created /\ effects' = effects /\ unfenced' = unfenced
          /\ \A t \in Tabs : ~run[t].live
      BY <1>17, <2>1 DEF TimePasses, GrowOld
    <2>3. /\ disk'.cps = disk.cps /\ disk'.op.status = disk.op.status
          /\ disk'.op.step = disk.op.step /\ disk'.op.cur = disk.op.cur
      BY <1>1, <2>2 DEF Slot, Aged, Operation
    <2>4. DiskInv'
      BY <1>2, <2>2, <2>3 DEF DiskInv, CompletedIsFenced
    <2>5. SingleRunner' /\ \A u \in Tabs : RunInv(run[u])'
      BY <2>2 DEF SingleRunner, RunInv
    <2>6. CountInv'
      BY <1>2, <2>2, <2>3 DEF CountInv, InFlight
    <2> QED
      BY <2>4, <2>5, <2>6 DEF QuickInv
  <1>18. ~StorageChanges
    BY DEF StorageChanges, QuotaChanges
  <1>19. CASE UNCHANGED vars
    BY <1>19 DEF vars, QuickInv, DiskInv, CompletedIsFenced, SingleRunner, RunInv, CountInv, InFlight
  <1> QED
    BY <1>5, <1>6, <1>7, <1>9, <1>11, <1>12, <1>13, <1>14, <1>15, <1>16, <1>17,
       <1>18, <1>19 DEF Next

------------------------------------------------------------------------------
\* The inductive invariant of quick executors and a reliable storage.
LEMMA QuickInvariant == Spec /\ ~SlowSteps /\ ~StorageFaults => []QuickInv
  <1>1. CASE ~SlowSteps /\ ~StorageFaults
    <2>1. TypeOK /\ TypeOK' /\ QuickInv /\ [Next]_vars => QuickInv'
      BY <1>1, NextQuick
    <2> QED
      BY <2>1, InitQuick, TypeCorrect, PTL DEF Spec
  <1>2. CASE ~(~SlowSteps /\ ~StorageFaults)
    BY <1>2
  <1> QED
    BY <1>1, <1>2

\* While executors are quicker than abandonAfterMs, the in_progress status lets
\* no two tabs run an operation at once.
THEOREM OneRunnerAtATime ==
    Spec /\ ~SlowSteps /\ ~StorageFaults => []SingleRunner
  <1>1. QuickInv => SingleRunner
    BY DEF QuickInv
  <1> QED
    BY <1>1, QuickInvariant, PTL

\* A side effect is repeated only after a run that was cut off between the
\* effect and its checkpoint, once for each such cut, and a completed operation
\* holds the checkpoint of each side-effect step.
THEOREM EffectsAreFenced ==
    Spec /\ ~SlowSteps /\ ~StorageFaults => []FencesHold
  <1>1. QuickInv => FencesHold
    BY DEF QuickInv, CountInv, DiskInv, AtMostOncePerFence, FencesHold
  <1> QED
    BY <1>1, QuickInvariant, PTL

------------------------------------------------------------------------------
(* Steps *)

\* The loop of execute() takes the record forward.
LEMMA ProceedForward ==
    ASSUME quota = "ok", NEW t, NEW op \in Operation, NEW snap, NEW outs,
           NEW from \in 1..(NumSteps + 1), NEW cps, Proceed(t, op, snap, outs, from, cps)
    PROVE  /\ disk'.op.cur = op.cur
           /\ \A i \in Step : op.step[i] = "completed" => disk'.op.step[i] = "completed"
  <1>1. CASE Save(t, WithStatus(op, "completed"), cps)
    <2>1. disk'.op = WithStatus(op, "completed")
      BY <1>1, SaveQuick
    <2> QED
      BY <2>1, StatusFields
  <1>2. ASSUME NEW i \in from..NumSteps, ~Skipped(op, snap, i),
               Save(t, [op EXCEPT !.step[i] = "in_progress"], cps)
        PROVE  /\ disk'.op.cur = op.cur
               /\ \A k \in Step : op.step[k] = "completed" => disk'.op.step[k] = "completed"
    <2>1. disk'.op = [op EXCEPT !.step[i] = "in_progress"]
      BY <1>2, SaveQuick
    <2>2. op.step[i] # "completed"
      BY <1>2 DEF Skipped
    <2> QED
      BY <2>1, <2>2 DEF Operation
  <1> QED
    BY <1>1, <1>2 DEF Proceed

\* No step takes the stored operation back or reopens a completed one.
LEMMA NextForward ==
    ASSUME TypeOK, QuickInv, ~SlowSteps, ~StorageFaults, [Next]_vars
    PROVE  ForwardStep /\ FinalStep
  <1>1. /\ disk.op \in Operation /\ disk.op.cur \in Int /\ quota = "ok" /\ DiskInv
        /\ \A t : View(t) = disk
    BY DEF TypeOK, StoreTypeOK, Slot, Operation, QuickInv, DiskInv, View
  <1>2. ASSUME NEW t \in Tabs, run[t].live
        PROVE  /\ RunInv(run[t]) /\ run[t] \in Run /\ run[t].at \in Step
               /\ run[t].op \in Operation /\ disk.op.status # "completed"
    BY <1>2 DEF TypeOK, Run, QuickInv, RunInv
  \* The record keeps its steps and its index.
  <1>3. ASSUME disk'.op.step = disk.op.step, disk'.op.cur = disk.op.cur,
               disk.op.status = "completed" => disk'.op.status = "completed"
        PROVE  ForwardStep /\ FinalStep
    BY <1>1, <1>3 DEF ForwardStep, FinalStep
  <1>4. ASSUME NEW t \in Tabs, create(t) PROVE ForwardStep /\ FinalStep
    BY <1>1, <1>4 DEF create, DiskInv, ForwardStep, FinalStep
  <1>5. ASSUME NEW t \in Tabs, Start(t) PROVE ForwardStep /\ FinalStep
    <2> DEFINE op == WithStatus(disk.op, "in_progress")
    <2>1. /\ disk.op.status # "completed" /\ Proceed(t, op, disk.cps, disk.cps, 1, {})
      BY <1>1, <1>5 DEF Start, Resumable
    <2>2. op \in Operation /\ op.step = disk.op.step /\ op.cur = disk.op.cur
      BY <1>1, StatusTyped, StatusFields DEF OperationStatus
    <2>3. 1 \in 1..(NumSteps + 1)
      OBVIOUS
    <2> HIDE DEF op
    <2>4. /\ disk'.op.cur = op.cur
          /\ \A i \in Step : op.step[i] = "completed" => disk'.op.step[i] = "completed"
      BY <1>1, <2>1, <2>2, <2>3, ProceedForward
    <2> QED
      BY <1>1, <2>1, <2>2, <2>4 DEF ForwardStep, FinalStep
  \* Resolve, and a crash in the middle of it, write a copy that is ahead.
  <1>6. ASSUME NEW t \in Tabs, run[t].live
        PROVE  /\ Done(run[t]) \in Operation /\ Done(run[t]).cur >= disk.op.cur
               /\ \A i \in Step : disk.op.step[i] = "completed" => Done(run[t]).step[i] = "completed"
               /\ StepDone(run[t]).step = Done(run[t]).step
               /\ StepDone(run[t]).cur = disk.op.cur /\ disk.op.cur \in Nat
    <2> DEFINE r == run[t]
    <2>1. /\ r \in Run /\ r.at \in Step /\ r.op \in Operation /\ r.op.step = disk.op.step
          /\ r.op.cur = disk.op.cur /\ r.op.cur < r.at
      BY <1>2, <1>6 DEF RunInv
    <2>2. /\ Done(r).cur = r.at
          /\ \A i \in Step : r.op.step[i] = "completed" => Done(r).step[i] = "completed"
          /\ StepDone(r).step = Done(r).step /\ StepDone(r).cur = r.op.cur
      BY <2>1 DEF Done, StepDone, Operation
    <2>3. disk.op.cur \in 0..NumSteps
      BY <1>1 DEF TypeOK, StoreTypeOK, Slot, Operation
    <2> QED
      BY <1>1, <2>1, <2>2, <2>3, DoneTyped DEF Step
  <1>7. ASSUME NEW t \in Tabs, Resolve(t) PROVE ForwardStep /\ FinalStep
    <2> DEFINE r == run[t]
               op == Done(r)
               from == r.at + 1
               outs == r.outs \cup {r.at}
               snap == r.snap
               cps == Fence(r)
    <2>1. r.live /\ Proceed(t, op, snap, outs, from, cps)
      BY <1>7 DEF Resolve
    <2>2. from \in 1..(NumSteps + 1) /\ disk.op.status # "completed"
      BY <1>2, <2>1 DEF Step
    <2>3. /\ op \in Operation /\ op.cur >= disk.op.cur
          /\ \A i \in Step : disk.op.step[i] = "completed" => op.step[i] = "completed"
      BY <1>6, <2>1
    <2> HIDE DEF op, from, outs, snap, cps, r
    <2>4. /\ disk'.op.cur = op.cur
          /\ \A i \in Step : op.step[i] = "completed" => disk'.op.step[i] = "completed"
      BY <1>1, <2>1, <2>2, <2>3, ProceedForward
    <2> QED
      BY <2>2, <2>3, <2>4 DEF ForwardStep, FinalStep
  <1>8. ASSUME NEW t \in Tabs, Reject(t) PROVE ForwardStep /\ FinalStep
    <2> DEFINE r == run[t]
               failed == [r.op EXCEPT !.step[r.at] = "failed"]
               op == WithStatus(failed, "paused")
    <2>1. r.live /\ Save(t, op, {})
      BY <1>8 DEF Reject
    <2>2. /\ r.at \in Step /\ r.op \in Operation /\ RunInv(r) /\ disk.op.status # "completed"
      BY <1>2, <2>1
    <2>3. failed \in Operation
      BY <2>2 DEF Operation, StepStatus
    <2>4. /\ op.cur = r.op.cur
          /\ \A i \in Step \ {r.at} : op.step[i] = r.op.step[i]
      BY <2>2, <2>3, StatusFields DEF Operation
    <2>5. disk'.op = op
      BY <1>1, <2>1, SaveQuick
    <2> HIDE DEF op
    <2>6. r.op.step = disk.op.step /\ r.op.cur = disk.op.cur /\ r.op.step[r.at] = "in_progress"
      BY <2>1, <2>2 DEF RunInv
    <2> QED
      BY <1>1, <2>2, <2>4, <2>5, <2>6 DEF ForwardStep, FinalStep
  <1>9. ASSUME NEW t \in Tabs, Crash(t) PROVE ForwardStep /\ FinalStep
    BY <1>3, <1>9 DEF Crash
  <1>10. ASSUME NEW t \in Tabs, CrashInResolve(t) PROVE ForwardStep /\ FinalStep
    <2>1. run[t].live
      BY <1>10 DEF CrashInResolve
    <2>2. PICK op \in {disk.op, StepDone(run[t]), Done(run[t])} : WriteDisk(op, Fence(run[t]))
      BY <1>10 DEF CrashInResolve
    <2>3. disk'.op = op
      BY <1>1, <2>2 DEF WriteDisk, WriteLands
    <2>4. disk.op.status # "completed"
      BY <1>2, <2>1
    <2>5. CASE op = disk.op
      BY <1>1, <2>3, <2>4, <2>5 DEF ForwardStep, FinalStep
    <2>6. CASE op = Done(run[t])
      BY <1>6, <2>1, <2>3, <2>4, <2>6 DEF ForwardStep, FinalStep
    <2>7. CASE op = StepDone(run[t])
      BY <1>6, <2>1, <2>3, <2>4, <2>7 DEF ForwardStep, FinalStep
    <2> QED
      BY <2>2, <2>5, <2>6, <2>7
  <1>11. ASSUME NEW t \in Tabs, sweepAbandoned(t) PROVE ForwardStep /\ FinalStep
    <2>1. disk.op.status # "completed" /\ Save(t, WithStatus(disk.op, "abandoned"), {})
      BY <1>1, <1>11 DEF sweepAbandoned
    <2>2. disk'.op = WithStatus(disk.op, "abandoned")
      BY <1>1, <2>1, SaveQuick
    <2> QED
      BY <1>1, <1>3, <2>1, <2>2, StatusFields
  <1>12. ASSUME NEW t \in Tabs, pruneExpired(t) PROVE ForwardStep /\ FinalStep
    BY <1>1, <1>12 DEF pruneExpired, Delete, EmptySlot, AbsentOp, ForwardStep, FinalStep
  <1>13. ASSUME NEW t \in Tabs, abortOperation(t) PROVE ForwardStep /\ FinalStep
    <2>1. Allows(disk.op, "failed") /\ Save(t, WithStatus(disk.op, "failed"), {})
      BY <1>1, <1>13 DEF abortOperation
    <2>2. disk'.op = WithStatus(disk.op, "failed")
      BY <1>1, <2>1, SaveQuick
    <2>3. disk.op.status # "completed"
      BY <2>1 DEF Allows, OPERATION_TRANSITION_TABLE
    <2> QED
      BY <1>1, <1>3, <2>2, <2>3, StatusFields
  <1>14. ASSUME TimePasses PROVE ForwardStep /\ FinalStep
    <2>1. PICK age \in {"stale", "expired"} : disk' = [disk EXCEPT !.op = Aged(disk.op, age)]
      BY <1>14 DEF TimePasses, GrowOld
    <2>2. disk \in Slot
      BY DEF TypeOK, StoreTypeOK
    <2>3. /\ disk'.op.status = disk.op.status
          /\ disk'.op.step = disk.op.step /\ disk'.op.cur = disk.op.cur
      BY <1>1, <2>1, <2>2 DEF Slot, Aged, Operation
    <2> QED
      BY <1>3, <2>3
  <1>15. ~StorageChanges
    BY DEF StorageChanges, QuotaChanges
  <1>16. ASSUME NEW t \in Tabs, Effect(t) PROVE ForwardStep /\ FinalStep
    BY <1>3, <1>16 DEF Effect
  <1>17. CASE UNCHANGED vars
    BY <1>3, <1>17 DEF vars
  <1> QED
    BY <1>4, <1>5, <1>7, <1>8, <1>9, <1>10, <1>11, <1>12, <1>13, <1>14, <1>15,
       <1>16, <1>17 DEF Next

\* The two action properties together, from the invariant.
LEMMA QuickSteps ==
    Spec /\ ~SlowSteps /\ ~StorageFaults => [][ForwardStep /\ FinalStep]_vars
  <1>1. CASE ~SlowSteps /\ ~StorageFaults
    <2>1. TypeOK /\ QuickInv /\ [Next]_vars => [ForwardStep /\ FinalStep]_vars
      BY <1>1, NextForward
    <2>2. Spec => []QuickInv
      BY <1>1, QuickInvariant
    <2> QED
      BY <2>1, <2>2, TypeCorrect, PTL DEF Spec
  <1>2. CASE ~(~SlowSteps /\ ~StorageFaults)
    BY <1>2
  <1> QED
    BY <1>1, <1>2

\* The stored operation never moves backwards: current step, completed steps
\* and, until it is pruned at retentionMs, its being completed.
THEOREM RecoveryMovesForward ==
    Spec /\ ~SlowSteps /\ ~StorageFaults => ForwardOnly
  BY QuickSteps DEF ForwardOnly
==============================================================================
