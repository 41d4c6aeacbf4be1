--------------------------- MODULE RecoveryProofs ---------------------------
(***************************************************************************)
(* Proofs about Recovery, for any number of tabs, any operation and any     *)
(* choice of its side-effect steps.                                         *)
(***************************************************************************)
EXTENDS Recovery, TLAPS

USE StepsAssumption, StartsAssumption

------------------------------------------------------------------------------
(* Types *)

\* Every operation record an action writes is well typed.
LEMMA StatusTyped ==
    ASSUME NEW op \in Operation, NEW status \in OperationStatus
    PROVE  WithStatus(op, status) \in Operation
  BY DEF WithStatus, Operation, Age

\* _updateOp changes the status and the time of writing only.
LEMMA StatusFields ==
    ASSUME NEW op \in Operation, NEW status
    PROVE  /\ WithStatus(op, status).status = status
           /\ WithStatus(op, status).step = op.step
           /\ WithStatus(op, status).cur = op.cur
           /\ WithStatus(op, status).age = "fresh"
  BY DEF WithStatus, Operation

\* An empty store is well typed.
LEMMA EmptyTyped == AbsentOp \in Operation /\ EmptySlot \in Slot
  BY DEF AbsentOp, EmptySlot, Operation, Slot, Age, StepStatus, Step

\* So is the absence of a run.
LEMMA NoRunTyped == NoRun \in Run
  BY EmptyTyped DEF NoRun, Run, Step

\* The copy with its step completed, and its checkpoint, are well typed.
LEMMA DoneTyped ==
    ASSUME NEW r \in Run
    PROVE  /\ Done(r) \in Operation /\ Fence(r) \in SUBSET SideEffect
           /\ StepDone(r) \in Operation
  <1>1. r.at \in Step /\ r.op \in Operation
    BY DEF Run
  <1>2. r.at \in 0..NumSteps
    BY <1>1 DEF Step
  <1>3. [r.op.step EXCEPT ![r.at] = "completed"] \in [Step -> StepStatus]
    BY <1>1 DEF Operation, StepStatus
  <1>4. Done(r) \in Operation
    BY <1>1, <1>2, <1>3 DEF Done, Operation
  <1>5. StepDone(r) \in Operation
    BY <1>1, <1>3 DEF StepDone, Operation
  <1> QED
    BY <1>4, <1>5 DEF Fence

\* Writes keep the store well typed, also those that are lost.
LEMMA SaveTyped ==
    ASSUME StoreTypeOK, NEW t \in Tabs, NEW op \in Operation,
           NEW cps \in SUBSET SideEffect, Save(t, op, cps)
    PROVE  StoreTypeOK'
  <1>1. disk \in Slot /\ disk.op \in Operation /\ disk.cps \in SUBSET SideEffect
        /\ mem \in [Tabs -> Slot] /\ quota \in {"ok", "full", "denied"}
    BY DEF StoreTypeOK, Slot
  <1>2. CASE quota = "denied"
    <2>1. /\ mem' = [mem EXCEPT ![t] = [op |-> op, cps |-> mem[t].cps \cup cps]]
          /\ disk' = disk /\ quota' = quota
      BY <1>2 DEF Save
    <2>2. [op |-> op, cps |-> mem[t].cps \cup cps] \in Slot
      BY <1>1 DEF Slot
    <2> QED
      BY <1>1, <2>1, <2>2 DEF StoreTypeOK
  <1>3. CASE quota # "denied"
    <2>1. PICK opLands, cpLands \in WriteLands :
            disk' = [op  |-> IF opLands THEN op ELSE disk.op,
                     cps |-> IF cpLands THEN disk.cps \cup cps ELSE disk.cps]
      BY <1>3 DEF Save, WriteDisk
    <2>2. disk' \in Slot
      BY <1>1, <2>1 DEF Slot
    <2> QED
      BY <1>1, <1>3, <2>2 DEF StoreTypeOK, Save
  <1> QED
    BY <1>2, <1>3

\* What a tab reads is well typed.
LEMMA ViewTyped ==
    ASSUME StoreTypeOK, NEW t \in Tabs
    PROVE  View(t) \in Slot /\ View(t).op \in Operation /\ View(t).cps \in SUBSET SideEffect
  BY DEF StoreTypeOK, View, Slot

\* The loop of execute() keeps the types.
LEMMA ProceedTyped ==
    ASSUME TypeOK, NEW t \in Tabs, NEW op \in Operation, NEW snap \in SUBSET SideEffect,
           NEW outs \in SUBSET Step, NEW from \in 1..(NumSteps + 1),
           NEW cps \in SUBSET SideEffect, Proceed(t, op, snap, outs, from, cps)
    PROVE  StoreTypeOK' /\ run' \in [Tabs -> Run]
  <1>1. CASE /\ \A k \in from..NumSteps : Skipped(op, snap, k)
             /\ Save(t, WithStatus(op, "completed"), cps)
             /\ run' = [run EXCEPT ![t] = NoRun]
    <2>1. WithStatus(op, "completed") \in Operation
      BY StatusTyped DEF OperationStatus
    <2>2. StoreTypeOK'
      BY <1>1, <2>1, SaveTyped DEF TypeOK
    <2>3. run' \in [Tabs -> Run]
      BY <1>1, NoRunTyped DEF TypeOK
    <2> QED
      BY <2>2, <2>3
  <1>2. ASSUME NEW i \in from..NumSteps,
               Save(t, [op EXCEPT !.step[i] = "in_progress"], cps),
               run' = [run EXCEPT ![t] =
                  [live |-> TRUE, op |-> [op EXCEPT !.step[i] = "in_progress"], at |-> i,
                   snap |-> snap, outs |-> outs, acted |-> FALSE]]
        PROVE  StoreTypeOK' /\ run' \in [Tabs -> Run]
    <2>1. i \in Step
      BY DEF Step
    <2>2. [op EXCEPT !.step[i] = "in_progress"] \in Operation
      BY <2>1 DEF Operation, StepStatus
    <2>3. [live |-> TRUE, op |-> [op EXCEPT !.step[i] = "in_progress"], at |-> i,
           snap |-> snap, outs |-> outs, acted |-> FALSE] \in Run
      BY <2>1, <2>2 DEF Run
    <2> QED
      BY <1>2, <2>2, <2>3, SaveTyped DEF TypeOK
  <1> QED
    BY <1>1, <1>2 DEF Proceed

\* A fresh store is well typed.
LEMMA InitTyped == Init => TypeOK
  <1> SUFFICES ASSUME Init PROVE TypeOK
    OBVIOUS
  <1>1. StoreTypeOK
    BY EmptyTyped DEF Init, StoreInit, StoreTypeOK
  <1>2. run \in [Tabs -> Run]
    BY NoRunTyped DEF Init
  <1>3. created \in BOOLEAN
    BY DEF Init
  <1>4. starts \in 0..MaxStarts
    BY DEF Init
  <1>5. effects \in [Step -> Nat] /\ unfenced \in [Step -> Nat]
    BY DEF Init
  <1> QED
    BY <1>1, <1>2, <1>3, <1>4, <1>5 DEF TypeOK

\* Every step keeps the types.
LEMMA NextTyped ==
    ASSUME TypeOK, [Next]_vars
    PROVE  TypeOK'
  <1>1. ASSUME NEW t \in Tabs, create(t) PROVE TypeOK'
    <2>1. WithStatus(AbsentOp, "pending") \in Operation
      BY StatusTyped, EmptyTyped DEF OperationStatus
    <2> QED
      BY <1>1, <2>1, SaveTyped DEF create, TypeOK
  <1>2. ASSUME NEW t \in Tabs, Start(t) PROVE TypeOK'
    <2>1. /\ View(t).op \in Operation
          /\ View(t).cps \in SUBSET SideEffect
          /\ View(t).cps \in SUBSET Step
          /\ WithStatus(View(t).op, "in_progress") \in Operation
      BY ViewTyped, StatusTyped DEF TypeOK, OperationStatus, Step
    <2>2. StoreTypeOK' /\ run' \in [Tabs -> Run]
      <3>1. 1 \in 1..(NumSteps + 1)
        OBVIOUS
      <3> QED
        BY <1>2, <2>1, <3>1, ProceedTyped DEF Start
    <2> QED
      BY <1>2, <2>2 DEF Start, TypeOK
  <1>3. ASSUME NEW t \in Tabs, Effect(t) PROVE TypeOK'
    <2>1. run[t] \in Run /\ run[t].at \in Step
      BY DEF TypeOK, Run
    <2>2. effects' \in [Step -> Nat]
      BY <1>3, <2>1 DEF Effect, TypeOK
    <2>3. [run[t] EXCEPT !.acted = TRUE] \in Run
      BY <2>1 DEF Run
    <2>4. run' \in [Tabs -> Run]
      BY <1>3, <2>3 DEF Effect, TypeOK
    <2> QED
      BY <1>3, <2>2, <2>4 DEF Effect, TypeOK, StoreTypeOK
  <1>4. ASSUME NEW t \in Tabs, Resolve(t) PROVE TypeOK'
    <2> DEFINE r == run[t]
    <2>1. r \in Run /\ r.at \in Step /\ r.op \in Operation
      BY DEF TypeOK, Run
    <2>2. /\ Done(r) \in Operation
          /\ r.snap \in SUBSET SideEffect
          /\ r.outs \cup {r.at} \in SUBSET Step
          /\ r.at + 1 \in 1..(NumSteps + 1)
          /\ Fence(r) \in SUBSET SideEffect
      <3>1. Done(r) \in Operation /\ Fence(r) \in SUBSET SideEffect
        BY <2>1, DoneTyped
      <3> QED
        BY <2>1, <3>1 DEF Run, Step
    <2>3. StoreTypeOK' /\ run' \in [Tabs -> Run]
      BY <1>4, <2>2, ProceedTyped DEF Resolve
    <2> QED
      BY <1>4, <2>3 DEF Resolve, TypeOK, histVars
  <1>5. ASSUME NEW t \in Tabs PROVE CutOff(run[t]) \in [Step -> Nat]
    BY DEF CutOff, TypeOK, Run
  <1>6. ASSUME NEW t \in Tabs, Reject(t) PROVE TypeOK'
    <2> DEFINE r == run[t]
    <2>1. r \in Run /\ r.at \in Step /\ r.op \in Operation
      BY DEF TypeOK, Run
    <2>2. [r.op EXCEPT !.step[r.at] = "failed"] \in Operation
      BY <2>1 DEF Operation, StepStatus
    <2>3. WithStatus([r.op EXCEPT !.step[r.at] = "failed"], "paused") \in Operation
      BY <2>2, StatusTyped DEF OperationStatus
    <2>4. StoreTypeOK'
      BY <1>6, <2>3, SaveTyped DEF Reject, TypeOK
    <2> QED
      BY <1>5, <1>6, <2>4, NoRunTyped DEF Reject, TypeOK
  <1>7. ASSUME NEW t \in Tabs, Crash(t) PROVE TypeOK'
    BY <1>5, <1>7, EmptyTyped, NoRunTyped DEF Crash, TypeOK, StoreTypeOK, ForgetFallback
  <1>8. ASSUME NEW t \in Tabs, CrashInResolve(t) PROVE TypeOK'
    <2> DEFINE r == run[t]
    <2>1. r \in Run /\ r.at \in Step /\ r.op \in Operation
      BY DEF TypeOK, Run
    <2>2. /\ Done(r) \in Operation /\ Fence(r) \in SUBSET SideEffect
          /\ StepDone(r) \in Operation
      BY <2>1, DoneTyped
    <2>3. disk.op \in Operation /\ disk.cps \in SUBSET SideEffect
      BY DEF TypeOK, StoreTypeOK, Slot
    <2>4. PICK op \in {disk.op, StepDone(r), Done(r)} : WriteDisk(op, Fence(r))
      BY <1>8 DEF CrashInResolve
    <2>5. disk' \in Slot
      <3>1. PICK opLands, cpLands \in WriteLands :
            disk' = [op  |-> IF opLands THEN op ELSE disk.op,
                     cps |-> IF cpLands THEN disk.cps \cup Fence(r) ELSE disk.cps]
        BY <2>4 DEF WriteDisk
      <3> QED
        BY <2>2, <2>3, <3>1 DEF Slot
    <2> QED
      BY <1>8, <2>5, EmptyTyped, NoRunTyped DEF CrashInResolve, TypeOK, StoreTypeOK, ForgetFallback
  <1>9. ASSUME NEW t \in Tabs, sweepAbandoned(t) PROVE TypeOK'
    <2>1. WithStatus(View(t).op, "abandoned") \in Operation
      BY ViewTyped, StatusTyped DEF TypeOK, OperationStatus
    <2> QED
      BY <1>9, <2>1, SaveTyped DEF sweepAbandoned, TypeOK
  <1>10. ASSUME NEW t \in Tabs, pruneExpired(t) PROVE TypeOK'
    <2>1. [mem[t] EXCEPT !.op = AbsentOp] \in Slot
      BY EmptyTyped DEF TypeOK, StoreTypeOK, Slot
    <2> QED
      BY <1>10, <2>1, EmptyTyped DEF pruneExpired, Delete, TypeOK, StoreTypeOK
  <1>11. ASSUME NEW t \in Tabs, abortOperation(t) PROVE TypeOK'
    <2>1. WithStatus(View(t).op, "failed") \in Operation
      BY ViewTyped, StatusTyped DEF TypeOK, OperationStatus
    <2> QED
      BY <1>11, <2>1, SaveTyped DEF abortOperation, TypeOK
  <1>12. CASE TimePasses
    <2>1. PICK age \in {"stale", "expired"} : GrowOld(age)
      BY <1>12 DEF TimePasses
    <2>2. ASSUME NEW s \in Slot PROVE [s EXCEPT !.op = Aged(s.op, age)] \in Slot
      <3>1. Aged(s.op, age) \in Operation
        BY DEF Slot, Aged, Operation, Age
      <3> QED
        BY <3>1 DEF Slot
    <2>3. StoreTypeOK'
      BY <2>1, <2>2 DEF GrowOld, TypeOK, StoreTypeOK
    <2> QED
      BY <1>12, <2>3 DEF TimePasses, TypeOK
  <1>13. CASE StorageChanges
    BY <1>13 DEF StorageChanges, QuotaChanges, TypeOK, StoreTypeOK
  <1>14. CASE UNCHANGED vars
    BY <1>14 DEF vars, TypeOK, StoreTypeOK
  <1> QED
    BY <1>1, <1>2, <1>3, <1>4, <1>6, <1>7, <1>8, <1>9, <1>10, <1>11, <1>12,
       <1>13, <1>14 DEF Next

\* Every variable keeps its type, whatever the tabs, the clock and the storage
\* do.
THEOREM TypeCorrect == Spec => []TypeOK
  BY InitTyped, NextTyped, PTL DEF Spec

------------------------------------------------------------------------------
(* Completed means done *)

\* Writing a sound record and sound checkpoints keeps every slot sound.
LEMMA SaveSound ==
    ASSUME TypeOK, CompletedMeansDone, NEW t \in Tabs, NEW op \in Operation,
           NEW cps \in SUBSET SideEffect,
           OpSound(op), \A i \in cps : Performed(i),
           Save(t, op, cps), effects' = effects
    PROVE  CompletedMeansDone'
  <1>1. \A i : Performed(i) => Performed(i)'
    BY DEF Performed
  <1>2. ASSUME NEW s, SlotSound(s) PROVE SlotSound(s)'
    BY <1>1, <1>2 DEF SlotSound, OpSound, Performed
  <1>3. ASSUME NEW s \in Slot, SlotSound(s),
               NEW s2, s2.op = s.op \/ s2.op = op, s2.cps = s.cps \/ s2.cps = s.cps \cup cps
        PROVE  SlotSound(s2)
    BY <1>3 DEF SlotSound, OpSound
  <1>4. CASE quota = "denied"
    <2>1. /\ mem' = [mem EXCEPT ![t] = [op |-> op, cps |-> mem[t].cps \cup cps]]
          /\ disk' = disk
      BY <1>4 DEF Save
    <2>2. mem \in [Tabs -> Slot] /\ SlotSound(mem[t])
      BY DEF TypeOK, StoreTypeOK, CompletedMeansDone
    <2> DEFINE s2 == [op |-> op, cps |-> mem[t].cps \cup cps]
    <2>3. SlotSound(s2)
      BY <1>3, <2>2
    <2>4. \A u \in Tabs : SlotSound(mem[u])'
      BY <1>2, <2>1, <2>2, <2>3 DEF CompletedMeansDone
    <2>5. SlotSound(disk)'
      BY <1>2, <2>1 DEF CompletedMeansDone
    <2> QED
      BY <2>4, <2>5 DEF CompletedMeansDone
  <1>5. CASE quota # "denied"
    <2>1. PICK opLands, cpLands \in WriteLands :
            disk' = [op  |-> IF opLands THEN op ELSE disk.op,
                     cps |-> IF cpLands THEN disk.cps \cup cps ELSE disk.cps]
      BY <1>5 DEF Save, WriteDisk
    <2>2. mem' = mem
      BY <1>5 DEF Save
    <2>3. disk \in Slot /\ SlotSound(disk)
      BY DEF TypeOK, StoreTypeOK, CompletedMeansDone
    <2>4. /\ disk'.op = disk.op \/ disk'.op = op
          /\ disk'.cps = disk.cps \/ disk'.cps = disk.cps \cup cps
      BY <2>1
    <2> DEFINE s2 == disk'
    <2> HIDE DEF s2
    <2>5. SlotSound(s2)
      BY <1>3, <2>3, <2>4 DEF s2
    <2>6. SlotSound(disk)'
      BY <1>2, <2>5 DEF s2
    <2>7. \A u \in Tabs : SlotSound(mem[u])'
      BY <1>2, <2>2 DEF CompletedMeansDone
    <2> QED
      BY <2>6, <2>7 DEF CompletedMeansDone
  <1> QED
    BY <1>4, <1>5

\* A run stays sound when no step loses its effect.
LEMMA RunStaysSound ==
    ASSUME NEW r, RunSound(r), \A i : Performed(i) => Performed(i)'
    PROVE  RunSound(r)'
  BY DEF RunSound, OpSound

\* The end of a run leaves nothing to be sound.
LEMMA NoRunSound == RunSound(NoRun)' /\ ~NoRun.live
  BY DEF RunSound, NoRun

\* The loop of execute() claims only what was done, by it or by the snapshot.
LEMMA ProceedSound ==
    ASSUME TypeOK, SoundInv, NEW t \in Tabs, NEW op \in Operation, NEW snap \in SUBSET SideEffect,
           NEW outs, NEW from \in 1..(NumSteps + 1), NEW cps \in SUBSET SideEffect,
           OpSound(op), op.status = "in_progress",
           \A i \in snap : Performed(i), \A i \in cps : Performed(i),
           \A i \in 1..(from - 1) : Performed(i),
           Proceed(t, op, snap, outs, from, cps), effects' = effects
    PROVE  SoundInv'
  <1>1. \A i : Performed(i) => Performed(i)'
    BY DEF Performed
  <1>2. \A u \in Tabs : run'[u] = run[u] => RunSound(run[u])'
    BY <1>1, RunStaysSound DEF SoundInv
  <1>3. run \in [Tabs -> Run]
    BY DEF TypeOK
  <1>4. \A i \in 1..NumSteps : Skipped(op, snap, i) => Performed(i)
    BY DEF Skipped, OpSound, Step
  <1>5. CASE /\ \A k \in from..NumSteps : Skipped(op, snap, k)
             /\ Save(t, WithStatus(op, "completed"), cps)
             /\ run' = [run EXCEPT ![t] = NoRun]
    <2> DEFINE final == WithStatus(op, "completed")
    <2>1. final \in Operation
      BY StatusTyped DEF OperationStatus
    <2>2. ASSUME NEW i \in Step PROVE Performed(i)
      <3>1. CASE i < from
        <4>1. i \in 1..(from - 1)
          BY <3>1 DEF Step
        <4> QED
          BY <4>1
      <3>2. CASE ~(i < from)
        <4>1. i \in from..NumSteps /\ i \in 1..NumSteps
          BY <3>2 DEF Step
        <4> QED
          BY <1>4, <1>5, <4>1
      <3> QED
        BY <3>1, <3>2
    <2>3. OpSound(final)
      BY <2>2 DEF OpSound
    <2>4. CompletedMeansDone'
      BY <1>5, <2>1, <2>3, SaveSound DEF SoundInv
    <2>5. \A u \in Tabs : RunSound(run[u])'
      BY <1>2, <1>3, <1>5, NoRunSound
    <2> QED
      BY <2>4, <2>5 DEF SoundInv
  <1>6. ASSUME NEW i \in from..NumSteps,
               \A k \in from..(i - 1) : Skipped(op, snap, k),
               Save(t, [op EXCEPT !.step[i] = "in_progress"], cps),
               run' = [run EXCEPT ![t] =
                  [live |-> TRUE, op |-> [op EXCEPT !.step[i] = "in_progress"], at |-> i,
                   snap |-> snap, outs |-> outs, acted |-> FALSE]]
        PROVE  SoundInv'
    <2> DEFINE started == [op EXCEPT !.step[i] = "in_progress"]
               r2 == [live |-> TRUE, op |-> started, at |-> i, snap |-> snap,
                      outs |-> outs, acted |-> FALSE]
    <2>1. i \in Step
      BY DEF Step
    <2>2. started \in Operation /\ started.status = "in_progress"
      BY <2>1 DEF Operation, StepStatus
    <2>3. OpSound(started)
      <3>1. \A j \in Step : started.step[j] = "completed" => op.step[j] = "completed"
        BY <2>1 DEF Operation
      <3> QED
        BY <2>2, <3>1 DEF OpSound
    <2>4. CompletedMeansDone'
      BY <1>6, <2>2, <2>3, SaveSound DEF SoundInv
    <2>5. ASSUME NEW k \in 1..(i - 1) PROVE Performed(k)
      <3>1. CASE k < from
        <4>1. k \in 1..(from - 1)
          BY <3>1
        <4> QED
          BY <4>1
      <3>2. CASE ~(k < from)
        <4>1. k \in from..(i - 1) /\ k \in 1..NumSteps
          BY <3>2
        <4> QED
          BY <1>4, <1>6, <4>1
      <3> QED
        BY <3>1, <3>2
    <2>6. RunSound(r2)
      BY <2>2, <2>3, <2>5 DEF RunSound
    <2> HIDE DEF r2
    <2>7. RunSound(r2)'
      BY <1>1, <2>6, RunStaysSound
    <2>8. run' = [run EXCEPT ![t] = r2]
      BY <1>6 DEF r2
    <2>9. \A u \in Tabs : RunSound(run[u])'
      BY <1>2, <1>3, <2>7, <2>8
    <2> QED
      BY <2>4, <2>9 DEF SoundInv
  <1> QED
    BY <1>5, <1>6 DEF Proceed

\* An action that only replaces records: the runs stay as they are.
LEMMA RestSound ==
    ASSUME TypeOK, SoundInv, CompletedMeansDone', effects' = effects,
           \A t \in Tabs : run'[t] \in {run[t], NoRun}
    PROVE  SoundInv'
  <1>1. \A i : Performed(i) => Performed(i)'
    BY DEF Performed
  <1>2. \A t \in Tabs : RunSound(run[t])'
    BY <1>1, RunStaysSound, NoRunSound DEF SoundInv
  <1> QED
    BY <1>2 DEF SoundInv

\* Nothing is claimed at first.
LEMMA InitSound == Init => SoundInv
  <1> SUFFICES ASSUME Init PROVE SoundInv
    OBVIOUS
  <1>1. SlotSound(EmptySlot)
    BY DEF SlotSound, OpSound, EmptySlot, AbsentOp
  <1>2. CompletedMeansDone
    BY <1>1 DEF Init, StoreInit, CompletedMeansDone
  <1>3. \A t \in Tabs : RunSound(run[t])
    BY DEF Init, RunSound, NoRun
  <1> QED
    BY <1>2, <1>3 DEF SoundInv

\* Every step keeps what is claimed sound.
LEMMA NextSound ==
    ASSUME TypeOK, SoundInv, [Next]_vars
    PROVE  SoundInv'
  <1>1. /\ run \in [Tabs -> Run] /\ mem \in [Tabs -> Slot] /\ disk \in Slot
        /\ effects \in [Step -> Nat]
    BY DEF TypeOK, StoreTypeOK
  <1>2. CompletedMeansDone /\ \A t \in Tabs : RunSound(run[t])
    BY DEF SoundInv
  <1>3. ASSUME NEW s, SlotSound(s), effects' = effects PROVE SlotSound(s)'
    BY <1>3 DEF SlotSound, OpSound, Performed
  <1>4. SlotSound(EmptySlot)
    BY DEF SlotSound, OpSound, EmptySlot, AbsentOp
  <1>5. ASSUME NEW t \in Tabs
        PROVE  View(t) \in Slot /\ View(t).op \in Operation /\ SlotSound(View(t))
    BY <1>1, <1>2, <1>5 DEF View, CompletedMeansDone, Slot
  \* A save of a record read from the store, under another status.
  <1>6. ASSUME NEW t \in Tabs, NEW op \in Operation, OpSound(op),
               NEW status \in OperationStatus \ {"completed"},
               Save(t, WithStatus(op, status), {}), effects' = effects,
               \A u \in Tabs : run'[u] \in {run[u], NoRun}
        PROVE  SoundInv'
    <2>1. WithStatus(op, status) \in Operation
      BY <1>6, StatusTyped
    <2>2. OpSound(WithStatus(op, status))
      BY <1>6 DEF OpSound, WithStatus, Operation
    <2>3. CompletedMeansDone'
      BY <1>2, <1>6, <2>1, <2>2, SaveSound
    <2> QED
      BY <1>6, <2>3, RestSound
  <1>7. ASSUME NEW t \in Tabs, create(t) PROVE SoundInv'
    <2>1. AbsentOp \in Operation /\ OpSound(AbsentOp)
      BY EmptyTyped DEF OpSound, AbsentOp
    <2> QED
      BY <1>6, <1>7, <2>1 DEF create, OperationStatus
  <1>8. ASSUME NEW t \in Tabs, Start(t) PROVE SoundInv'
    <2> DEFINE op == WithStatus(View(t).op, "in_progress")
    <2>1. op \in Operation /\ op.status = "in_progress"
      BY <1>5, StatusTyped, StatusFields DEF OperationStatus
    <2>2. OpSound(op)
      BY <1>5, StatusFields DEF SlotSound, OpSound
    <2>3. View(t).cps \in SUBSET SideEffect /\ \A i \in View(t).cps : Performed(i)
      BY <1>5 DEF SlotSound, Slot
    <2>4. 1 \in 1..(NumSteps + 1) /\ 1..(1 - 1) = {}
      OBVIOUS
    <2>5. Proceed(t, op, View(t).cps, View(t).cps, 1, {}) /\ effects' = effects
      BY <1>8 DEF Start
    <2> HIDE DEF op
    <2> QED
      BY <2>1, <2>2, <2>3, <2>4, <2>5, ProceedSound
  <1>9. ASSUME NEW t \in Tabs, Effect(t) PROVE SoundInv'
    <2>1. /\ run' = [run EXCEPT ![t].acted = TRUE]
          /\ effects' = [effects EXCEPT ![run[t].at] = effects[run[t].at] + 1]
          /\ disk' = disk /\ mem' = mem
      BY <1>9 DEF Effect
    <2>2. run[t].at \in Step
      BY <1>1 DEF Run
    <2>3. \A i \in Step : effects'[i] \in Nat /\ effects'[i] >= effects[i]
      BY <1>1, <2>1, <2>2
    <2>4. /\ \A i \in Step : Performed(i) => Performed(i)'
          /\ Performed(run[t].at)'
      BY <1>1, <2>1, <2>2, <2>3 DEF Performed
    <2>5. ASSUME NEW s \in Slot, SlotSound(s) PROVE SlotSound(s)'
      <3>1. s.cps \subseteq Step
        BY StepsAssumption DEF Slot, Step
      <3> QED
        BY <2>4, <2>5, <3>1 DEF SlotSound, OpSound
    <2>6. CompletedMeansDone'
      BY <1>1, <1>2, <2>1, <2>5 DEF CompletedMeansDone
    <2>7. ASSUME NEW u \in Tabs PROVE RunSound(run[u])'
      <3>1. /\ run'[u].live = run[u].live /\ run'[u].op = run[u].op
            /\ run'[u].snap = run[u].snap /\ run'[u].at = run[u].at
            /\ run'[u].acted => run[u].acted \/ u = t
        BY <1>1, <2>1 DEF Run
      <3>2. run[u].at \in Step /\ run[u].snap \subseteq SideEffect
        BY <1>1 DEF Run
      <3>3. run[u].snap \subseteq Step /\ \A i \in 1..(run[u].at - 1) : i \in Step
        <4>1. run[u].snap \subseteq Step
          BY <3>2 DEF Step
        <4>2. ASSUME NEW k \in Step, NEW i \in 1..(k - 1) PROVE i \in Step
          BY DEF Step
        <4> QED
          BY <3>2, <4>1, <4>2
      <3>4. RunSound(run[u])
        BY <1>2
      <3>5. CASE run[u].live
        <4>1. /\ OpSound(run[u].op)' /\ run'[u].op.status = "in_progress"
          <5>1. OpSound(run[u].op)
            BY <3>4, <3>5 DEF RunSound
          <5> QED
            BY <2>4, <3>1, <3>4, <3>5, <5>1 DEF RunSound, OpSound
        <4>2. \A i \in run'[u].snap \cup 1..(run'[u].at - 1) : Performed(i)'
          BY <2>4, <3>1, <3>3, <3>4, <3>5 DEF RunSound
        <4>3. run'[u].acted => Performed(run[u].at)'
          <5>1. run[u].acted => Performed(run[u].at)
            BY <3>4, <3>5 DEF RunSound
          <5> QED
            BY <2>4, <3>1, <3>2, <5>1 DEF Performed
        <4> QED
          BY <4>1, <4>2, <4>3 DEF RunSound
      <3>6. CASE ~run[u].live
        BY <3>1, <3>6 DEF RunSound
      <3> QED
        BY <3>5, <3>6
    <2> QED
      BY <2>6, <2>7 DEF SoundInv
  <1>10. ASSUME NEW t \in Tabs, run[t].live, run[t].acted
         PROVE  /\ Done(run[t]) \in Operation /\ OpSound(Done(run[t]))
                /\ Done(run[t]).status = "in_progress"
                /\ OpSound(StepDone(run[t]))
                /\ Fence(run[t]) \in SUBSET SideEffect
                /\ \A i \in Fence(run[t]) : Performed(i)
    <2> DEFINE r == run[t]
    <2>1. r \in Run /\ r.at \in Step /\ r.op \in Operation /\ RunSound(r)
      BY <1>1, <1>2 DEF Run
    <2>2. /\ Done(r).status = r.op.status
          /\ \A i \in Step : Done(r).step[i] = "completed" => r.op.step[i] = "completed" \/ i = r.at
          /\ StepDone(r).step = Done(r).step /\ StepDone(r).status = r.op.status
      BY <2>1 DEF Done, StepDone, Operation
    <2> QED
      BY <1>10, <2>1, <2>2, DoneTyped DEF RunSound, OpSound, Fence
  <1>11. ASSUME NEW t \in Tabs, Resolve(t) PROVE SoundInv'
    <2> DEFINE r == run[t]
    <2>1. r.live /\ r.acted /\ r \in Run /\ r.at \in Step /\ RunSound(r)
      BY <1>1, <1>2, <1>11 DEF Resolve, Run
    <2>2. /\ r.snap \in SUBSET SideEffect
          /\ r.at + 1 \in 1..(NumSteps + 1)
      BY <2>1 DEF Run, Step
    <2>3. /\ \A i \in r.snap : Performed(i)
          /\ \A i \in 1..((r.at + 1) - 1) : Performed(i)
      <3>1. \A i \in 1..((r.at + 1) - 1) : i = r.at \/ i \in 1..(r.at - 1)
        BY <2>1 DEF Step
      <3> QED
        BY <2>1, <3>1 DEF RunSound
    <2>4. Proceed(t, Done(r), r.snap, r.outs \cup {r.at}, r.at + 1, Fence(r))
          /\ effects' = effects
      BY <1>11 DEF Resolve, histVars
    <2>5. /\ Done(r) \in Operation /\ OpSound(Done(r)) /\ Done(r).status = "in_progress"
          /\ Fence(r) \in SUBSET SideEffect /\ \A i \in Fence(r) : Performed(i)
      BY <1>10, <2>1
    <2> DEFINE from == r.at + 1
               op == Done(r)
               cps == Fence(r)
               snap == r.snap
               outs == r.outs \cup {r.at}
    <2>6. /\ op \in Operation /\ OpSound(op) /\ op.status = "in_progress"
          /\ cps \in SUBSET SideEffect /\ \A i \in cps : Performed(i)
          /\ snap \in SUBSET SideEffect /\ \A i \in snap : Performed(i)
          /\ from \in 1..(NumSteps + 1) /\ \A i \in 1..(from - 1) : Performed(i)
          /\ Proceed(t, op, snap, outs, from, cps) /\ effects' = effects
      BY <2>2, <2>3, <2>4, <2>5
    <2> HIDE DEF from, op, cps, snap, outs
    <2> QED
      BY <2>6, ProceedSound
  <1>12. ASSUME NEW t \in Tabs, Reject(t) PROVE SoundInv'
    <2> DEFINE r == run[t]
               failed == [r.op EXCEPT !.step[r.at] = "failed"]
    <2>1. r.live /\ r \in Run /\ r.at \in Step /\ r.op \in Operation /\ RunSound(r)
      BY <1>1, <1>2, <1>12 DEF Reject, Run
    <2>2. failed \in Operation
      BY <2>1 DEF Operation, StepStatus
    <2>3. OpSound(failed)
      <3>1. /\ failed.status = r.op.status
            /\ \A i \in Step : failed.step[i] = "completed" => r.op.step[i] = "completed"
        BY <2>1 DEF Operation
      <3> QED
        BY <2>1, <3>1 DEF OpSound, RunSound
    <2>4. /\ Save(t, WithStatus(failed, "paused"), {})
          /\ run' = [run EXCEPT ![t] = NoRun] /\ effects' = effects
      BY <1>12 DEF Reject
    <2>5. \A u \in Tabs : run'[u] \in {run[u], NoRun}
      BY <1>1, <2>4
    <2> HIDE DEF failed
    <2> QED
      BY <1>6, <2>2, <2>3, <2>4, <2>5 DEF OperationStatus
  <1>13. ASSUME NEW t \in Tabs, Crash(t) PROVE SoundInv'
    <2>1. /\ run' = [run EXCEPT ![t] = NoRun] /\ effects' = effects
          /\ mem' = [mem EXCEPT ![t] = EmptySlot] /\ disk' = disk
      BY <1>13 DEF Crash, ForgetFallback
    <2>2. CompletedMeansDone'
      BY <1>1, <1>2, <1>3, <1>4, <2>1 DEF CompletedMeansDone
    <2> QED
      BY <1>1, <2>1, <2>2, RestSound
  <1>14. ASSUME NEW t \in Tabs, CrashInResolve(t) PROVE SoundInv'
    <2> DEFINE r == run[t]
    <2>1. /\ r.live /\ r.acted
          /\ run' = [run EXCEPT ![t] = NoRun] /\ effects' = effects
          /\ mem' = [mem EXCEPT ![t] = EmptySlot]
      BY <1>14 DEF CrashInResolve, ForgetFallback
    <2>2. PICK op \in {disk.op, StepDone(r), Done(r)} : WriteDisk(op, Fence(r))
      BY <1>14 DEF CrashInResolve
    <2>3. PICK opLands, cpLands \in WriteLands :
            disk' = [op  |-> IF opLands THEN op ELSE disk.op,
                     cps |-> IF cpLands THEN disk.cps \cup Fence(r) ELSE disk.cps]
      BY <2>2 DEF WriteDisk
    <2>4. OpSound(op) /\ OpSound(disk.op) /\ \A i \in disk.cps \cup Fence(r) : Performed(i)
      BY <1>2, <1>10, <2>1, <2>2 DEF CompletedMeansDone, SlotSound
    <2> DEFINE s == disk'
    <2>5. s.op \in {op, disk.op} /\ s.cps \subseteq disk.cps \cup Fence(r)
      BY <2>3
    <2> HIDE DEF s
    <2>6. SlotSound(s)
      BY <2>4, <2>5 DEF SlotSound
    <2>7. SlotSound(disk)'
      BY <1>3, <2>1, <2>6 DEF s
    <2>8. \A u \in Tabs : SlotSound(mem[u])'
      BY <1>1, <1>2, <1>3, <1>4, <2>1 DEF CompletedMeansDone
    <2>9. CompletedMeansDone'
      BY <2>7, <2>8 DEF CompletedMeansDone
    <2> QED
      BY <1>1, <2>1, <2>9, RestSound
  <1>15. ASSUME NEW t \in Tabs, sweepAbandoned(t) PROVE SoundInv'
    BY <1>5, <1>6, <1>15 DEF sweepAbandoned, SlotSound, OperationStatus
  <1>16. ASSUME NEW t \in Tabs, pruneExpired(t) PROVE SoundInv'
    <2>1. SlotSound([mem[t] EXCEPT !.op = AbsentOp])
      BY <1>1, <1>2, <1>4 DEF CompletedMeansDone, SlotSound, Slot, EmptySlot
    <2>2. effects' = effects /\ run' = run
      BY <1>16 DEF pruneExpired
    <2>3. CompletedMeansDone'
      BY <1>1, <1>2, <1>3, <1>4, <1>16, <2>1, <2>2 DEF pruneExpired, Delete, CompletedMeansDone
    <2> QED
      BY <2>2, <2>3, RestSound
  <1>17. ASSUME NEW t \in Tabs, abortOperation(t) PROVE SoundInv'
    BY <1>5, <1>6, <1>17 DEF abortOperation, SlotSound, OperationStatus
  <1>18. CASE TimePasses
    <2>1. PICK age \in {"stale", "expired"} : GrowOld(age)
      BY <1>18 DEF TimePasses
    <2>2. effects' = effects /\ run' = run
      BY <1>18 DEF TimePasses
    <2>3. ASSUME NEW s \in Slot, SlotSound(s)
          PROVE  SlotSound([s EXCEPT !.op = Aged(s.op, age)])'
      <3>1. /\ Aged(s.op, age).step = s.op.step /\ Aged(s.op, age).status = s.op.status
        BY DEF Slot, Aged, Operation
      <3>2. SlotSound([s EXCEPT !.op = Aged(s.op, age)])
        BY <2>3, <3>1 DEF SlotSound, OpSound, Slot
      <3> QED
        BY <1>3, <2>2, <3>2
    <2>4. CompletedMeansDone'
      BY <1>1, <1>2, <2>1, <2>3 DEF GrowOld, CompletedMeansDone
    <2> QED
      BY <2>2, <2>4, RestSound
  <1>19. CASE StorageChanges
    <2>1. effects' = effects /\ run' = run /\ disk' = disk /\ mem' = mem
      BY <1>19 DEF StorageChanges, QuotaChanges
    <2>2. CompletedMeansDone'
      BY <1>2, <1>3, <2>1 DEF CompletedMeansDone
    <2> QED
      BY <2>1, <2>2, RestSound
  <1>20. CASE UNCHANGED vars
    <2>1. effects' = effects /\ run' = run /\ disk' = disk /\ mem' = mem
      BY <1>20 DEF vars
    <2>2. CompletedMeansDone'
      BY <1>2, <1>3, <2>1 DEF CompletedMeansDone
    <2> QED
      BY <2>1, <2>2, RestSound
  <1> QED
    BY <1>7, <1>8, <1>9, <1>11, <1>12, <1>13, <1>14, <1>15, <1>16, <1>17, <1>18,
       <1>19, <1>20 DEF Next

\* No checkpoint, completed step or completed operation is ever recorded for
\* work the executor has not done, under any interleaving of tabs, crashes,
\* lost writes and sweeps of live runs.
THEOREM CompletedIsDone == Spec => []CompletedMeansDone
  <1>1. SoundInv => CompletedMeansDone
    BY DEF SoundInv
  <1> QED
    BY <1>1, TypeCorrect, InitSound, NextSound, PTL DEF Spec
==============================================================================
