--------------------------- MODULE CheckpointStore ---------------------------
(***************************************************************************)
(* The checkpoint store of lib/recovery/checkpoint-store.ts, as one         *)
(* operation sees it: LocalStorageCheckpointStore over the origin's         *)
(* localStorage, which every tab shares, with the MemoryCheckpointStore     *)
(* each tab falls back to while the storage is denied.                      *)
(*                                                                          *)
(* A slot holds what the two key families hold for the operation: its own   *)
(* record and the set of steps that have a checkpoint.  The age of a record *)
(* stands for now - updatedAt, cut at the two limits the manager compares   *)
(* it with (abandonAfterMs, retentionMs).                                   *)
(***************************************************************************)
EXTENDS Integers

CONSTANTS
    Tabs,           \* browser tabs, one execute() call at a time in each
    NumSteps,       \* number of steps of the operation
    SideEffect,     \* the steps declared with sideEffect: true
    StorageFaults   \* TRUE: the browser may fill or deny localStorage

ASSUME StepsAssumption == NumSteps \in Nat \ {0} /\ SideEffect \subseteq 1..NumSteps
ASSUME FaultsAssumption == StorageFaults \in BOOLEAN

VARIABLES
    disk,   \* localStorage, shared by the tabs
    mem,    \* [Tabs -> Slot]: the in-memory fallback of each tab
    quota   \* what localStorage does with a write: "ok", "full" or "denied"

storeVars == <<disk, mem, quota>>

Step == 1..NumSteps

OperationStatus ==
    {"pending", "in_progress", "paused", "completed", "failed", "abandoned"}
StepStatus == {"pending", "in_progress", "completed", "failed"}
Age == {"fresh", "stale", "expired"}

\* status "absent": no record under the operation's key
Operation == [status : OperationStatus \cup {"absent"},
              step   : [Step -> StepStatus],
              cur    : 0..NumSteps,
              age    : Age]
Slot == [op : Operation, cps : SUBSET SideEffect]

AbsentOp == [status |-> "absent", step |-> [i \in Step |-> "pending"],
             cur |-> 0, age |-> "fresh"]
EmptySlot == [op |-> AbsentOp, cps |-> {}]

StoreTypeOK ==
    /\ disk \in Slot
    /\ mem \in [Tabs -> Slot]
    /\ quota \in {"ok", "full", "denied"}

StoreInit ==
    /\ disk = EmptySlot
    /\ mem = [t \in Tabs |-> EmptySlot]
    /\ quota = "ok"

------------------------------------------------------------------------------
\* getOperation, listOperations, listCheckpoints: what tab t reads.
View(t) == IF quota = "denied" THEN mem[t] ELSE disk

\* A full storage still passes the one-character write test of the storage
\* getter, so the write goes to localStorage, where writeJson swallows the
\* QuotaExceededError: each key is replaced or silently keeps its old value.
WriteLands == IF quota = "full" THEN BOOLEAN ELSE {TRUE}

WriteDisk(op, cps) ==
    \E opLands, cpLands \in WriteLands :
        disk' = [op  |-> IF opLands THEN op ELSE disk.op,
                 cps |-> IF cpLands THEN disk.cps \cup cps ELSE disk.cps]

\* saveOperation(op) together with saveCheckpoint for each step of cps.
Save(t, op, cps) ==
    /\ \/ /\ quota = "denied"
          /\ mem' = [mem EXCEPT ![t] = [op |-> op, cps |-> @.cps \cup cps]]
          /\ UNCHANGED disk
       \/ /\ quota # "denied"
          /\ WriteDisk(op, cps)
          /\ UNCHANGED mem
    /\ UNCHANGED quota

\* deleteOperation: localStorage drops the checkpoints too, the in-memory
\* store only the record.
Delete(t) ==
    /\ \/ /\ quota = "denied"
          /\ mem' = [mem EXCEPT ![t].op = AbsentOp]
          /\ UNCHANGED disk
       \/ /\ quota # "denied"
          /\ disk' = EmptySlot
          /\ UNCHANGED mem
    /\ UNCHANGED quota

\* The page of tab t goes away, and its fallback store with it.
ForgetFallback(t) == mem' = [mem EXCEPT ![t] = EmptySlot]

\* The browser starts or stops refusing writes, wholly or for large values.
QuotaChanges ==
    /\ StorageFaults
    /\ \E q \in {"ok", "full", "denied"} : quota' = q
    /\ UNCHANGED <<disk, mem>>

\* Long enough passes for every record to be at least as old as age.
Aged(op, age) ==
    IF op.status = "absent" \/ op.age = "expired" THEN op ELSE [op EXCEPT !.age = age]

GrowOld(age) ==
    /\ disk' = [disk EXCEPT !.op = Aged(@, age)]
    /\ mem' = [t \in Tabs |-> [mem[t] EXCEPT !.op = Aged(@, age)]]
    /\ UNCHANGED quota

==============================================================================
