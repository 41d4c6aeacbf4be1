------------------------------ MODULE Backfill ------------------------------
(***************************************************************************)
(* scripts/backfill.ts with scripts/backfill/checkpoint.ts: runs of the tool, *)
(* one after another, over the records of an adapter and a checkpoint file.  *)
(* A run may be killed at any await; the file is written through a rename    *)
(* and holds a whole checkpoint or the one before.                           *)
(***************************************************************************)
EXTENDS Integers, Sequences, FiniteSets, FiniteSetsExt

CONSTANTS
    IdOf,       \* the ids of the adapter's records, in order; an id may come twice
    Limits,     \* values of --limit
    MaxRuns     \* bound on the runs of the tool

ASSUME BackfillAssumption ==
    /\ Len(IdOf) \in Nat /\ DOMAIN IdOf = 1..Len(IdOf)
    /\ Limits \subseteq Nat /\ Limits # {}
    /\ MaxRuns \in Nat

Ids == {IdOf[i] : i \in DOMAIN IdOf}
Status == {"none", "success", "skipped", "failed"}
Checkpoint == [cursor : 0..Len(IdOf), records : [Ids -> Status]]
EmptyCheckpoint == [cursor |-> 0, records |-> [id \in Ids |-> "none"]]

VARIABLES
    previews,   \* fixed for a behaviour: some runs are dry runs
    file,       \* the checkpoint file; a missing one reads as the empty checkpoint
    memory,     \* the checkpoint of the run
    run,        \* what the run does, and its options
    (* history *)
    runs,       \* runs so far
    applied,    \* [Ids -> times the record was changed]
    unsure      \* [Ids -> times it was changed and no checkpoint says so]

backfillVars == <<previews, file, memory, run, runs, applied, unsure>>

Run == [at : {"idle", "next", "apply", "write"}, dry : BOOLEAN, resume : BOOLEAN, limit : Limits]

BackfillTypeOK ==
    /\ previews \in BOOLEAN
    /\ file \in Checkpoint /\ memory \in Checkpoint
    /\ run \in Run
    /\ runs \in 0..MaxRuns
    /\ applied \in [Ids -> Nat] /\ unsure \in [Ids -> Nat]

BackfillInit ==
    /\ previews \in BOOLEAN
    /\ file = EmptyCheckpoint /\ memory = EmptyCheckpoint
    /\ run = [at |-> "idle", dry |-> FALSE, resume |-> TRUE, limit |-> CHOOSE l \in Limits : TRUE]
    /\ runs = 0
    /\ applied = [id \in Ids |-> 0] /\ unsure = [id \in Ids |-> 0]

------------------------------------------------------------------------------

\* Without --resume the checkpoint is ignored and replaced: whatever was changed
\* before is no longer on record.
StartRun(dry, resume, limit) ==
    /\ run.at = "idle" /\ runs < MaxRuns
    /\ dry => previews
    /\ memory' = IF resume THEN file ELSE EmptyCheckpoint
    /\ run' = [at |-> "next", dry |-> dry, resume |-> resume, limit |-> limit]
    /\ runs' = runs + 1
    /\ unsure' = IF resume THEN unsure ELSE applied
    /\ UNCHANGED <<previews, file, applied>>

\* The slice ends at the limit, counted from the first record.
End == Min({run.limit, Len(IdOf)})
More == run.at = "next" /\ memory.cursor < End
Record == IdOf[memory.cursor + 1]
IsDone(id) == memory.records[id] = "success"

Moves == memory' = [memory EXCEPT !.cursor = memory.cursor + 1]
Marks(status) ==
    memory' = [cursor |-> memory.cursor + 1,
               records |-> [memory.records EXCEPT ![Record] = status]]

AlreadyApplied ==
    /\ More /\ IsDone(Record)
    /\ Moves
    /\ UNCHANGED <<previews, file, run, runs, applied, unsure>>

\* The plan is to skip; or to fail, or plan throws.  No checkpoint is written.
PlansNone(status) ==
    /\ More /\ ~IsDone(Record)
    /\ Marks(status)
    /\ UNCHANGED <<previews, file, run, runs, applied, unsure>>

PreviewUpdate ==
    /\ More /\ ~IsDone(Record) /\ run.dry
    /\ Moves
    /\ UNCHANGED <<previews, file, run, runs, applied, unsure>>

PlansUpdate ==
    /\ More /\ ~IsDone(Record) /\ ~run.dry
    /\ run' = [run EXCEPT !.at = "apply"]
    /\ UNCHANGED <<previews, file, memory, runs, applied, unsure>>

Alters(id) == applied' = [applied EXCEPT ![id] = @ + 1]
Forgets(id) == unsure' = [unsure EXCEPT ![id] = @ + 1]

MarksFirst ==               \* mutant: the checkpoint is written before the record is changed
    /\ run.at = "apply"
    /\ Marks("success")
    /\ run' = [run EXCEPT !.at = "write"]
    /\ UNCHANGED <<previews, file, runs, applied, unsure>>

Apply ==
    /\ run.at = "apply"
    /\ Alters(Record)
    /\ Marks("success")
    /\ run' = [run EXCEPT !.at = "write"]
    /\ UNCHANGED <<previews, file, runs, unsure>>

\* apply throws, before or after it changed the record.
ApplyThrows ==
    /\ run.at = "apply"
    /\ \/ UNCHANGED <<applied, unsure>>
       \/ Alters(Record) /\ Forgets(Record)
    /\ Marks("failed")
    /\ run' = [run EXCEPT !.at = "write"]
    /\ UNCHANGED <<previews, file, runs>>

WriteCheckpoint ==
    /\ run.at = "write"
    /\ file' = memory
    /\ run' = [run EXCEPT !.at = "next"]
    /\ UNCHANGED <<previews, memory, runs, applied, unsure>>

\* The last write is made in a dry run too.
Finish ==
    /\ run.at = "next" /\ memory.cursor >= End
    /\ file' = memory
    /\ run' = [run EXCEPT !.at = "idle"]
    /\ UNCHANGED <<previews, memory, runs, applied, unsure>>

\* The process dies: before apply has an effect, after it, or before a write.
Kill ==
    /\ run.at # "idle"
    /\ run' = [run EXCEPT !.at = "idle"]
    /\ CASE run.at = "next" -> UNCHANGED <<applied, unsure>>
         [] run.at = "apply" ->
              \/ UNCHANGED <<applied, unsure>>
              \/ Alters(Record) /\ Forgets(Record)
         [] run.at = "write" ->
              LET id == IdOf[memory.cursor]
              IN /\ UNCHANGED applied
                 /\ IF IsDone(id) THEN Forgets(id) ELSE UNCHANGED unsure
    /\ UNCHANGED <<previews, file, memory, runs>>

BackfillNext ==
    \/ \E dry, resume \in BOOLEAN, limit \in Limits : StartRun(dry, resume, limit)
    \/ AlreadyApplied \/ PlansNone("skipped") \/ PlansNone("failed")
    \/ PreviewUpdate \/ PlansUpdate \/ Apply \/ ApplyThrows
    \/ WriteCheckpoint \/ Finish \/ Kill

BackfillSpec == BackfillInit /\ [][BackfillNext]_backfillVars

------------------------------------------------------------------------------
(* Properties                                                                *)

\* "the cursor and records are persisted after each record, so a CTRL-C resumes
\* correctly" (docs/operations/backfill-tool.md:80), as far as it holds: the file
\* counts a record as a success only if it was changed, and, while no dry run has
\* moved the cursor, everything before the cursor has been dealt with; and a record
\* is changed again only after a change that no checkpoint tells of: one whose apply
\* failed, whose run died before the write, or that was made before a run without
\* --resume.
ResumesCorrectly ==
    /\ \A id \in Ids : applied[id] <= 1 + unsure[id]
    /\ \A id \in Ids : file.records[id] = "success" => applied[id] > 0
    /\ ~previews => \A i \in 1..file.cursor : file.records[IdOf[i]] # "none"

==============================================================================
