---------------------------- MODULE ClientProofs -----------------------------
(***************************************************************************)
(* Backfill, ProtocolGuard and Invitations: a resumed backfill, the gate and*)
(* its audit log, and the finality of decisions, for any records, scopes,  *)
(* inviters and bounds; and the client's parts side by side, with what      *)
(* StakingProofs and ConflictResolverProofs show of the others.            *)
(***************************************************************************)
EXTENDS MCClient, StakingProofs, ConflictResolverProofs

------------------------------------------------------------------------------
(* Backfill                                                                  *)

\* What a checkpoint c claims is so; a record it does not count as a success was changed
\* only as often as no checkpoint tells of.
TellsTrue(c) ==
    /\ \A id \in Ids : c.records[id] = "success" => applied[id] > 0
    /\ ~previews => \A i \in 1..c.cursor : c.records[IdOf[i]] # "none"
Counts(id, c) == c.records[id] = "success" \/ applied[id] <= unsure[id]

\* The record whose success is not written yet.
Unwritten(id) == run.at = "write" /\ id = IdOf[memory.cursor] /\ IsDone(id)

BackfillInv ==
    /\ BackfillTypeOK
    /\ \A id \in Ids : applied[id] <= 1 + unsure[id]
    /\ TellsTrue(file)
    /\ \A id \in Ids : Counts(id, file) \/ Unwritten(id)
    /\ run.at # "idle" =>
        /\ TellsTrue(memory)
        /\ \A id \in Ids : Counts(id, memory)
        /\ run.dry => previews
    /\ run.at = "apply" => memory.cursor < Len(IdOf) /\ ~IsDone(Record)
    /\ run.at = "write" => memory.cursor > 0

\* The slice lies within the records.
LEMMA MoreRecords ==
    ASSUME BackfillTypeOK, More
    PROVE  /\ memory.cursor \in Nat /\ memory.cursor < Len(IdOf)
           /\ memory.cursor + 1 \in 0..Len(IdOf) /\ memory.cursor + 1 \in DOMAIN IdOf
           /\ Record \in Ids
  <1>1. memory.cursor \in 0..Len(IdOf) /\ run.limit \in Nat
    BY BackfillAssumption DEF BackfillTypeOK, Checkpoint, Run
  <1>2. End <= Len(IdOf)
    BY <1>1, BackfillAssumption DEF End, Min
  <1>3. End \in {run.limit, Len(IdOf)}
    BY <1>1, BackfillAssumption DEF End, Min
  <1>4. memory.cursor < Len(IdOf)
    BY <1>1, <1>2, <1>3, BackfillAssumption DEF More
  <1> QED
    BY <1>1, <1>4, BackfillAssumption DEF Record, Ids

LEMMA RecordThere ==
    ASSUME BackfillTypeOK, memory.cursor < Len(IdOf)
    PROVE  /\ memory.cursor \in Nat
           /\ memory.cursor + 1 \in 0..Len(IdOf) /\ memory.cursor + 1 \in DOMAIN IdOf
           /\ Record \in Ids
  BY BackfillAssumption DEF BackfillTypeOK, Checkpoint, Record, Ids

\* The checkpoint after a record was marked.
LEMMA Marked ==
    ASSUME BackfillTypeOK, memory.cursor < Len(IdOf), NEW status \in Status, Marks(status)
    PROVE  /\ memory' \in Checkpoint
           /\ memory'.cursor = memory.cursor + 1 /\ memory'.cursor > 0
           /\ IdOf[memory'.cursor] = Record
           /\ memory'.records[Record] = status
           /\ \A id \in Ids : id # Record => memory'.records[id] = memory.records[id]
  BY RecordThere DEF BackfillTypeOK, Checkpoint, Marks, Record

\* A marked checkpoint tells the truth if the mark does.
LEMMA MarkedTrue ==
    ASSUME BackfillTypeOK, memory.cursor < Len(IdOf), NEW status \in Status, Marks(status),
           TellsTrue(memory), UNCHANGED previews,
           \A id \in Ids : applied'[id] >= applied[id] /\ applied'[id] \in Nat,
           status # "none", status = "success" => applied'[Record] > 0
    PROVE  TellsTrue(memory)'
  <1> USE RecordThere, Marked
  <1>1. \A id \in Ids : memory'.records[id] = "success" => applied'[id] > 0
    <2> SUFFICES ASSUME NEW id \in Ids, memory'.records[id] = "success"
                 PROVE  applied'[id] > 0
      OBVIOUS
    <2>1. CASE id = Record
      BY <2>1
    <2>2. CASE id # Record
      <3>1. applied[id] > 0 /\ applied[id] \in Nat
        BY <2>2 DEF TellsTrue, BackfillTypeOK
      <3> QED
        BY <3>1
    <2> QED
      BY <2>1, <2>2
  <1>2. ASSUME ~previews', NEW i \in 1..memory'.cursor
        PROVE  memory'.records[IdOf[i]] # "none"
    <2>1. IdOf[i] \in Ids
      BY BackfillAssumption DEF Ids
    <2>2. i \in 1..memory.cursor \/ i = memory.cursor + 1
      OBVIOUS
    <2>3. CASE IdOf[i] = Record
      BY <2>3
    <2>4. CASE IdOf[i] # Record
      BY <1>2, <2>1, <2>2, <2>4 DEF TellsTrue, Record
    <2> QED
      BY <2>3, <2>4
  <1> QED
    BY <1>1, <1>2 DEF TellsTrue

LEMMA BackfillStarts == BackfillInit => BackfillInv
  <1> SUFFICES ASSUME BackfillInit PROVE BackfillInv
    OBVIOUS
  <1>0. (CHOOSE l \in Limits : TRUE) \in Limits
    BY BackfillAssumption
  <1>1. EmptyCheckpoint \in Checkpoint
    BY BackfillAssumption DEF EmptyCheckpoint, Checkpoint, Status
  <1>2. BackfillTypeOK
    BY <1>0, <1>1, BackfillAssumption DEF BackfillInit, BackfillTypeOK, Run
  <1>3. file.cursor = 0 /\ \A id \in Ids : file.records[id] = "none"
    BY DEF BackfillInit, EmptyCheckpoint
  <1>4. TellsTrue(file)
    BY <1>3 DEF TellsTrue
  <1> QED
    BY <1>2, <1>4 DEF BackfillInit, BackfillInv, Counts

LEMMA BackfillKeeps == BackfillInv /\ [BackfillNext]_backfillVars => BackfillInv'
  <1> SUFFICES ASSUME BackfillInv, [BackfillNext]_backfillVars PROVE BackfillInv'
    OBVIOUS
  <1> USE DEF BackfillInv
  <1>t. BackfillTypeOK /\ file \in Checkpoint /\ memory \in Checkpoint /\ run \in Run
    BY DEF BackfillTypeOK
  <1>n. \A id \in Ids : applied[id] \in Nat /\ unsure[id] \in Nat
    BY DEF BackfillTypeOK
  <1>1. ASSUME NEW dry \in BOOLEAN, NEW resume \in BOOLEAN, NEW limit \in Limits,
               StartRun(dry, resume, limit)
        PROVE  BackfillInv'
    <2>1. EmptyCheckpoint \in Checkpoint /\ EmptyCheckpoint.cursor = 0
          /\ \A id \in Ids : EmptyCheckpoint.records[id] = "none"
      BY BackfillAssumption DEF EmptyCheckpoint, Checkpoint, Status
    <2>2. run' \in Run /\ run'.at = "next" /\ run'.dry = dry
      BY <1>1 DEF StartRun, Run
    <2>3. runs' \in 0..MaxRuns
      BY <1>1, BackfillAssumption DEF StartRun, BackfillTypeOK
    <2>4. CASE resume
      <3>1. memory' = file /\ unsure' = unsure /\ UNCHANGED <<previews, file, applied>>
        BY <1>1, <2>4 DEF StartRun
      <3>2. BackfillTypeOK'
        BY <1>t, <2>2, <2>3, <3>1 DEF BackfillTypeOK
      <3>3. TellsTrue(file)' /\ TellsTrue(memory)'
        BY <3>1 DEF TellsTrue
      <3>4. \A id \in Ids : Counts(id, file)' /\ Counts(id, memory)'
        BY <1>1, <3>1 DEF StartRun, Counts, Unwritten
      <3> QED
        BY <1>1, <2>2, <3>1, <3>2, <3>3, <3>4 DEF StartRun
    <2>5. CASE ~resume
      <3>1. memory' = EmptyCheckpoint /\ unsure' = applied /\ UNCHANGED <<previews, file, applied>>
        BY <1>1, <2>5 DEF StartRun
      <3>2. BackfillTypeOK'
        BY <1>t, <2>1, <2>2, <2>3, <3>1 DEF BackfillTypeOK
      <3>3. TellsTrue(file)' /\ TellsTrue(memory)'
        BY <2>1, <3>1 DEF TellsTrue
      <3>4. \A id \in Ids : Counts(id, file)' /\ Counts(id, memory)'
        BY <1>n, <3>1 DEF Counts
      <3>5. \A id \in Ids : applied'[id] <= 1 + unsure'[id]
        BY <1>n, <3>1
      <3> QED
        BY <1>1, <2>2, <3>1, <3>2, <3>3, <3>4, <3>5 DEF StartRun
    <2> QED
      BY <2>4, <2>5
  <1>m. ASSUME More, UNCHANGED <<previews, file, runs, applied, unsure>>, UNCHANGED run,
               \/ Moves /\ (previews \/ IsDone(Record))
               \/ \E status \in {"skipped", "failed"} : Marks(status) /\ ~IsDone(Record)
        PROVE  BackfillInv'
    <2>1. run.at = "next"
      BY <1>m DEF More
    <2>2. CASE Moves /\ (previews \/ IsDone(Record))
      <3>1. memory' \in Checkpoint /\ memory'.cursor = memory.cursor + 1
            /\ memory'.records = memory.records
        BY <1>t, <1>m, <2>2, MoreRecords DEF Moves, Checkpoint
      <3>2. BackfillTypeOK'
        BY <1>t, <1>m, <3>1 DEF BackfillTypeOK
      <3>3. TellsTrue(file)'
        BY <1>m DEF TellsTrue
      <3>4. TellsTrue(memory)'
        <4>1. \A i \in 1..memory'.cursor : i \in 1..memory.cursor \/ i = memory.cursor + 1
          BY <1>m, <3>1, MoreRecords
        <4> QED
          BY <1>m, <2>1, <2>2, <3>1, <4>1 DEF TellsTrue, IsDone, Record
      <3>5. \A id \in Ids : Counts(id, file)' /\ Counts(id, memory)'
        BY <1>m, <2>1, <3>1 DEF Counts, Unwritten
      <3> QED
        BY <1>m, <2>1, <3>2, <3>3, <3>4, <3>5
    <2>3. ASSUME NEW status \in {"skipped", "failed"}, Marks(status), ~IsDone(Record)
          PROVE  BackfillInv'
      <3>0. status \in Status /\ status # "none" /\ status # "success"
        BY DEF Status
      <3>a. memory.cursor < Len(IdOf) /\ Record \in Ids
        BY <1>t, <1>m, MoreRecords
      <3>1. BackfillTypeOK'
        BY <1>t, <1>m, <2>3, <3>0, <3>a, Marked DEF BackfillTypeOK
      <3>2. TellsTrue(file)'
        BY <1>m DEF TellsTrue
      <3>3. TellsTrue(memory)'
        BY <1>t, <1>n, <1>m, <2>1, <2>3, <3>0, <3>a, MarkedTrue
      <3>4. \A id \in Ids : memory'.records[id] = "success" <=> memory.records[id] = "success"
        BY <1>t, <2>3, <3>0, <3>a, Marked DEF IsDone
      <3>5. \A id \in Ids : Counts(id, file)' /\ Counts(id, memory)'
        BY <1>m, <2>1, <3>4 DEF Counts, Unwritten
      <3> QED
        BY <1>m, <2>1, <3>1, <3>2, <3>3, <3>5
    <2> QED
      BY <1>m, <2>2, <2>3
  <1>2. CASE AlreadyApplied \/ PreviewUpdate
    BY <1>2, <1>m DEF AlreadyApplied, PreviewUpdate, More
  <1>3. CASE PlansNone("skipped") \/ PlansNone("failed")
    BY <1>3, <1>m DEF PlansNone
  <1>4. CASE PlansUpdate
    <2>1. run' \in Run /\ run'.at = "apply" /\ run.at = "next" /\ run'.dry = run.dry
      BY <1>t, <1>4 DEF PlansUpdate, More, Run
    <2>2. UNCHANGED <<previews, file, memory, runs, applied, unsure>>
      BY <1>4 DEF PlansUpdate
    <2>3. BackfillTypeOK'
      BY <1>t, <2>1, <2>2 DEF BackfillTypeOK
    <2>4. memory'.cursor < Len(IdOf) /\ ~IsDone(Record)'
      BY <1>t, <1>4, <2>2, MoreRecords DEF PlansUpdate, IsDone, Record
    <2>5. TellsTrue(file)' /\ TellsTrue(memory)'
      BY <2>1, <2>2 DEF TellsTrue
    <2>6. \A id \in Ids : Counts(id, file)' /\ Counts(id, memory)'
      BY <2>1, <2>2 DEF Counts, Unwritten
    <2> QED
      BY <2>1, <2>2, <2>3, <2>4, <2>5, <2>6
  <1>5. CASE Apply
    <2>1. run' \in Run /\ run'.at = "write" /\ run.at = "apply" /\ run'.dry = run.dry
      BY <1>t, <1>5 DEF Apply, Run
    <2>2. UNCHANGED <<previews, file, runs, unsure>> /\ Marks("success") /\ "success" \in Status
      BY <1>5 DEF Apply, Status
    <2>3. Record \in Ids /\ memory.cursor < Len(IdOf) /\ ~IsDone(Record)
      BY <1>t, <2>1, RecordThere
    <2>4. /\ applied' \in [Ids -> Nat] /\ applied'[Record] = applied[Record] + 1
          /\ \A id \in Ids : id # Record => applied'[id] = applied[id]
      BY <1>t, <1>5, <2>3 DEF Apply, Alters, BackfillTypeOK
    <2>5. BackfillTypeOK'
      BY <1>t, <2>1, <2>2, <2>3, <2>4, Marked DEF BackfillTypeOK
    <2>6. TellsTrue(memory)'
      <3>1. \A id \in Ids : applied'[id] >= applied[id] /\ applied'[id] \in Nat
        BY <1>n, <2>4
      <3>2. applied'[Record] > 0
        BY <1>n, <2>3, <2>4
      <3> QED
        BY <1>t, <2>1, <2>2, <2>3, <3>1, <3>2, MarkedTrue
    <2>7. TellsTrue(file)'
      BY <1>n, <2>2, <2>4 DEF TellsTrue
    <2>8. \A id \in Ids : applied'[id] <= 1 + unsure'[id]
      BY <1>n, <2>1, <2>2, <2>3, <2>4 DEF Counts, IsDone
    <2>9. ASSUME NEW id \in Ids
          PROVE  Counts(id, memory)' /\ (Counts(id, file) \/ Unwritten(id))'
      <3>1. CASE id = Record
        <4>1. memory'.records[id] = "success" /\ id = IdOf[memory'.cursor]
          BY <1>t, <2>2, <2>3, <3>1, Marked
        <4> QED
          BY <2>1, <4>1 DEF Counts, Unwritten, IsDone
      <3>2. CASE id # Record
        <4>1. memory'.records[id] = memory.records[id] /\ applied'[id] = applied[id]
          BY <1>t, <2>2, <2>3, <2>4, <3>2, Marked
        <4> QED
          BY <2>1, <2>2, <4>1 DEF Counts, Unwritten
      <3> QED
        BY <3>1, <3>2
    <2>10. memory'.cursor > 0
      BY <1>t, <2>2, <2>3, Marked
    <2> QED
      BY <2>1, <2>2, <2>5, <2>6, <2>7, <2>8, <2>9, <2>10
  <1>6. CASE ApplyThrows
    <2>1. run' \in Run /\ run'.at = "write" /\ run.at = "apply" /\ run'.dry = run.dry
      BY <1>t, <1>6 DEF ApplyThrows, Run
    <2>2. UNCHANGED <<previews, file, runs>> /\ Marks("failed") /\ "failed" \in Status
      BY <1>6 DEF ApplyThrows, Status
    <2>3. Record \in Ids /\ memory.cursor < Len(IdOf) /\ ~IsDone(Record)
      BY <1>t, <2>1, RecordThere
    <2>4. /\ applied' \in [Ids -> Nat] /\ unsure' \in [Ids -> Nat]
          /\ \A id \in Ids : \/ applied'[id] = applied[id] /\ unsure'[id] = unsure[id]
                             \/ applied'[id] = applied[id] + 1 /\ unsure'[id] = unsure[id] + 1
      <3>1. applied \in [Ids -> Nat] /\ unsure \in [Ids -> Nat]
        BY DEF BackfillTypeOK
      <3>2. CASE UNCHANGED <<applied, unsure>>
        BY <3>1, <3>2
      <3>3. CASE Alters(Record) /\ Forgets(Record)
        BY <2>3, <3>1, <3>3 DEF Alters, Forgets
      <3> QED
        BY <1>6, <3>2, <3>3 DEF ApplyThrows
    <2>5. BackfillTypeOK'
      BY <1>t, <2>1, <2>2, <2>3, <2>4, Marked DEF BackfillTypeOK
    <2>6. \A id \in Ids : applied'[id] >= applied[id] /\ applied'[id] \in Nat
      BY <1>n, <2>4
    <2>7. TellsTrue(memory)' /\ TellsTrue(file)'
      <3>1. TellsTrue(file)'
        BY <1>n, <2>2, <2>6 DEF TellsTrue
      <3> QED
        BY <1>t, <2>1, <2>2, <2>3, <2>6, <3>1, MarkedTrue
    <2>8. \A id \in Ids : /\ applied'[id] <= 1 + unsure'[id]
                          /\ applied[id] <= unsure[id] => applied'[id] <= unsure'[id]
      BY <1>n, <2>4
    <2>9. \A id \in Ids : memory.records[id] = "success" => memory'.records[id] = "success"
      BY <1>t, <2>2, <2>3, Marked DEF IsDone
    <2>10. \A id \in Ids : Counts(id, memory)' /\ Counts(id, file)'
      BY <2>1, <2>2, <2>8, <2>9 DEF Counts, Unwritten
    <2>11. memory'.cursor > 0
      BY <1>t, <2>2, <2>3, Marked
    <2> QED
      BY <2>1, <2>2, <2>5, <2>7, <2>8, <2>10, <2>11
  <1>7. CASE WriteCheckpoint \/ Finish
    <2>1. run' \in Run /\ run'.at \in {"next", "idle"} /\ run.at # "idle" /\ run'.dry = run.dry
      BY <1>t, <1>7 DEF WriteCheckpoint, Finish, Run
    <2>2. file' = memory /\ UNCHANGED <<previews, memory, runs, applied, unsure>>
      BY <1>7 DEF WriteCheckpoint, Finish
    <2>3. BackfillTypeOK'
      BY <1>t, <2>1, <2>2 DEF BackfillTypeOK
    <2>4. TellsTrue(file)' /\ TellsTrue(memory)'
      BY <2>1, <2>2 DEF TellsTrue
    <2>5. \A id \in Ids : Counts(id, file)' /\ Counts(id, memory)'
      BY <2>1, <2>2 DEF Counts
    <2> QED
      BY <2>1, <2>2, <2>3, <2>4, <2>5
  <1>8. CASE Kill
    <2>1. run' \in Run /\ run'.at = "idle" /\ run.at \in {"next", "apply", "write"}
      BY <1>t, <1>8 DEF Kill, Run
    <2>2. UNCHANGED <<previews, file, memory, runs>>
      BY <1>8 DEF Kill
    <2>a. CASE UNCHANGED <<applied, unsure>> /\ \A id \in Ids : ~Unwritten(id)
      <3>1. BackfillTypeOK'
        BY <1>t, <2>1, <2>2, <2>a DEF BackfillTypeOK
      <3>2. TellsTrue(file)'
        BY <2>2, <2>a DEF TellsTrue
      <3>3. \A id \in Ids : Counts(id, file)'
        BY <2>2, <2>a DEF Counts
      <3> QED
        BY <2>1, <2>a, <3>1, <3>2, <3>3
    <2>b. ASSUME NEW x \in Ids, Forgets(x), applied' = applied \/ Alters(x),
                 \A id \in Ids : Unwritten(id) => id = x /\ applied' = applied
          PROVE  BackfillInv'
      <3>1. /\ unsure' \in [Ids -> Nat] /\ unsure'[x] = unsure[x] + 1
            /\ \A id \in Ids : id # x => unsure'[id] = unsure[id]
        BY <1>t, <2>b DEF Forgets, BackfillTypeOK
      <3>2. /\ applied' \in [Ids -> Nat]
            /\ applied'[x] \in {applied[x], applied[x] + 1}
            /\ \A id \in Ids : id # x => applied'[id] = applied[id]
        BY <1>t, <2>b DEF Alters, BackfillTypeOK
      <3>3. BackfillTypeOK'
        BY <1>t, <2>1, <2>2, <3>1, <3>2 DEF BackfillTypeOK
      <3>4. TellsTrue(file)'
        BY <1>n, <2>2, <3>2 DEF TellsTrue
      <3>5. \A id \in Ids : applied'[id] <= 1 + unsure'[id]
        <4>1. applied'[x] <= 1 + unsure'[x]
          BY <1>n, <3>1, <3>2
        <4>2. \A id \in Ids \ {x} : applied'[id] = applied[id] /\ unsure'[id] = unsure[id]
          BY <3>1, <3>2
        <4> QED
          BY <4>1, <4>2
      <3>6. ASSUME NEW id \in Ids PROVE Counts(id, file)'
        <4>1. CASE id # x
          BY <2>2, <2>b, <3>1, <3>2, <4>1 DEF Counts
        <4>2. CASE id = x /\ Unwritten(x)
          <5>1. applied'[x] = applied[x] /\ applied[x] <= 1 + unsure[x]
            BY <2>b, <4>2
          <5> QED
            BY <1>n, <3>1, <4>2, <5>1 DEF Counts
        <4>3. CASE id = x /\ ~Unwritten(x)
          <5>1. file.records[x] = "success" \/ applied[x] <= unsure[x]
            BY <4>3 DEF Counts
          <5>2. applied[x] <= unsure[x] => applied'[x] <= unsure'[x]
            BY <1>t, <3>1, <3>2 DEF BackfillTypeOK
          <5> QED
            BY <2>2, <4>3, <5>1, <5>2 DEF Counts
        <4> QED
          BY <4>1, <4>2, <4>3
      <3> QED
        BY <2>1, <3>3, <3>4, <3>5, <3>6
    <2>3. CASE run.at = "next"
      <3>1. UNCHANGED <<applied, unsure>>
        BY <1>8, <2>3 DEF Kill
      <3> QED
        BY <2>3, <2>a, <3>1 DEF Unwritten
    <2>4. CASE run.at = "apply"
      <3>1. UNCHANGED <<applied, unsure>> \/ (Alters(Record) /\ Forgets(Record))
        BY <1>8, <2>4 DEF Kill
      <3>2. Record \in Ids
        BY <1>t, <2>4, RecordThere
      <3>3. \A id \in Ids : ~Unwritten(id)
        BY <2>4 DEF Unwritten
      <3> QED
        BY <2>a, <2>b, <3>1, <3>2, <3>3
    <2>5. CASE run.at = "write"
      <3> DEFINE x == IdOf[memory.cursor]
      <3>1. x \in Ids
        BY <1>t, <2>5, BackfillAssumption DEF Checkpoint, Ids
      <3>2. applied' = applied /\ (IF IsDone(x) THEN Forgets(x) ELSE UNCHANGED unsure)
        BY <1>8, <2>5 DEF Kill
      <3>3. CASE IsDone(x)
        BY <2>b, <3>1, <3>2, <3>3 DEF Unwritten
      <3>4. CASE ~IsDone(x)
        BY <2>a, <3>2, <3>4 DEF Unwritten
      <3> QED
        BY <3>3, <3>4
    <2> QED
      BY <2>1, <2>3, <2>4, <2>5
  <1>9. CASE UNCHANGED backfillVars
    <2>1. BackfillTypeOK'
      BY <1>t, <1>9 DEF backfillVars, BackfillTypeOK
    <2>2. TellsTrue(file)' /\ (run.at # "idle" => TellsTrue(memory)')
      BY <1>9 DEF backfillVars, TellsTrue
    <2> QED
      BY <1>9, <2>1, <2>2 DEF backfillVars, Counts, Unwritten, IsDone, Record
  <1> QED
    BY <1>1, <1>2, <1>3, <1>4, <1>5, <1>6, <1>7, <1>8, <1>9 DEF BackfillNext

\* A resumed backfill changes a record again only after a change no checkpoint tells of.
THEOREM BackfillResumesCorrectly == BackfillSpec => []ResumesCorrectly
  <1>1. BackfillInv => ResumesCorrectly
    BY DEF BackfillInv, TellsTrue, ResumesCorrectly
  <1> QED
    BY <1>1, BackfillStarts, BackfillKeeps, PTL DEF BackfillSpec

------------------------------------------------------------------------------
(* ProtocolGuard                                                             *)

Pause == [scope : Scopes, resumed : BOOLEAN]
Said == [action : {"pause", "resume", "resume_denied"}, scope : Scopes]

\* At most one pause of a scope is active, and one is just if the log says so.
GuardInv ==
    /\ GuardTypeOK
    /\ \A i, j \in DOMAIN pauses :
        Active(i) /\ Active(j) /\ pauses[i].scope = pauses[j].scope => i = j
    /\ \A s \in Scopes : ActivePauses(s) # {} <=> PausedByAudit(s)

\* What an entry at the end of the log changes.
LEMMA EntryLogged ==
    ASSUME audit \in Seq(Said), NEW scope \in Scopes,
           NEW action \in {"pause", "resume", "resume_denied"}, Audited(action, scope)
    PROVE  /\ audit' \in Seq(Said)
           /\ \A s \in Scopes : s # scope \/ action = "resume_denied" =>
                (PausedByAudit(s)' <=> PausedByAudit(s))
           /\ action = "pause" => PausedByAudit(scope)'
           /\ action = "resume" => ~PausedByAudit(scope)'
  <1> DEFINE e == [action |-> action, scope |-> scope]
  <1>1. e \in Said /\ audit' = Append(audit, e)
    BY DEF Audited, Said
  <1>2. /\ audit' \in Seq(Said) /\ Len(audit) \in Nat
        /\ DOMAIN audit = 1..Len(audit) /\ DOMAIN audit' = 1..(Len(audit) + 1)
        /\ audit'[Len(audit) + 1] = e
        /\ \A i \in DOMAIN audit : audit'[i] = audit[i]
    BY <1>1
  <1>3. ASSUME NEW s \in Scopes, s # scope \/ action = "resume_denied"
        PROVE  PausedByAudit(s)' <=> PausedByAudit(s)
    <2>1. e # [action |-> "pause", scope |-> s]
          /\ (e.scope = s => e.action = "resume_denied")
      BY <1>3
    <2> HIDE DEF e
    <2>2. ASSUME PausedByAudit(s) PROVE PausedByAudit(s)'
      <3>1. PICK i \in DOMAIN audit :
                /\ audit[i] = [action |-> "pause", scope |-> s]
                /\ \A j \in DOMAIN audit :
                      j > i /\ audit[j].scope = s => audit[j].action = "resume_denied"
        BY <2>2 DEF PausedByAudit
      <3>2. i \in DOMAIN audit' /\ audit'[i] = [action |-> "pause", scope |-> s]
        BY <1>2, <3>1
      <3>3. \A j \in DOMAIN audit' :
                j > i /\ audit'[j].scope = s => audit'[j].action = "resume_denied"
        <4>1. \A j \in DOMAIN audit' : j \in DOMAIN audit \/ j = Len(audit) + 1
          BY <1>2
        <4> QED
          BY <1>2, <2>1, <3>1, <4>1
      <3> QED
        BY <3>2, <3>3 DEF PausedByAudit
    <2>3. ASSUME PausedByAudit(s)' PROVE PausedByAudit(s)
      <3>1. PICK i \in DOMAIN audit' :
                /\ audit'[i] = [action |-> "pause", scope |-> s]
                /\ \A j \in DOMAIN audit' :
                      j > i /\ audit'[j].scope = s => audit'[j].action = "resume_denied"
        BY <2>3 DEF PausedByAudit
      <3>2. i \in DOMAIN audit
        BY <1>2, <2>1, <3>1
      <3> QED
        BY <1>2, <3>1, <3>2 DEF PausedByAudit
    <2> QED
      BY <2>2, <2>3
  <1>4. ASSUME action = "pause" PROVE PausedByAudit(scope)'
    <2>1. Len(audit) + 1 \in DOMAIN audit'
          /\ audit'[Len(audit) + 1] = [action |-> "pause", scope |-> scope]
      BY <1>2, <1>4
    <2>2. \A j \in DOMAIN audit' : ~(j > Len(audit) + 1)
      BY <1>2
    <2> QED
      BY <2>1, <2>2 DEF PausedByAudit
  <1>5. ASSUME action = "resume", PausedByAudit(scope)' PROVE FALSE
    <2>1. PICK i \in DOMAIN audit' :
              /\ audit'[i] = [action |-> "pause", scope |-> scope]
              /\ \A j \in DOMAIN audit' :
                    j > i /\ audit'[j].scope = scope => audit'[j].action = "resume_denied"
      BY <1>5 DEF PausedByAudit
    <2>2. e.action = "resume" /\ e.scope = scope
      BY <1>5
    <2>3. i # Len(audit) + 1
      BY <1>2, <2>1, <2>2
    <2>4. Len(audit) + 1 > i /\ Len(audit) + 1 \in DOMAIN audit'
      BY <1>2, <2>3
    <2> QED
      BY <1>2, <2>1, <2>2, <2>4
  <1> QED
    BY <1>2, <1>3, <1>4, <1>5

LEMMA GuardStarts == GuardInit => GuardInv
  <1> SUFFICES ASSUME GuardInit PROVE GuardInv
    OBVIOUS
  <1>1. pauses = <<>> /\ audit = <<>> /\ receipts = [r \in {} |-> "received"]
    BY DEF GuardInit
  <1>2. receipts \in [{} -> ReceiptStatus]
    BY <1>1
  <1>3. GuardTypeOK
    <2>1. {} \in SUBSET Requests
      OBVIOUS
    <2>2. pauses \in Seq(Pause) /\ audit \in Seq(Said)
      BY <1>1
    <2> QED
      BY <1>2, <2>1, <2>2 DEF GuardTypeOK, Pause, Said
  <1>4. \A s \in Scopes : ActivePauses(s) = {} /\ ~PausedByAudit(s)
    BY <1>1 DEF ActivePauses, PausedByAudit
  <1> QED
    BY <1>1, <1>3, <1>4 DEF GuardInv

LEMMA GuardKeeps == GuardInv /\ [GuardNext]_guardVars => GuardInv'
  <1> SUFFICES ASSUME GuardInv, [GuardNext]_guardVars PROVE GuardInv'
    OBVIOUS
  <1> USE DEF GuardInv
  <1>t. /\ pauses \in Seq(Pause) /\ audit \in Seq(Said)
        /\ DOMAIN pauses = 1..Len(pauses) /\ Len(pauses) \in Nat
    <2>1. pauses \in Seq(Pause) /\ audit \in Seq(Said)
      BY DEF GuardTypeOK, Pause, Said
    <2> QED
      BY <2>1
  <1>s. ASSUME pauses' \in Seq(Pause), audit' \in Seq(Said), UNCHANGED receipts
        PROVE  GuardTypeOK'
    BY <1>s DEF GuardTypeOK, Pause, Said
  <1>1. ASSUME NEW role \in Roles, NEW scope \in Scopes, pause(role, scope)
        PROVE  GuardInv'
    <2> DEFINE p == [scope |-> scope, resumed |-> FALSE]
    <2>1. /\ pauses' = Append(pauses, p) /\ p \in Pause
          /\ ActivePauses(scope) = {} /\ Audited("pause", scope) /\ UNCHANGED receipts
      BY <1>1 DEF pause, Pause
    <2>2. /\ pauses' \in Seq(Pause)
          /\ DOMAIN pauses' = 1..(Len(pauses) + 1)
          /\ pauses'[Len(pauses) + 1] = p
          /\ \A i \in DOMAIN pauses : pauses'[i] = pauses[i]
      BY <1>t, <2>1
    <2>3. p.scope = scope /\ p.resumed = FALSE
      OBVIOUS
    <2> HIDE DEF p
    <2>4. \A i \in DOMAIN pauses' : i \in DOMAIN pauses \/ i = Len(pauses) + 1
      BY <1>t, <2>2
    <2>5. \A i \in DOMAIN pauses : pauses[i].scope = scope => pauses[i].resumed
      BY <2>1 DEF ActivePauses, Active
    <2>6. \A i, j \in DOMAIN pauses' :
            Active(i)' /\ Active(j)' /\ pauses'[i].scope = pauses'[j].scope => i = j
      BY <2>2, <2>3, <2>4, <2>5 DEF Active
    <2>7. ActivePauses(scope)' # {}
      BY <1>t, <2>2, <2>3 DEF ActivePauses, Active
    <2>8. \A s \in Scopes : s # scope => (ActivePauses(s)' # {} <=> ActivePauses(s) # {})
      BY <1>t, <2>2, <2>3, <2>4 DEF ActivePauses, Active
    <2>9. \A s \in Scopes : ActivePauses(s)' # {} <=> PausedByAudit(s)'
      BY <1>t, <2>1, <2>7, <2>8, EntryLogged
    <2> QED
      BY <1>t, <1>s, <2>1, <2>2, <2>6, <2>9, EntryLogged
  <1>2. ASSUME NEW role \in Roles, NEW scope \in Scopes, DenyResume(role, scope)
        PROVE  GuardInv'
    <2>1. Audited("resume_denied", scope) /\ UNCHANGED <<pauses, receipts>>
      BY <1>2 DEF DenyResume
    <2>2. \A s \in Scopes : ActivePauses(s)' = ActivePauses(s)
      BY <2>1 DEF ActivePauses, Active
    <2> QED
      BY <1>t, <1>s, <2>1, <2>2, EntryLogged DEF Active
  <1>3. ASSUME NEW role \in Roles, NEW scope \in Scopes, Resume(role, scope)
        PROVE  GuardInv'
    <2>1. PICK i \in ActivePauses(scope) : pauses' = [pauses EXCEPT ![i].resumed = TRUE]
      BY <1>3 DEF Resume
    <2>2. Audited("resume", scope) /\ UNCHANGED receipts
      BY <1>3 DEF Resume
    <2>3. i \in DOMAIN pauses /\ pauses[i] \in Pause /\ pauses[i].scope = scope /\ Active(i)
      BY <1>t, <2>1 DEF ActivePauses
    <2> DEFINE p == [pauses[i] EXCEPT !.resumed = TRUE]
    <2>4. p \in Pause /\ p.scope = scope /\ p.resumed = TRUE
      BY <2>3 DEF Pause
    <2>5. pauses' = [pauses EXCEPT ![i] = p]
      BY <2>1
    <2> HIDE DEF p
    <2>6. /\ pauses' \in Seq(Pause) /\ DOMAIN pauses' = DOMAIN pauses
          /\ pauses'[i] = p
          /\ \A j \in DOMAIN pauses : j # i => pauses'[j] = pauses[j]
      BY <1>t, <2>3, <2>4, <2>5
    <2>7. \A j, k \in DOMAIN pauses' :
            Active(j)' /\ Active(k)' /\ pauses'[j].scope = pauses'[k].scope => j = k
      BY <2>4, <2>6 DEF Active
    <2>8. ActivePauses(scope)' = {}
      BY <2>3, <2>4, <2>6 DEF ActivePauses, Active
    <2>9. \A s \in Scopes : s # scope => (ActivePauses(s)' # {} <=> ActivePauses(s) # {})
      BY <2>3, <2>4, <2>6 DEF ActivePauses, Active
    <2>10. \A s \in Scopes : ActivePauses(s)' # {} <=> PausedByAudit(s)'
      BY <1>t, <2>2, <2>8, <2>9, EntryLogged
    <2> QED
      BY <1>t, <1>s, <2>2, <2>6, <2>7, <2>10, EntryLogged
  <1>c. ASSUME UNCHANGED <<pauses, audit>>, GuardTypeOK' PROVE GuardInv'
    BY <1>c DEF Active, ActivePauses, PausedByAudit
  <1>r. PICK known \in SUBSET Requests : receipts \in [known -> ReceiptStatus]
    BY DEF GuardTypeOK
  <1>4. ASSUME NEW request \in Requests, executeGuardedOperation(request)
        PROVE  GuardInv'
    <2>1. UNCHANGED <<pauses, audit>> /\ "received" \in ReceiptStatus
      BY <1>4 DEF executeGuardedOperation, ReceiptStatus
    <2>2. receipts' \in [known \cup {request} -> ReceiptStatus]
      BY <1>r, <1>4, <2>1 DEF executeGuardedOperation
    <2> QED
      BY <1>c, <1>r, <2>1, <2>2 DEF GuardTypeOK
  <1>5. ASSUME NEW request \in Requests, NEW status \in ReceiptStatus, transition(request, status)
        PROVE  GuardInv'
    <2>1. UNCHANGED <<pauses, audit>> /\ receipts' \in [known -> ReceiptStatus]
      BY <1>r, <1>5 DEF transition
    <2> QED
      BY <1>c, <1>r, <2>1 DEF GuardTypeOK
  <1>6. CASE UNCHANGED guardVars
    BY <1>c, <1>6 DEF guardVars, GuardTypeOK
  <1> QED
    BY <1>1, <1>2, <1>3, <1>4, <1>5, <1>6 DEF GuardNext

\* The gate is as the log says, and lets through what the log lets through.
LEMMA GateAndLog ==
    ASSUME GuardInv, NEW r \in Requests
    PROVE  Paused(r) <=> \E s \in Scopes : Covers(s, r) /\ PausedByAudit(s)
  <1>1. \A i \in DOMAIN pauses : pauses[i].scope \in Scopes
    <2>1. pauses \in Seq(Pause)
      BY DEF GuardInv, GuardTypeOK, Pause
    <2>2. \A i \in DOMAIN pauses : pauses[i] \in Pause
      BY <2>1
    <2> QED
      BY <2>2 DEF Pause
  <1>2. ASSUME Paused(r) PROVE \E s \in Scopes : Covers(s, r) /\ PausedByAudit(s)
    <2>1. PICK i \in DOMAIN pauses : Active(i) /\ Covers(pauses[i].scope, r)
      BY <1>2 DEF Paused
    <2>2. ActivePauses(pauses[i].scope) # {}
      BY <2>1 DEF ActivePauses
    <2> QED
      BY <1>1, <2>1, <2>2 DEF GuardInv
  <1>3. ASSUME NEW s \in Scopes, Covers(s, r), PausedByAudit(s) PROVE Paused(r)
    BY <1>3 DEF GuardInv, ActivePauses, Paused
  <1> QED
    BY <1>2, <1>3

LEMMA GateStep ==
    GuardInv /\ [GuardNext]_guardVars =>
      [/\ \A r \in Requests :
            Paused(r) <=> \E s \in Scopes : Covers(s, r) /\ PausedByAudit(s)
       /\ \A r \in DOMAIN receipts' \ DOMAIN receipts :
            \A s \in Scopes : Covers(s, r) => ~PausedByAudit(s)]_guardVars
  <1> SUFFICES ASSUME GuardInv, GuardNext
               PROVE  \A r \in DOMAIN receipts' \ DOMAIN receipts :
                         \A s \in Scopes : Covers(s, r) => ~PausedByAudit(s)
    BY GateAndLog
  <1>r. PICK known \in SUBSET Requests : receipts \in [known -> ReceiptStatus]
    BY DEF GuardInv, GuardTypeOK
  <1>1. ASSUME NEW request \in Requests, executeGuardedOperation(request),
               NEW r \in DOMAIN receipts' \ DOMAIN receipts
        PROVE  \A s \in Scopes : Covers(s, r) => ~PausedByAudit(s)
    <2>1. r = request
      BY <1>1 DEF executeGuardedOperation
    <2> QED
      BY <1>1, <2>1, GateAndLog DEF executeGuardedOperation
  <1>2. ASSUME NEW request \in Requests, NEW status \in ReceiptStatus, transition(request, status)
        PROVE  DOMAIN receipts' = DOMAIN receipts
    BY <1>r, <1>2 DEF transition
  <1> QED
    BY <1>1, <1>2 DEF GuardNext, pause, DenyResume, Resume

\* The gate follows the audit log.
THEOREM GateAlwaysFollowsAudit == GuardSpec => GateFollowsAudit
  BY GuardStarts, GuardKeeps, GateStep, PTL DEF GuardSpec, GateFollowsAudit

------------------------------------------------------------------------------
(* Invitations                                                               *)

Invitation == [inviter : Inviters, expiresAt : 0..(MaxClock + MaxExpiry),
               status : InvitationStatus]
InviteLimits == [perDay : 1..MaxPerDay, expiry : 1..MaxExpiry]

\* What one call may make of an invitation.
Follows(after, before) ==
    after.status # before.status =>
        \/ before.status = "pending" /\ (after.status = "accepted" => ~isExpired(before))
        \/ before.status = "rejected" /\ after.status = "expired" /\ isExpired(before)

\* The types of the parts.
LEMMA Typed ==
    ASSUME InvitationsTypeOK
    PROVE  /\ invitations \in Seq(Invitation)
           /\ DOMAIN invitations = 1..Len(invitations)
           /\ \A i \in DOMAIN invitations : invitations[i] \in Invitation
  <1>1. invitations \in Seq(Invitation)
    BY DEF InvitationsTypeOK, Invitation
  <1>2. DOMAIN invitations = 1..Len(invitations)
    BY <1>1
  <1>3. \A i \in DOMAIN invitations : invitations[i] \in Invitation
    BY <1>1, <1>2, ElementOfSeq
  <1> QED
    BY <1>1, <1>2, <1>3

\* A changed status keeps the type of an invitation.
LEMMA StatusTyped ==
    ASSUME NEW invitation \in Invitation, NEW status \in InvitationStatus
    PROVE  /\ [invitation EXCEPT !.status = status] \in Invitation
           /\ [invitation EXCEPT !.status = status].status = status
  BY DEF Invitation

\* Looking at an invitation touches a pending one only.
LEMMA LookedTyped ==
    ASSUME NEW invitation \in Invitation
    PROVE  /\ Looked(invitation) \in Invitation
           /\ \/ Looked(invitation) = invitation
              \/ invitation.status = "pending" /\ Looked(invitation).status = "expired"
           /\ Looked(invitation).status = "pending" => ~isExpired(invitation)
  <1>1. CASE isExpired(invitation) /\ invitation.status = "pending"
    <2>1. Looked(invitation) = [invitation EXCEPT !.status = "expired"]
      BY <1>1 DEF Looked
    <2> QED
      BY <1>1, <2>1, StatusTyped DEF InvitationStatus
  <1>2. CASE ~(isExpired(invitation) /\ invitation.status = "pending")
    <2>1. Looked(invitation) = invitation
      BY <1>2 DEF Looked
    <2> QED
      BY <1>2, <2>1
  <1> QED
    BY <1>1, <1>2

\* What the calls that need a pending invitation leave of it.
LEMMA DecidesFollows ==
    ASSUME InvitationsTypeOK, NEW i \in DOMAIN invitations,
           NEW decision \in {"accepted", "rejected", "revoked"}, Decides(i, decision)
    PROVE  \E next \in Invitation : Becomes(i, next) /\ Follows(next, invitations[i])
  <1> DEFINE found == Looked(invitations[i])
             next == IF found.status = "pending"
                     THEN [found EXCEPT !.status = decision] ELSE found
  <1>1. /\ found \in Invitation
        /\ \/ found = invitations[i]
           \/ invitations[i].status = "pending" /\ found.status = "expired"
        /\ found.status = "pending" => ~isExpired(invitations[i])
    BY Typed, LookedTyped
  <1>2. Becomes(i, next)
    BY DEF Decides
  <1> HIDE DEF found
  <1>3. CASE found.status = "pending"
    <2>1. decision \in InvitationStatus /\ found \in Invitation
      BY <1>1 DEF InvitationStatus
    <2>2. next = [found EXCEPT !.status = decision]
      BY <1>3
    <2>3. next \in Invitation /\ next.status = decision
      BY <2>1, <2>2, StatusTyped
    <2> HIDE DEF next
    <2>4. invitations[i].status = "pending" /\ ~isExpired(invitations[i])
      BY <1>1, <1>3
    <2>5. Follows(next, invitations[i])
      BY <2>3, <2>4 DEF Follows
    <2> QED
      BY <1>2, <2>3, <2>5
  <1>4. CASE found.status # "pending"
    <2>1. next = found
      BY <1>4
    <2> HIDE DEF next
    <2>2. Follows(next, invitations[i])
      BY <1>1, <2>1 DEF Follows
    <2> QED
      BY <1>1, <1>2, <2>1, <2>2
  <1> QED
    BY <1>3, <1>4

\* What any call on one invitation leaves of it.
LEMMA CallFollows ==
    ASSUME InvitationsTypeOK, NEW i \in DOMAIN invitations,
           getInvitation(i) \/ acceptInvitation(i) \/ rejectInvitation(i) \/ revokeInvitation(i)
    PROVE  \E next \in Invitation : Becomes(i, next) /\ Follows(next, invitations[i])
  <1>1. CASE getInvitation(i)
    BY <1>1, Typed, LookedTyped DEF getInvitation, Follows
  <1>2. CASE rejectInvitation(i)
    BY <1>2, DecidesFollows DEF rejectInvitation
  <1>3. CASE revokeInvitation(i)
    BY <1>3, DecidesFollows DEF revokeInvitation
  <1>4. CASE acceptInvitation(i)
    <2>1. CASE Decides(i, "accepted")
      BY <2>1, DecidesFollows
    <2>2. CASE /\ invitations[i].status \notin {"accepted", "revoked"}
               /\ isExpired(invitations[i])
               /\ Becomes(i, [invitations[i] EXCEPT !.status = "expired"])
      <3> DEFINE next == [invitations[i] EXCEPT !.status = "expired"]
      <3>1. next \in Invitation /\ next.status = "expired" /\ invitations[i] \in Invitation
        BY Typed, StatusTyped DEF InvitationStatus
      <3>2. invitations[i].status \in {"pending", "rejected", "expired"}
        BY <2>2, <3>1 DEF Invitation, InvitationStatus
      <3>3. Follows(next, invitations[i])
        BY <2>2, <3>1, <3>2 DEF Follows
      <3> HIDE DEF next
      <3> QED
        BY <2>2, <3>1, <3>3 DEF next
    <2> QED
      BY <1>4, <2>1, <2>2 DEF acceptInvitation
  <1> QED
    BY <1>1, <1>2, <1>3, <1>4


\* A call on one invitation.
LEMMA CallKeeps ==
    ASSUME InvitationsTypeOK, NEW i \in DOMAIN invitations, NEW next \in Invitation,
           Becomes(i, next), Follows(next, invitations[i])
    PROVE  /\ InvitationsTypeOK'
           /\ \A j \in DOMAIN invitations : Follows(invitations'[j], invitations[j])
  <1>1. /\ invitations' = [invitations EXCEPT ![i] = next]
        /\ clock' = clock /\ window' = window /\ limits' = limits
    BY DEF Becomes
  <1>2. invitations' \in Seq(Invitation)
    BY <1>1, Typed, ExceptSeq
  <1>3. InvitationsTypeOK'
    BY <1>1, <1>2 DEF InvitationsTypeOK, Invitation
  <1>4. \A j \in DOMAIN invitations :
            invitations'[j] = IF j = i THEN next ELSE invitations[j]
    BY <1>1
  <1> QED
    BY <1>3, <1>4 DEF Follows

\* Every step keeps the types and leaves each invitation as it was or as a call
\* may leave it.
LEMMA NextKeeps ==
    ASSUME InvitationsTypeOK, [InvitationsNext]_inviteVars
    PROVE  /\ InvitationsTypeOK'
           /\ \A j \in DOMAIN invitations : Follows(invitations'[j], invitations[j])
  <1>1. CASE \E a \in Inviters : createInvitation(a)
    <2>1. PICK a \in Inviters : createInvitation(a)
      BY <1>1
    <2> DEFINE made == [inviter |-> a, expiresAt |-> clock + limits.expiry, status |-> "pending"]
    <2>2. /\ clock \in 0..MaxClock /\ clock' = clock
          /\ limits.perDay \in 1..MaxPerDay /\ limits.expiry \in 1..MaxExpiry /\ limits' = limits
      BY <2>1 DEF createInvitation, InvitationsTypeOK
    <2>3. made \in Invitation
      <3>1. clock + limits.expiry \in 0..(MaxClock + MaxExpiry)
        BY <2>2, InvitationAssumption
      <3> QED
        BY <3>1 DEF Invitation, InvitationStatus
    <2>4. invitations' = Append(invitations, made)
      BY <2>1 DEF createInvitation
    <2> HIDE DEF made
    <2>5. invitations' \in Seq(Invitation)
      BY <2>3, <2>4, Typed, AppendProperties
    <2>6. \A j \in DOMAIN invitations : invitations'[j] = invitations[j]
      BY <2>3, <2>4, Typed, AppendProperties
    <2>7. window' \in [Inviters -> [count : 0..MaxPerDay, resetTime : 0..(MaxClock + Day)]]
      <3>1. window \in [Inviters -> [count : 0..MaxPerDay, resetTime : 0..(MaxClock + Day)]]
        BY DEF InvitationsTypeOK
      <3>2. CASE InWindow(a)
        <4>1. window[a].count < limits.perDay
          BY <2>1, <3>2 DEF createInvitation, MayInvite
        <4>2. window' = [window EXCEPT ![a] =
                  [count |-> window[a].count + 1, resetTime |-> window[a].resetTime]]
          BY <2>1, <3>2 DEF createInvitation
        <4>3. /\ window[a].count + 1 \in 0..MaxPerDay
              /\ window[a].resetTime \in 0..(MaxClock + Day)
          BY <2>2, <3>1, <4>1, InvitationAssumption
        <4> QED
          BY <3>1, <4>2, <4>3
      <3>3. CASE ~InWindow(a)
        <4>1. window' = [window EXCEPT ![a] = [count |-> 1, resetTime |-> clock + Day]]
          BY <2>1, <3>3 DEF createInvitation
        <4>2. 1 \in 0..MaxPerDay /\ clock + Day \in 0..(MaxClock + Day)
          BY <2>2, InvitationAssumption
        <4> QED
          BY <3>1, <4>1, <4>2
      <3> QED
        BY <3>2, <3>3
    <2>8. InvitationsTypeOK'
      BY <2>2, <2>5, <2>7 DEF InvitationsTypeOK, Invitation
    <2> QED
      BY <2>6, <2>8 DEF Follows
  <1>2. ASSUME NEW i \in DOMAIN invitations,
               getInvitation(i) \/ acceptInvitation(i) \/ rejectInvitation(i) \/ revokeInvitation(i)
        PROVE  /\ InvitationsTypeOK'
               /\ \A j \in DOMAIN invitations : Follows(invitations'[j], invitations[j])
    BY <1>2, CallFollows, CallKeeps
  <1>3. CASE clearExpiredInvitations
    <2>1. /\ invitations' = [i \in DOMAIN invitations |-> Looked(invitations[i])]
          /\ clock' = clock /\ window' = window /\ limits' = limits
      BY <1>3 DEF clearExpiredInvitations
    <2>2. \A i \in 1..Len(invitations) : Looked(invitations[i]) \in Invitation
      BY Typed, LookedTyped
    <2>3. invitations' \in Seq(Invitation)
      <3>1. Len(invitations) \in Nat
        BY Typed, LenProperties
      <3>2. invitations' \in [1..Len(invitations) -> Invitation]
        BY <2>1, <2>2, Typed
      <3> QED
        BY <3>1, <3>2, SeqDef
    <2>4. InvitationsTypeOK'
      BY <2>1, <2>3 DEF InvitationsTypeOK, Invitation
    <2> QED
      BY <2>1, <2>4, Typed, LookedTyped DEF Follows
  <1>4. CASE Tick
    <2>1. clock \in 0..MaxClock /\ clock' = clock + 1 /\ clock < MaxClock
          /\ invitations' = invitations /\ window' = window /\ limits' = limits
      BY <1>4 DEF Tick, InvitationsTypeOK
    <2>2. InvitationsTypeOK'
      BY <2>1, InvitationAssumption DEF InvitationsTypeOK
    <2> QED
      BY <2>1, <2>2 DEF Follows
  <1>5. CASE UNCHANGED inviteVars
    BY <1>5 DEF inviteVars, InvitationsTypeOK, Follows
  <1>6. ASSUME NEW setting \in InviteLimits, Sets(setting)
        PROVE  /\ InvitationsTypeOK'
               /\ \A j \in DOMAIN invitations : Follows(invitations'[j], invitations[j])
    BY <1>6 DEF Sets, InviteLimits, InvitationsTypeOK, Follows
  <1>7. limits \in InviteLimits
    BY DEF InvitationsTypeOK, InviteLimits
  <1>8. ASSUME NEW max \in 1..MaxPerDay, setMaxInvitesPerDay(max)
        PROVE  /\ InvitationsTypeOK'
               /\ \A j \in DOMAIN invitations : Follows(invitations'[j], invitations[j])
    <2>1. [limits EXCEPT !.perDay = max] \in InviteLimits
      BY <1>7 DEF InviteLimits
    <2> QED
      BY <1>6, <1>8, <2>1 DEF setMaxInvitesPerDay
  <1>9. ASSUME NEW hours \in 1..MaxExpiry, setInviteExpiryHours(hours)
        PROVE  /\ InvitationsTypeOK'
               /\ \A j \in DOMAIN invitations : Follows(invitations'[j], invitations[j])
    <2>1. [limits EXCEPT !.expiry = hours] \in InviteLimits
      BY <1>7 DEF InviteLimits
    <2> QED
      BY <1>6, <1>9, <2>1 DEF setInviteExpiryHours
  <1> QED
    BY <1>1, <1>2, <1>3, <1>4, <1>5, <1>8, <1>9 DEF InvitationsNext

\* Types: counts stay within the largest allowance, times within the bounds.
THEOREM InvitationsTyped == InvitationsSpec => []InvitationsTypeOK
  <1>1. InvitationsInit => InvitationsTypeOK
    <2> SUFFICES ASSUME InvitationsInit PROVE InvitationsTypeOK
      OBVIOUS
    <2>1. invitations \in Seq(Invitation)
      BY EmptySeq DEF InvitationsInit
    <2>2. window \in [Inviters -> [count : 0..MaxPerDay, resetTime : 0..(MaxClock + Day)]]
      BY InvitationAssumption DEF InvitationsInit
    <2> QED
      BY <2>1, <2>2, InvitationAssumption DEF InvitationsInit, InvitationsTypeOK, Invitation
  <1>2. InvitationsTypeOK /\ [InvitationsNext]_inviteVars => InvitationsTypeOK'
    BY NextKeeps
  <1> QED
    BY <1>1, <1>2, PTL DEF InvitationsSpec

\* Only a pending invitation is decided and only in time, and no decision is undone,
\* but that a rejected invitation may be marked expired: for any number of inviters,
\* invitations and days, and whatever the allowance and the expiry are set to.
THEOREM DecisionsAreFinal == InvitationsSpec => DecisionStands
  <1> DEFINE Stands == \A i \in DOMAIN invitations :
        LET before == invitations[i].status  after == invitations'[i].status
        IN before # after =>
            \/ before = "pending" /\ (after = "accepted" => ~isExpired(invitations[i]))
            \/ before = "rejected" /\ after = "expired" /\ isExpired(invitations[i])
  <1>1. InvitationsTypeOK /\ [InvitationsNext]_inviteVars => [Stands]_inviteVars
    BY NextKeeps DEF Follows
  <1> QED
    BY <1>1, InvitationsTyped, PTL DEF InvitationsSpec, DecisionStands

------------------------------------------------------------------------------
(* The composition                                                           *)

\* A behaviour of the instances side by side is a behaviour of every component: what is
\* proved of a component, here or in StakingProofs and ConflictResolverProofs, holds in it.
LEMMA ClientIsItsParts ==
    MCSpec => ResolverSpec /\ StakingSpec /\ BackfillSpec /\ GuardSpec /\ InvitationsSpec
  <1>1. MCInit => ResolverInit /\ StakingInit /\ BackfillInit /\ GuardInit /\ InvitationsInit
    BY DEF MCInit
  <1>2. [MCNext]_MCVars => /\ [ResolverNext]_resolverVars /\ [StakingNext]_stakingVars
                           /\ [BackfillNext]_backfillVars /\ [GuardNext]_guardVars
                           /\ [InvitationsNext]_inviteVars
    BY DEF MCNext, MCVars
  <1> QED
    BY <1>1, <1>2, PTL DEF MCSpec, ResolverSpec, StakingSpec, BackfillSpec, GuardSpec,
       InvitationsSpec

\* The variables of all five components keep their types, for any edits, users, records,
\* scopes and inviters.
THEOREM ClientTypesAlways == MCSpec => []ClientTypeOK
  <1>1. StakingInv => StakingTypeOK
    BY DEF StakingInv
  <1>2. StakingSpec => []StakingTypeOK
    BY <1>1, StakingStarts, StakingKeeps, PTL DEF StakingSpec
  <1>3. BackfillInv => BackfillTypeOK
    BY DEF BackfillInv
  <1>4. BackfillSpec => []BackfillTypeOK
    BY <1>3, BackfillStarts, BackfillKeeps, PTL DEF BackfillSpec
  <1>5. GuardInv => GuardTypeOK
    BY DEF GuardInv
  <1>6. GuardSpec => []GuardTypeOK
    BY <1>5, GuardStarts, GuardKeeps, PTL DEF GuardSpec
  <1>7. ResolverTypeOK /\ StakingTypeOK /\ BackfillTypeOK /\ GuardTypeOK /\ InvitationsTypeOK
            => ClientTypeOK
    BY DEF ClientTypeOK
  <1> QED
    BY <1>2, <1>4, <1>6, <1>7, ClientIsItsParts, ResolverTypeCorrect, InvitationsTyped, PTL
==============================================================================
