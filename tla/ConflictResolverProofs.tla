----------------------- MODULE ConflictResolverProofs -----------------------
(***************************************************************************)
(* Proofs about ConflictResolver, for every number of clients, edits, calls  *)
(* and attempts, with or without an applied-operation log, over failing      *)
(* stores and withdrawn access.                                              *)
(***************************************************************************)
EXTENDS ConflictResolver, SequenceTheorems, TLAPS

USE ResolverAssumption, MergeAssumption

------------------------------------------------------------------------------
(* The inductive invariant                                                   *)

\* The snapshot of a call whose version is still the record's version is the record,
\* and the edit has not been applied to it.
ReadInv ==
    \A c \in Calls :
        /\ call[c].version <= Version
        /\ call[c].at \in {"find", "swap"} /\ call[c].version = Version =>
            /\ call[c].value = value
            /\ ~WroteLast(c)
            /\ call[c].at = "swap" /\ store.hook => ~IsApplied(c)

\* A call that is not answered with a success or a storage error has not committed.
AnswerInv ==
    \A c \in Calls :
        /\ call[c].at \in Success => Committed(Identity(c))
        /\ call[c].at \notin Success \cup {"storage_error"} => ~Contains(commits, c)

\* Every attempt but the one under way was refused for somebody's commit, and the
\* record was read after those.
RivalInv ==
    \A c \in Calls :
        /\ call[c].at = "unused" => call[c].attempt = 1
        /\ call[c].began <= Version
        /\ call[c].at \in Awaiting => Version - call[c].began >= call[c].attempt - 1
        /\ call[c].at \in {"find", "swap"} =>
            call[c].version - call[c].began >= call[c].attempt - 1
        /\ call[c].at = "retry_exhausted" => Version - call[c].began >= MaxAttempts

\* Edits of version 0 are edits of Start.
StartInv ==
    /\ Version = 0 => value = Start
    /\ \A e \in Edits : draft[e].version = 0 => draft[e].base = Start

ResolverInv ==
    /\ ResolverTypeOK /\ ReadInv /\ AnswerInv /\ RivalInv /\ StartInv /\ OrderIndependent

------------------------------------------------------------------------------
(* Helpers                                                                   *)

\* A merge of documents is a document.
LEMMA MergeType ==
    ASSUME NEW b \in Document, NEW x \in Document, NEW y \in Document
    PROVE  Merge(b, x, y) \in Document
  BY DEF Merge, MergeLeaf, Document

\* What a commit adds to the log.
LEMMA CommitFacts ==
    ASSUME commits \in Seq(Calls), NEW c \in Calls, commits' = Append(commits, c)
    PROVE  /\ commits' \in Seq(Calls)
           /\ Version' = Version + 1
           /\ Version \in Nat
           /\ commits'[Version + 1] = c
           /\ \A i \in 1..Version : commits'[i] = commits[i]
           /\ \A d \in Calls : Contains(commits', d) <=> Contains(commits, d) \/ d = c
           /\ \A e : Committed(e)' <=> Committed(e) \/ e = Identity(c)
<1>1. /\ commits' \in Seq(Calls) /\ Version' = Version + 1 /\ Version \in Nat
      /\ commits'[Version + 1] = c
      /\ \A i \in 1..Version : commits'[i] = commits[i]
  BY DEF Version
<1>2. DOMAIN commits = 1..Version /\ DOMAIN commits' = 1..(Version + 1)
  BY <1>1 DEF Version
<1>3. 1..(Version + 1) = 1..Version \cup {Version + 1}
  BY <1>1
<1>4. \A d \in Calls : Contains(commits', d) <=> Contains(commits, d) \/ d = c
  BY <1>1, <1>3 DEF Contains, Version
<1>5. \A e : Committed(e)' <=> Committed(e) \/ e = Identity(c)
  BY <1>1, <1>2, <1>3 DEF Committed, Identity
<1> QED
  BY <1>1, <1>4, <1>5

\* What the invariant asks of the record r of a call c that is under way or answered.
RecordOK(c, r) ==
    /\ r \in Call
    /\ r.version <= Version
    /\ r.at \in {"find", "swap"} /\ r.version = Version =>
        /\ r.value = value
        /\ ~WroteLast(c)
        /\ r.at = "swap" /\ store.hook => ~IsApplied(c)
    /\ r.at \in Success => Committed(Identity(c))
    /\ r.at \notin Success \cup {"storage_error"} => ~Contains(commits, c)
    /\ r.at # "unused"
    /\ r.began <= Version
    /\ r.at \in Awaiting => Version - r.began >= r.attempt - 1
    /\ r.at \in {"find", "swap"} => r.version - r.began >= r.attempt - 1
    /\ r.at = "retry_exhausted" => Version - r.began >= MaxAttempts

\* A step of a call that leaves the record and the drafts alone.
LEMMA CallStep ==
    ASSUME ResolverInv, NEW c \in Calls, NEW r,
           call' = [call EXCEPT ![c] = r], UNCHANGED <<store, value, commits, draft, allowed>>,
           RecordOK(c, r)
    PROVE  ResolverInv'
<1>1. call \in [Calls -> Call] /\ r \in Call
  BY DEF ResolverInv, ResolverTypeOK, RecordOK
<1>2. /\ call'[c] = r
      /\ \A d \in Calls \ {c} : call'[d] = call[d]
      /\ call' \in [Calls -> Call]
  BY <1>1
<1>3. Version' = Version /\ \A e : Committed(e)' <=> Committed(e)
  BY DEF Version, Committed, Identity
<1>4. \A d \in Calls : /\ WroteLast(d)' <=> WroteLast(d)
                       /\ IsApplied(d)' <=> IsApplied(d)
                       /\ Contains(commits', d) <=> Contains(commits, d)
  BY <1>3 DEF WroteLast, IsApplied, Identity
<1>5. ResolverTypeOK'
  BY <1>2 DEF ResolverInv, ResolverTypeOK
<1>6. ReadInv'
  BY <1>2, <1>3, <1>4 DEF ResolverInv, ReadInv, RecordOK
<1>7. AnswerInv'
  BY <1>2, <1>3, <1>4 DEF ResolverInv, AnswerInv, Identity, RecordOK
<1>8. RivalInv'
  BY <1>2, <1>3 DEF ResolverInv, RivalInv, RecordOK
<1>9. StartInv' /\ OrderIndependent'
  BY <1>3 DEF ResolverInv, StartInv, OrderIndependent, Changes
<1> QED
  BY <1>5, <1>6, <1>7, <1>8, <1>9 DEF ResolverInv

------------------------------------------------------------------------------
(* The steps                                                                 *)

\* A record that differs from a call's in where the call is.
LEMMA GoesRecord ==
    ASSUME call \in [Calls -> Call], NEW c \in Calls, NEW at, Goes(c, at),
           at \in {"unused"} \cup Awaiting \cup Success \cup Failure
    PROVE  \E r \in Call :
              /\ call' = [call EXCEPT ![c] = r]
              /\ r.at = at /\ r.attempt = call[c].attempt /\ r.version = call[c].version
              /\ r.value = call[c].value /\ r.began = call[c].began
<1>1. call[c] \in Call
  OBVIOUS
<1>2. [call[c] EXCEPT !.at = at] \in Call
  BY <1>1 DEF Call
<1>3. call' = [call EXCEPT ![c] = [call[c] EXCEPT !.at = at]]
  BY DEF Goes
<1> QED
  BY <1>1, <1>2, <1>3 DEF Call

\* A call that ends without a commit keeps the invariant.
LEMMA GoesKeeps ==
    ASSUME ResolverInv, NEW c \in Calls, call[c].at \in Awaiting,
           NEW at \in {"unauthorized", "authorization_error", "storage_error", "read"}
                      \cup Success,
           at \in Success => Committed(Identity(c)),
           Goes(c, at), UNCHANGED <<store, value, commits, draft, allowed>>
    PROVE  ResolverInv'
<1>1. call \in [Calls -> Call] /\ allowed \in BOOLEAN /\ Version \in Nat
  BY DEF ResolverInv, ResolverTypeOK, Version
<1>2. at \in {"unused"} \cup Awaiting \cup Success \cup Failure
  BY DEF Awaiting, Success, Failure
<1>3. PICK r \in Call :
        /\ call' = [call EXCEPT ![c] = r]
        /\ r.at = at /\ r.attempt = call[c].attempt /\ r.version = call[c].version
        /\ r.value = call[c].value /\ r.began = call[c].began
  BY <1>1, <1>2, GoesRecord
<1>4. r.version <= Version /\ r.began <= Version /\ r.at \notin {"find", "swap"}
      /\ r.at # "unused" /\ r.at # "retry_exhausted"
  BY <1>3 DEF ResolverInv, ReadInv, RivalInv, Success
<1>5. ~Contains(commits, c)
  BY DEF ResolverInv, AnswerInv, Awaiting, Success
<1>6. Version - r.began >= r.attempt - 1
  BY <1>3 DEF ResolverInv, RivalInv
<1>7. RecordOK(c, r)
  BY <1>3, <1>4, <1>5, <1>6 DEF RecordOK
<1> QED
  BY <1>3, <1>7, CallStep

\* MakeDraft keeps the invariant: a draft of version 0 is one of Start.
LEMMA DraftKeeps ==
    ASSUME ResolverInv, NEW e \in Edits, MakeDraft(e)
    PROVE  ResolverInv'
<1>1. PICK doc \in Document : draft' = [draft EXCEPT
        ![e] = [made |-> TRUE, version |-> Version, base |-> value, value |-> doc]]
  BY DEF MakeDraft
<1>2. /\ draft \in [Edits -> Draft] /\ value \in Document /\ Version \in Nat
      /\ UNCHANGED <<store, value, commits, allowed, call>>
  BY DEF MakeDraft, ResolverInv, ResolverTypeOK, Version
<1>3. /\ draft' \in [Edits -> Draft]
      /\ draft'[e].version = Version /\ draft'[e].base = value
      /\ \A d \in Edits \ {e} : draft'[d] = draft[d]
  BY <1>1, <1>2 DEF Draft
<1>4. Version' = Version /\ \A x : Committed(x)' <=> Committed(x)
  BY <1>2 DEF Version, Committed, Identity
<1>5. ResolverTypeOK'
  BY <1>2, <1>3 DEF ResolverInv, ResolverTypeOK
<1>6. ReadInv' /\ AnswerInv' /\ RivalInv'
  BY <1>2, <1>4 DEF ResolverInv, ReadInv, AnswerInv, RivalInv, WroteLast, IsApplied, Identity
<1>7. StartInv'
  BY <1>2, <1>3, <1>4 DEF ResolverInv, StartInv
<1>8. OrderIndependent'
  <2>1. CASE Version = 0
    <3>1. \A x : ~Committed(x)
      BY <2>1 DEF Committed, Version, ResolverInv, ResolverTypeOK
    <3>2. \A p \in Paths : Changes(p)' = {} /\ value'[p] = Start[p]
      BY <1>2, <1>4, <2>1, <3>1 DEF Changes, ResolverInv, StartInv
    <3> QED
      BY <3>2 DEF OrderIndependent
  <2>2. CASE Version # 0
    BY <1>3, <2>2 DEF OrderIndependent
  <2> QED
    BY <2>1, <2>2
<1> QED
  BY <1>5, <1>6, <1>7, <1>8 DEF ResolverInv

LEMMA SubmitKeeps ==
    ASSUME ResolverInv, NEW c \in Calls, Submit(c)
    PROVE  ResolverInv'
<1>1. call \in [Calls -> Call] /\ allowed \in BOOLEAN /\ Version \in Nat
  BY DEF ResolverInv, ResolverTypeOK, Version
<1> DEFINE r == [call[c] EXCEPT !.at = "authorize", !.began = Version]
<1>2. call' = [call EXCEPT ![c] = r] /\ UNCHANGED <<store, value, commits, draft, allowed>>
  BY DEF Submit
<1>3. /\ r \in Call /\ r.at = "authorize" /\ r.began = Version
      /\ r.attempt = call[c].attempt /\ r.version = call[c].version
  BY <1>1 DEF Call, Awaiting
<1>4. call[c].attempt = 1 /\ call[c].version <= Version /\ ~Contains(commits, c)
  BY DEF ResolverInv, RivalInv, ReadInv, AnswerInv, Submit, Success
<1>5. r.at \in Awaiting /\ r.at \notin Success
  BY <1>3 DEF Awaiting, Success
<1> HIDE DEF r
<1>6. RecordOK(c, r)
  BY <1>1, <1>3, <1>4, <1>5 DEF RecordOK
<1> QED
  BY <1>2, <1>6, CallStep

\* The read keeps the invariant: the snapshot is the record.
LEMMA ReadKeeps ==
    ASSUME ResolverInv, NEW c \in Calls, Read(c)
    PROVE  ResolverInv'
<1>1. call \in [Calls -> Call] /\ allowed \in BOOLEAN /\ value \in Document /\ Version \in Nat
  BY DEF ResolverInv, ResolverTypeOK, Version
<1>2. call[c].at = "read" /\ call[c].at \in Awaiting
      /\ UNCHANGED <<store, value, commits, draft, allowed>>
  BY DEF Read, Awaiting
<1>3. CASE WroteLast(c) /\ Goes(c, "already_applied")
  <2>1. Committed(Identity(c))
    BY <1>1, <1>3 DEF WroteLast, Committed, Version, Identity
  <2> QED
    BY <1>2, <1>3, <2>1, GoesKeeps DEF Success
<1>4. CASE ~WroteLast(c) /\ call' = [call EXCEPT ![c] =
              [Snapshot(c) EXCEPT !.at = IF store.hook THEN "find" ELSE "swap"]]
  <2> DEFINE r == [Snapshot(c) EXCEPT !.at = IF store.hook THEN "find" ELSE "swap"]
  <2>1. /\ r \in Call /\ r.at = (IF store.hook THEN "find" ELSE "swap")
        /\ r.version = Version /\ r.value = value
        /\ r.attempt = call[c].attempt /\ r.began = call[c].began
    BY <1>1 DEF Snapshot, Call, Awaiting
  <2>2. /\ r.at \in Awaiting /\ r.at \notin Success /\ r.at # "unused"
        /\ r.at # "retry_exhausted" /\ (r.at = "swap" => ~store.hook)
    BY <2>1 DEF Awaiting, Success
  <2>3. ~Contains(commits, c) /\ r.began <= Version /\ Version - r.began >= r.attempt - 1
    BY <1>2, <2>1 DEF ResolverInv, AnswerInv, RivalInv, Success
  <2>4. call' = [call EXCEPT ![c] = r]
    BY <1>4
  <2> HIDE DEF r
  <2>5. RecordOK(c, r)
    BY <1>1, <1>4, <2>1, <2>2, <2>3 DEF RecordOK
  <2> QED
    BY <1>2, <2>4, <2>5, CallStep
<1> QED
  BY <1>3, <1>4 DEF Read

\* The look-up keeps the invariant: an edit that is in the log goes no further.
LEMMA FindKeeps ==
    ASSUME ResolverInv, NEW c \in Calls, Find(c)
    PROVE  ResolverInv'
<1>1. call \in [Calls -> Call] /\ allowed \in BOOLEAN /\ Version \in Nat
  BY DEF ResolverInv, ResolverTypeOK, Version
<1>2. call[c].at = "find" /\ call[c].at \in Awaiting
      /\ UNCHANGED <<store, value, commits, draft, allowed>>
  BY DEF Find, Awaiting
<1>3. CASE IsApplied(c)
  <2>1. Goes(c, "already_applied") /\ Committed(Identity(c))
    BY <1>3 DEF Find, IsApplied, Committed
  <2> QED
    BY <1>2, <2>1, GoesKeeps DEF Success
<1>4. CASE ~IsApplied(c)
  <2>1. Goes(c, "swap") /\ "swap" \in Awaiting
    BY <1>4 DEF Find, Awaiting
  <2>2. PICK r \in Call :
          /\ call' = [call EXCEPT ![c] = r]
          /\ r.at = "swap" /\ r.attempt = call[c].attempt /\ r.version = call[c].version
          /\ r.value = call[c].value /\ r.began = call[c].began
    BY <1>1, <2>1, GoesRecord
  <2>3. /\ r.version <= Version
        /\ r.version = Version => r.value = value /\ ~WroteLast(c)
    BY <1>2, <2>2 DEF ResolverInv, ReadInv
  <2>4. /\ r.began <= Version /\ Version - r.began >= r.attempt - 1
        /\ r.version - r.began >= r.attempt - 1
    BY <1>2, <2>2 DEF ResolverInv, RivalInv
  <2>5. ~Contains(commits, c) /\ r.at \notin Success
    BY <1>2, <2>2 DEF ResolverInv, AnswerInv, Success
  <2>6. RecordOK(c, r)
    BY <1>1, <1>4, <2>2, <2>3, <2>4, <2>5 DEF RecordOK
  <2> QED
    BY <1>2, <2>2, <2>6, CallStep
<1> QED
  BY <1>3, <1>4

\* A refused swap keeps the invariant: the rival's commit pays for the attempt.
LEMMA RefusedKeeps ==
    ASSUME ResolverInv, NEW c \in Calls, Refused(c)
    PROVE  ResolverInv'
<1>1. call \in [Calls -> Call] /\ allowed \in BOOLEAN /\ Version \in Nat
  BY DEF ResolverInv, ResolverTypeOK, Version
<1>2. /\ call[c] \in Call /\ call[c].at = "swap" /\ call[c].version # Version
      /\ UNCHANGED <<store, value, commits, draft, allowed>>
  BY <1>1 DEF Refused, Swaps
<1>3. /\ call[c].version \in Nat /\ call[c].began \in Nat /\ call[c].attempt \in 1..MaxAttempts
  BY <1>2 DEF Call
<1>4. /\ call[c].version < Version /\ call[c].began <= Version
      /\ Version - call[c].began >= call[c].attempt
  BY <1>1, <1>2, <1>3 DEF ResolverInv, ReadInv, RivalInv
<1>5. ~Contains(commits, c)
  BY <1>2 DEF ResolverInv, AnswerInv, Success
<1>6. CASE call[c].attempt < MaxAttempts
  <2> DEFINE r == [call[c] EXCEPT !.at = "authorize", !.attempt = @ + 1]
  <2>1. call' = [call EXCEPT ![c] = r]
    BY <1>6 DEF Refused
  <2>2. /\ r \in Call /\ r.at = "authorize" /\ r.attempt = call[c].attempt + 1
        /\ r.version = call[c].version /\ r.began = call[c].began
    <3>1. call[c].attempt + 1 \in 1..MaxAttempts
      BY <1>3, <1>6
    <3> QED
      BY <1>2, <3>1 DEF Call, Awaiting
  <2>3. r.at \notin Success
    BY <2>2 DEF Success
  <2> HIDE DEF r
  <2>4. RecordOK(c, r)
    BY <1>1, <1>3, <1>4, <1>5, <2>2, <2>3 DEF RecordOK
  <2> QED
    BY <1>2, <2>1, <2>4, CallStep
<1>7. CASE ~(call[c].attempt < MaxAttempts)
  <2>1. Goes(c, "retry_exhausted") /\ call[c].attempt = MaxAttempts
    BY <1>3, <1>7 DEF Refused
  <2>2. PICK r \in Call :
          /\ call' = [call EXCEPT ![c] = r]
          /\ r.at = "retry_exhausted" /\ r.attempt = call[c].attempt
          /\ r.version = call[c].version
          /\ r.value = call[c].value /\ r.began = call[c].began
    BY <1>1, <2>1, GoesRecord DEF Failure
  <2>3. r.at \notin Success /\ r.at \notin Awaiting
    BY <2>2 DEF Success, Awaiting
  <2>4. RecordOK(c, r)
    BY <1>1, <1>3, <1>4, <1>5, <2>1, <2>2, <2>3 DEF RecordOK
  <2> QED
    BY <1>2, <2>2, <2>4, CallStep
<1> QED
  BY <1>6, <1>7
\* A commit keeps the invariant: the merge is with the record that the log's last
\* entry left.
LEMMA CommitKeeps ==
    ASSUME ResolverInv, NEW c \in Calls, Commit(c)
    PROVE  ResolverInv'
<1> DEFINE e == Identity(c)
<1>1. /\ call \in [Calls -> Call] /\ commits \in Seq(Calls) /\ value \in Document
      /\ draft \in [Edits -> Draft] /\ e \in Edits /\ Start \in Document
      /\ store \in Stores /\ allowed \in BOOLEAN
  BY DEF ResolverInv, ResolverTypeOK, Identity
<1>2. /\ call[c].at = "swap" /\ call[c].version = Version /\ call[c].value = value
      /\ commits' = Append(commits, c)
      /\ value' = Merge(draft[e].base, value, draft[e].value)
      /\ UNCHANGED <<store, draft, allowed>>
  BY DEF Commit, Swaps, ResolverInv, ReadInv
<1>3. /\ commits' \in Seq(Calls) /\ Version' = Version + 1 /\ Version \in Nat
      /\ \A d \in Calls : Contains(commits', d) <=> Contains(commits, d) \/ d = c
      /\ \A x : Committed(x)' <=> Committed(x) \/ x = e
  BY <1>1, <1>2, CommitFacts
<1>4. PICK r \in Call :
        /\ call' = [call EXCEPT ![c] = r]
        /\ r.at \in {"applied", "storage_error"} /\ r.attempt = call[c].attempt
        /\ r.version = call[c].version /\ r.began = call[c].began
  <2>1. PICK at \in {"applied", "storage_error"} : Goes(c, at)
    BY DEF Commit
  <2>2. at \in {"unused"} \cup Awaiting \cup Success \cup Failure
    BY DEF Success, Failure
  <2> QED
    BY <1>1, <2>1, <2>2, GoesRecord
<1>5. /\ call' \in [Calls -> Call] /\ call'[c] = r
      /\ \A d \in Calls \ {c} : call'[d] = call[d]
  BY <1>1, <1>4
<1>6. /\ r.at \notin {"find", "swap", "unused", "retry_exhausted"} /\ r.at \notin Awaiting
      /\ r.at \in Success \cup {"storage_error"}
  BY <1>4 DEF Awaiting, Success
<1>7. draft[e] \in Draft /\ draft[e].base \in Document /\ draft[e].value \in Document
  BY <1>1 DEF Draft
<1>8. ResolverTypeOK'
  BY <1>1, <1>2, <1>3, <1>5, <1>7, MergeType DEF ResolverTypeOK
<1>9. \A d \in Calls : /\ call[d].version \in Nat /\ call[d].version <= Version
                      /\ call[d].began \in Nat /\ call[d].began <= Version
                      /\ call[d].attempt \in Nat
  BY <1>1 DEF Call, ResolverInv, ReadInv, RivalInv
<1>10. ReadInv'
  <2>1. SUFFICES ASSUME NEW d \in Calls
                 PROVE  /\ call'[d].version # Version'
                        /\ call'[d].version <= Version'
    BY DEF ReadInv
  <2> QED
    BY <1>2, <1>3, <1>4, <1>5, <1>9
<1>11. AnswerInv'
  BY <1>3, <1>5, <1>6 DEF ResolverInv, AnswerInv, Identity
<1>12. RivalInv'
  <2>1. SUFFICES ASSUME NEW d \in Calls
                 PROVE  /\ call'[d].at = "unused" => call'[d].attempt = 1
                        /\ call'[d].began <= Version'
                        /\ call'[d].at \in Awaiting =>
                             Version' - call'[d].began >= call'[d].attempt - 1
                        /\ call'[d].at \in {"find", "swap"} =>
                             call'[d].version - call'[d].began >= call'[d].attempt - 1
                        /\ call'[d].at = "retry_exhausted" =>
                             Version' - call'[d].began >= MaxAttempts
    BY DEF RivalInv
  <2>2. CASE d = c
    BY <1>3, <1>4, <1>5, <1>6, <1>9, <2>2
  <2>3. CASE d # c
    BY <1>3, <1>5, <1>9, <2>3 DEF ResolverInv, RivalInv
  <2> QED
    BY <2>2, <2>3
<1>13. StartInv'
  BY <1>2, <1>3 DEF ResolverInv, StartInv
<1>14. OrderIndependent'
  <2>1. SUFFICES ASSUME \A d \in Edits : draft[d].version = 0, NEW p \in Paths
                 PROVE  IF Changes(p)' = {} THEN value'[p] = Start[p]
                        ELSE /\ value'[p] \in Changes(p)'
                             /\ \A v \in Changes(p)' : v <= value'[p]
    BY <1>2 DEF OrderIndependent
  <2> DEFINE new == draft[e].value[p]
             Old == Changes(p)
  <2>2. IF Old = {} THEN value[p] = Start[p]
        ELSE value[p] \in Old /\ \A v \in Old : v <= value[p]
    BY <2>1 DEF ResolverInv, OrderIndependent
  <2>3. /\ value'[p] = MergeLeaf(Start[p], value[p], new)
        /\ new \in Int /\ value[p] \in Int /\ Start[p] \in Int
    <3>1. draft[e].base = Start
      BY <1>1, <2>1 DEF ResolverInv, StartInv
    <3> QED
      BY <1>1, <1>2, <1>7, <3>1 DEF Merge, Document, Leaf, MISSING
  <2>4. Changes(p)' = IF new = Start[p] THEN Old ELSE Old \cup {new}
    BY <1>1, <1>2, <1>3 DEF Changes
  <2>5. \A v \in Old : v \in Int /\ v # Start[p]
    BY <1>1 DEF Changes, Draft, Document, Leaf, MISSING
  <2> HIDE DEF new, Old
  <2> QED
    BY <2>2, <2>3, <2>4, <2>5 DEF MergeLeaf
<1> QED
  BY <1>8, <1>10, <1>11, <1>12, <1>13, <1>14 DEF ResolverInv

\* An answered authorization keeps the invariant, and so does a failed one.
LEMMA AuthorizeKeeps ==
    ASSUME ResolverInv, NEW c \in Calls, Authorize(c) \/ AuthorizeFails(c)
    PROVE  ResolverInv'
<1>1. call[c].at \in Awaiting /\ UNCHANGED <<store, value, commits, draft, allowed>>
  BY DEF Authorize, AuthorizeFails, Awaiting
<1>2. PICK at \in {"unauthorized", "authorization_error", "read"} : Goes(c, at)
  BY DEF Authorize, AuthorizeFails
<1>3. at \notin Success
  BY DEF Success
<1> QED
  BY <1>1, <1>2, <1>3, GoesKeeps

\* A storage error keeps the invariant.
LEMMA StorageFailsKeeps ==
    ASSUME ResolverInv, NEW c \in Calls, StorageFails(c)
    PROVE  ResolverInv'
<1>1. call[c].at \in Awaiting /\ UNCHANGED <<store, value, commits, draft, allowed>>
  BY DEF StorageFails, Awaiting
<1>2. Goes(c, "storage_error") /\ "storage_error" \notin Success
  BY DEF StorageFails, Success
<1> QED
  BY <1>1, <1>2, GoesKeeps

\* The invariant depends on the access only through its type.
LEMMA AccessKeeps ==
    ASSUME ResolverInv, UNCHANGED <<store, value, commits, draft, call>>,
           allowed' \in BOOLEAN
    PROVE  ResolverInv'
<1>1. /\ Version' = Version
      /\ \A x : Committed(x)' <=> Committed(x)
      /\ \A d \in Calls : /\ WroteLast(d)' <=> WroteLast(d)
                          /\ IsApplied(d)' <=> IsApplied(d)
                          /\ Contains(commits', d) <=> Contains(commits, d)
  BY DEF Version, Committed, WroteLast, IsApplied, Identity
<1>2. ResolverTypeOK'
  BY DEF ResolverInv, ResolverTypeOK
<1>3. ReadInv' /\ AnswerInv' /\ RivalInv'
  BY <1>1 DEF ResolverInv, ReadInv, AnswerInv, RivalInv, Identity
<1>4. StartInv' /\ OrderIndependent'
  BY <1>1 DEF ResolverInv, StartInv, OrderIndependent, Changes
<1> QED
  BY <1>2, <1>3, <1>4 DEF ResolverInv

LEMMA InitInv == ResolverInit => ResolverInv
<1> SUFFICES ASSUME ResolverInit PROVE ResolverInv
  OBVIOUS
<1>1. Version = 0 /\ DOMAIN commits = {} /\ \A c \in Calls : ~Contains(commits, c)
  BY DEF ResolverInit, Version, Contains
<1>2. ResolverTypeOK
  <2>1. NotDrafted \in Draft
    BY DEF NotDrafted, Draft
  <2>2. [at |-> "unused", attempt |-> 1, version |-> 0, value |-> Start, began |-> 0] \in Call
    BY DEF Call
  <2> QED
    BY <2>1, <2>2 DEF ResolverTypeOK, ResolverInit
<1>3. ReadInv /\ AnswerInv /\ RivalInv
  BY <1>1 DEF ResolverInit, ReadInv, AnswerInv, RivalInv, Awaiting, Success
<1>4. StartInv
  BY <1>1 DEF ResolverInit, StartInv, NotDrafted
<1>5. OrderIndependent
  BY <1>1 DEF ResolverInit, OrderIndependent, Changes, Committed
<1> QED
  BY <1>2, <1>3, <1>4, <1>5 DEF ResolverInv

LEMMA NextInv == ResolverInv /\ [ResolverNext]_resolverVars => ResolverInv'
<1> SUFFICES ASSUME ResolverInv, [ResolverNext]_resolverVars
             PROVE  ResolverInv'
  OBVIOUS
<1>1. allowed \in BOOLEAN
  BY DEF ResolverInv, ResolverTypeOK
<1>2. CASE \E e \in Edits : MakeDraft(e)
  BY <1>2, DraftKeeps
<1>3. CASE Revoke
  BY <1>3, AccessKeeps DEF Revoke
<1>4. ASSUME NEW c \in Calls,
             Submit(c) \/ Authorize(c) \/ AuthorizeFails(c) \/ Read(c) \/ Find(c)
             \/ Commit(c) \/ Refused(c) \/ StorageFails(c)
      PROVE  ResolverInv'
  BY <1>4, SubmitKeeps, AuthorizeKeeps, ReadKeeps, FindKeeps, CommitKeeps, RefusedKeeps,
     StorageFailsKeeps
<1>5. CASE UNCHANGED resolverVars
  BY <1>1, <1>5, AccessKeeps DEF resolverVars
<1> QED
  BY <1>2, <1>3, <1>4, <1>5 DEF ResolverNext

LEMMA ResolverInvariant == ResolverSpec => []ResolverInv
  BY InitInv, NextInv, PTL DEF ResolverSpec

------------------------------------------------------------------------------
(* Theorems                                                                  *)

\* The variables of the resolver keep their types.
THEOREM ResolverTypeCorrect == ResolverSpec => []ResolverTypeOK
<1>1. ResolverInv => ResolverTypeOK
  BY DEF ResolverInv
<1> QED
  BY <1>1, ResolverInvariant, PTL

\* Edits of one version leave the greatest of their values, whatever their order, their
\* attempts and their repetitions.
THEOREM ArrivalOrderIsIrrelevant == ResolverSpec => []OrderIndependent
<1>1. ResolverInv => OrderIndependent
  BY DEF ResolverInv
<1> QED
  BY <1>1, ResolverInvariant, PTL

\* An answer of success means the edit was committed, and one of refusal or exhaustion
\* that the call committed nothing.
THEOREM AnswersAreTruthful == ResolverSpec => []TruthfulAnswer
<1>1. ResolverInv => TruthfulAnswer
  BY DEF ResolverInv, AnswerInv, TruthfulAnswer, Success, Failure
<1> QED
  BY <1>1, ResolverInvariant, PTL

\* Attempts run out only when as many rivals committed during the call.
THEOREM ExhaustionIsContention == ResolverSpec => []ExhaustionNeedsRivals
<1>1. ResolverInv => ExhaustionNeedsRivals
  BY DEF ResolverInv, RivalInv, ExhaustionNeedsRivals
<1> QED
  BY <1>1, ResolverInvariant, PTL

\* Two edits of one version may be merged into any record in either order: what
\* docs/conflict-resolution.md:19 claims of the conflict rule, for all documents.
THEOREM MergesCommute ==
    ASSUME NEW b \in Document, NEW x \in Document, NEW y \in Document, NEW z \in Document
    PROVE  Merge(b, Merge(b, x, y), z) = Merge(b, Merge(b, x, z), y)
<1>1. ASSUME NEW p \in Paths
      PROVE  MergeLeaf(b[p], MergeLeaf(b[p], x[p], y[p]), z[p])
             = MergeLeaf(b[p], MergeLeaf(b[p], x[p], z[p]), y[p])
  <2>1. b[p] \in Int /\ x[p] \in Int /\ y[p] \in Int /\ z[p] \in Int
    BY MergeAssumption DEF Document, Leaf, MISSING
  <2> QED
    BY <2>1 DEF MergeLeaf
<1> QED
  BY <1>1 DEF Merge

------------------------------------------------------------------------------
(* The resolver implements AtomicEdits                                       *)

Log == [i \in DOMAIN commits |-> Identity(commits[i])]
Bases == [e \in Edits |-> draft[e].base]
Proposals == [e \in Edits |-> draft[e].value]

LEMMA FunctionIsSeq ==
    ASSUME NEW S, NEW n \in Nat, NEW f \in [1..n -> S]
    PROVE  f \in Seq(S) /\ Len(f) = n
  OBVIOUS

\* A sequence that continues s by x is Append(s, x).
LEMMA AppendIs ==
    ASSUME NEW S, NEW s \in Seq(S), NEW x \in S, NEW t \in Seq(S),
           Len(t) = Len(s) + 1, t[Len(s) + 1] = x, \A i \in 1..Len(s) : t[i] = s[i]
    PROVE  t = Append(s, x)
<1>1. Len(s) \in Nat /\ Append(s, x) \in Seq(S) /\ Len(Append(s, x)) = Len(t)
  OBVIOUS
<1>2. \A i \in 1..Len(t) : t[i] = Append(s, x)[i]
  <2>1. SUFFICES ASSUME NEW i \in 1..Len(t) PROVE t[i] = Append(s, x)[i]
    OBVIOUS
  <2>2. CASE i \in 1..Len(s)
    BY <2>2
  <2>3. CASE i = Len(s) + 1
    BY <2>3
  <2> QED
    BY <1>1, <2>2, <2>3
<1> QED
  BY <1>1, <1>2, SeqEqual

\* A commit appends its edit to the log.
LEMMA LogGrows ==
    ASSUME commits \in Seq(Calls), NEW c \in Calls, commits' = Append(commits, c)
    PROVE  Log' = Append(Log, Identity(c))
<1>1. /\ commits' \in Seq(Calls) /\ Version' = Version + 1 /\ Version \in Nat
      /\ commits'[Version + 1] = c
      /\ \A i \in 1..Version : commits'[i] = commits[i]
  BY CommitFacts
<1>2. DOMAIN commits = 1..Version /\ DOMAIN commits' = 1..(Version + 1)
  BY <1>1 DEF Version
<1>3. Log \in Seq(Edits) /\ Len(Log) = Version
  BY <1>1, <1>2 DEF Log, Identity
<1>4. /\ Log' \in Seq(Edits) /\ Len(Log') = Version + 1
      /\ Log'[Version + 1] = Identity(c)
      /\ \A i \in 1..Version : Log'[i] = Log[i]
  <2>1. /\ Log' = [i \in 1..(Version + 1) |-> EditOf[commits'[i]]]
        /\ \A i \in 1..Version : Log[i] = EditOf[commits[i]]
    BY <1>2 DEF Log, Identity
  <2>2. \A i \in 1..(Version + 1) : EditOf[commits'[i]] \in Edits
    BY <1>1, <1>2
  <2>3. Log' \in Seq(Edits) /\ Len(Log') = Version + 1
    <3>1. Log' \in [1..(Version + 1) -> Edits]
      BY <2>1, <2>2
    <3>2. Version + 1 \in Nat
      BY <1>1
    <3> QED
      BY <3>1, <3>2, FunctionIsSeq
  <2>4. Version + 1 \in 1..(Version + 1) /\ 1..Version \subseteq 1..(Version + 1)
    BY <1>1
  <2> QED
    BY <1>1, <2>1, <2>3, <2>4 DEF Identity
<1>5. Identity(c) \in Edits
  BY DEF Identity
<1> QED
  BY <1>3, <1>4, <1>5, AppendIs

\* A commit is an Apply: the edit is not in a log that the store keeps, and is not the
\* last one in any case.
LEMMA CommitApplies ==
    ASSUME ResolverInv, NEW c \in Calls, Commit(c)
    PROVE  Atomic!Apply(Identity(c))
<1>1. /\ call \in [Calls -> Call] /\ commits \in Seq(Calls)
      /\ draft \in [Edits -> Draft] /\ Identity(c) \in Edits
  BY DEF ResolverInv, ResolverTypeOK, Identity
<1>2. /\ call[c].at = "swap" /\ call[c].version = Version /\ call[c].value = value
      /\ ~WroteLast(c) /\ (store.hook => ~IsApplied(c))
      /\ commits' = Append(commits, c)
      /\ value' = Merge(draft[Identity(c)].base, value, draft[Identity(c)].value)
      /\ UNCHANGED <<store, draft, allowed>>
  BY DEF Commit, Swaps, ResolverInv, ReadInv
<1>3. DOMAIN commits = 1..Version /\ Version \in Nat
  BY <1>1 DEF Version
<1>4. Log \in Seq(Edits) /\ Len(Log) = Version
      /\ \A i \in 1..Version : Log[i] = Identity(commits[i])
  BY <1>1, <1>3 DEF Log, Identity
<1>5. store.hook => ~Contains(Log, Identity(c))
  BY <1>2, <1>3, <1>4 DEF Contains, IsApplied
<1>6. Log = <<>> \/ Last(Log) # Identity(c)
  <2>1. CASE Version = 0
    BY <1>4, <2>1
  <2>2. CASE Version > 0
    BY <1>2, <1>3, <1>4, <2>2 DEF Last, WroteLast
  <2> QED
    BY <1>3, <2>1, <2>2
<1>7. value' = Merge(Bases[Identity(c)], value, Proposals[Identity(c)])
  BY <1>1, <1>2 DEF Bases, Proposals
<1>8. Log' = Append(Log, Identity(c))
  BY <1>1, <1>2, LogGrows
<1>9. store.hook' = store.hook /\ Bases' = Bases /\ Proposals' = Proposals
  BY <1>2 DEF Bases, Proposals
<1> QED
  BY <1>5, <1>6, <1>7, <1>8, <1>9
  DEF Atomic!Apply, Atomic!MayApply, Log, Bases, Proposals, Contains, Last,
      Atomic!Contains, Atomic!Last, Atomic!Merge, Atomic!MergeLeaf, Merge, MergeLeaf

\* MakeDraft is a Propose.
LEMMA DraftProposes ==
    ASSUME ResolverInv, NEW e \in Edits, MakeDraft(e)
    PROVE  Atomic!Propose(e)
<1>1. PICK doc \in Document : draft' = [draft EXCEPT
        ![e] = [made |-> TRUE, version |-> Version, base |-> value, value |-> doc]]
  BY DEF MakeDraft
<1>2. /\ draft \in [Edits -> Draft]
      /\ UNCHANGED <<store, value, commits, allowed, call>>
  BY DEF MakeDraft, ResolverInv, ResolverTypeOK
<1>3. Bases' = [Bases EXCEPT ![e] = value]
  BY <1>1, <1>2 DEF Bases
<1>4. Proposals' = [Proposals EXCEPT ![e] = doc]
  BY <1>1, <1>2 DEF Proposals
<1>5. Log' = Log /\ store.hook' = store.hook /\ value' = value
  BY <1>2 DEF Log, Identity
<1> QED
  BY <1>3, <1>4, <1>5
  DEF Atomic!Propose, Atomic!Document, Atomic!Leaf, Document, Leaf, MISSING, Atomic!MISSING,
      Log, Bases, Proposals

\* The other steps leave the log, the record and the drafts alone.
LEMMA OthersStutter ==
    ASSUME UNCHANGED <<store, value, commits, draft>>
    PROVE  UNCHANGED Atomic!editVars
  BY DEF Atomic!editVars, Identity

LEMMA StepRefines ==
    ASSUME ResolverInv, [ResolverNext]_resolverVars
    PROVE  [Atomic!Next]_Atomic!editVars
<1>1. ASSUME NEW e \in Edits, MakeDraft(e)
      PROVE  Atomic!Next
  BY <1>1, DraftProposes DEF Atomic!Next
<1>2. ASSUME NEW c \in Calls, Commit(c)
      PROVE  Atomic!Next
  <2>1. Identity(c) \in Edits
    BY DEF Identity
  <2> QED
    BY <1>2, <2>1, CommitApplies DEF Atomic!Next
<1>3. CASE Revoke
  BY <1>3, OthersStutter DEF Revoke
<1>4. ASSUME NEW c \in Calls,
             Submit(c) \/ Authorize(c) \/ AuthorizeFails(c) \/ Read(c) \/ Find(c)
             \/ Refused(c) \/ StorageFails(c)
      PROVE  UNCHANGED Atomic!editVars
  BY <1>4, OthersStutter
  DEF Submit, Authorize, AuthorizeFails, Read, Find, Refused, StorageFails
<1>5. CASE UNCHANGED resolverVars
  BY <1>5, OthersStutter DEF resolverVars
<1> QED
  BY <1>1, <1>2, <1>3, <1>4, <1>5 DEF ResolverNext

LEMMA InitRefines == ResolverInit => Atomic!Init
<1> SUFFICES ASSUME ResolverInit PROVE Atomic!Init
  OBVIOUS
<1>1. store.hook \in BOOLEAN
  BY DEF ResolverInit, Store
<1>2. DOMAIN commits = {}
  BY DEF ResolverInit
<1>3. Log = <<>>
  BY <1>2 DEF Log
<1>4. Bases = [e \in Edits |-> Start] /\ Proposals = [e \in Edits |-> Start]
  BY DEF ResolverInit, NotDrafted, Bases, Proposals
<1> QED
  BY <1>1, <1>3, <1>4 DEF Atomic!Init, ResolverInit, Log, Bases, Proposals

\* The resolver implements atomic edits: whatever ran between the read and the swap,
\* an edit is merged into the record of one instant, and a store with a log takes none
\* twice.
THEOREM ResolverImplementsAtomicEdits == ResolverSpec => EditsAreAtomic
  BY InitRefines, StepRefines, ResolverInvariant, PTL DEF ResolverSpec, EditsAreAtomic,
     Atomic!Spec
==============================================================================
