--------------------------- MODULE OperationsProofs ---------------------------
(***************************************************************************)
(* Proofs about the parts of MCOperations whose work must come to an end:    *)
(*   - maintainer approvals: receipts tell the truth and rollbacks are final, *)
(*     for any intents and any number of executions and syncs side by side;  *)
(*   - exports: what completed is whole and what was stopped stays stopped;  *)
(*   - the telemetry transport: what it reports open is open;                *)
(*   - session sync: every publish is answered for what happened to it;      *)
(*   - domain events: what no handler has accepted is in one place;          *)
(*   - all of them side by side: every variable keeps its type.               *)
(***************************************************************************)
EXTENDS MCOperations, RecoveryProofs,
    FiniteSetTheorems, SequenceTheorems, WellFoundedInduction, TLAPS

------------------------------------------------------------------------------
(* Sequences                                                                 *)

\* Removing from a sequence takes out one place, or none.
LEMMA RemovalShape ==
    ASSUME NEW S, NEW s \in Seq(S), NEW e
    PROVE  \/ RemoveFirst(s, e) = s /\ \A i \in 1..Len(s) : s[i] # e
           \/ \E n \in 1..Len(s) :
                /\ s[n] = e
                /\ RemoveFirst(s, e) = SubSeq(s, 1, n - 1) \o SubSeq(s, n + 1, Len(s))
  <1> DEFINE At == {n \in 1..Len(s) : s[n] = e}
  <1>1. CASE At = {}
    BY <1>1 DEF RemoveFirst
  <1>2. CASE At # {}
    <2> DEFINE n == Min(At)
    <2>1. n \in At
      <3>1. PICK m \in At : \A k \in At : m <= k
        <4> HIDE DEF At
        <4>1. At \subseteq Nat
          BY DEF At
        <4>2. PICK m \in At : \A k \in At : ~ (<<k, m>> \in OpToRel(<, Nat))
          BY <1>2, <4>1, WFMin, NatLessThanWellFounded
        <4>3. \A k \in At : ~ (k < m)
          BY <4>1, <4>2 DEF OpToRel
        <4> QED
          BY <4>1, <4>3
      <3> QED
        BY <3>1 DEF Min
    <2>2. RemoveFirst(s, e) = RemoveAt(s, n)
      BY <1>2 DEF RemoveFirst, SelectInSeq
    <2>3. n \in 1..Len(s) /\ s[n] = e
      BY <2>1
    <2> HIDE DEF n
    <2> QED
      BY <2>2, <2>3 DEF RemoveAt
  <1> QED
    BY <1>1, <1>2

\* What is left of a sequence has the elements of the sequence.
LEMMA RemovalTyped ==
    ASSUME NEW S, NEW s \in Seq(S), NEW e
    PROVE  RemoveFirst(s, e) \in Seq(S)
  <1>1. ASSUME NEW n \in 1..Len(s)
        PROVE  SubSeq(s, 1, n - 1) \o SubSeq(s, n + 1, Len(s)) \in Seq(S)
    <2>1. SubSeq(s, 1, n - 1) \in Seq(S) /\ SubSeq(s, n + 1, Len(s)) \in Seq(S)
      OBVIOUS
    <2> QED
      BY <2>1
  <1> QED
    BY <1>1, RemovalShape

\* s has e; the entries of s are all different.
InLine(s, e) == \E i \in 1..Len(s) : s[i] = e
Apart(s) == \A i, j \in 1..Len(s) : s[i] = s[j] => i = j

\* Removing an entry takes it out of the line, and nothing else.
LEMMA RemovalInLine ==
    ASSUME NEW S, NEW s \in Seq(S), Apart(s), NEW e
    PROVE  /\ RemoveFirst(s, e) \in Seq(S) /\ Apart(RemoveFirst(s, e))
           /\ \A x : InLine(RemoveFirst(s, e), x) <=> InLine(s, x) /\ x # e
  <1>1. CASE RemoveFirst(s, e) = s /\ \A i \in 1..Len(s) : s[i] # e
    BY <1>1 DEF InLine
  <1>2. CASE \E n \in 1..Len(s) :
                /\ s[n] = e
                /\ RemoveFirst(s, e) = SubSeq(s, 1, n - 1) \o SubSeq(s, n + 1, Len(s))
    <2>1. PICK n \in 1..Len(s) :
                /\ s[n] = e
                /\ RemoveFirst(s, e) = SubSeq(s, 1, n - 1) \o SubSeq(s, n + 1, Len(s))
      BY <1>2
    <2> DEFINE r == RemoveFirst(s, e)
    <2>2. /\ r \in Seq(S) /\ Len(r) = Len(s) - 1
          /\ \A k \in 1..Len(r) : r[k] = IF k < n THEN s[k] ELSE s[k + 1]
      <3> DEFINE a == SubSeq(s, 1, n - 1)
                 b == SubSeq(s, n + 1, Len(s))
      <3>1. /\ a \in Seq(S) /\ Len(a) = n - 1
            /\ \A k \in 1..(n - 1) : a[k] = s[k]
        OBVIOUS
      <3>2. /\ b \in Seq(S) /\ Len(b) = Len(s) - n
            /\ \A k \in 1..(Len(s) - n) : b[k] = s[n + k]
        OBVIOUS
      <3>3. r = a \o b
        BY <2>1
      <3>0. Len(s) \in Nat /\ n \in Nat /\ 1 <= n /\ n <= Len(s)
        OBVIOUS
      <3> HIDE DEF a, b, r
      <3>4. /\ r \in Seq(S) /\ Len(r) = Len(a) + Len(b)
            /\ \A k \in 1..Len(a) : r[k] = a[k]
            /\ \A k \in 1..Len(b) : r[Len(a) + k] = b[k]
        <4>1. /\ a \o b \in Seq(S) /\ Len(a \o b) = Len(a) + Len(b)
              /\ \A k \in 1..(Len(a) + Len(b)) :
                    (a \o b)[k] = IF k <= Len(a) THEN a[k] ELSE b[k - Len(a)]
          BY <3>1, <3>2, ConcatProperties
        <4>2. Len(a) \in Nat /\ Len(b) \in Nat
          BY <3>1, <3>2
        <4>3. ASSUME NEW k \in 1..Len(b) PROVE r[Len(a) + k] = b[k]
          <5>1. /\ Len(a) + k \in 1..(Len(a) + Len(b)) /\ ~(Len(a) + k <= Len(a))
                /\ (Len(a) + k) - Len(a) = k
            BY <4>2
          <5> QED
            BY <3>3, <4>1, <5>1
        <4> QED
          BY <3>3, <4>1, <4>2, <4>3
      <3>5. ASSUME NEW k \in 1..Len(r) PROVE r[k] = IF k < n THEN s[k] ELSE s[k + 1]
        <4>1. CASE k < n
          BY <3>0, <3>1, <3>2, <3>4, <4>1
        <4>2. CASE k >= n
          <5> DEFINE m == k - Len(a)
          <5>1. m \in 1..Len(b) /\ n + m = k + 1 /\ Len(a) + m = k
            BY <3>0, <3>1, <3>2, <3>4, <4>2
          <5> HIDE DEF m
          <5>2. r[k] = b[m] /\ b[m] = s[n + m]
            BY <3>2, <3>4, <5>1
          <5> QED
            BY <3>0, <4>2, <5>1, <5>2
        <4> QED
          BY <3>0, <3>1, <3>2, <3>4, <4>1, <4>2
      <3> QED
        BY <3>0, <3>1, <3>2, <3>4, <3>5
    <2> HIDE DEF r
    <2>3. Apart(r)
      BY <2>2 DEF Apart
    <2>4. ASSUME NEW x PROVE InLine(r, x) <=> InLine(s, x) /\ x # e
      <3>1. ASSUME NEW k \in 1..Len(r), r[k] = x PROVE InLine(s, x) /\ x # e
        BY <2>1, <2>2, <3>1 DEF InLine, Apart
      <3>2. ASSUME NEW i \in 1..Len(s), s[i] = x, x # e PROVE InLine(r, x)
        <4>1. CASE i < n
          BY <2>2, <3>2, <4>1 DEF InLine
        <4>2. CASE i > n
          <5>1. i - 1 \in 1..Len(r) /\ r[i - 1] = s[i]
            BY <2>2, <4>2
          <5> QED
            BY <3>2, <5>1 DEF InLine
        <4> QED
          BY <2>1, <3>2, <4>1, <4>2
      <3> QED
        BY <3>1, <3>2 DEF InLine
    <2> QED
      BY <2>2, <2>3, <2>4 DEF r
  <1> QED
    BY <1>1, <1>2, RemovalShape

\* The first of a line and the rest.
LEMMA HeadInLine ==
    ASSUME NEW S, NEW s \in Seq(S), s # <<>>, Apart(s)
    PROVE  /\ Head(s) \in S /\ InLine(s, Head(s))
           /\ Tail(s) \in Seq(S) /\ Apart(Tail(s))
           /\ \A x : InLine(Tail(s), x) <=> InLine(s, x) /\ x # Head(s)
  <1>1. /\ Tail(s) \in Seq(S) /\ Len(Tail(s)) = Len(s) - 1 /\ Len(s) \in Nat \ {0}
        /\ \A k \in 1..Len(Tail(s)) : Tail(s)[k] = s[k + 1]
        /\ Head(s) = s[1] /\ Head(s) \in S
    OBVIOUS
  <1> DEFINE t == Tail(s)
  <1>2. Apart(t)
    BY <1>1 DEF Apart
  <1>3. ASSUME NEW x, InLine(t, x) PROVE InLine(s, x) /\ x # Head(s)
    BY <1>1, <1>3 DEF InLine, Apart
  <1>4. ASSUME NEW x, InLine(s, x), x # Head(s) PROVE InLine(t, x)
    <2>1. PICK i \in 1..Len(s) : s[i] = x
      BY <1>4 DEF InLine
    <2>2. i - 1 \in 1..Len(t) /\ t[i - 1] = s[i]
      BY <1>1, <1>4, <2>1
    <2> QED
      BY <2>1, <2>2 DEF InLine
  <1> QED
    BY <1>1, <1>2, <1>3, <1>4 DEF InLine

\* A newcomer at the end of a line.
LEMMA AppendInLine ==
    ASSUME NEW S, NEW s \in Seq(S), Apart(s), NEW e \in S, ~InLine(s, e)
    PROVE  /\ Append(s, e) \in Seq(S) /\ Apart(Append(s, e))
           /\ \A x : InLine(Append(s, e), x) <=> InLine(s, x) \/ x = e
  <1> DEFINE t == Append(s, e)
  <1>1. /\ t \in Seq(S) /\ Len(t) = Len(s) + 1 /\ Len(s) \in Nat /\ t[Len(s) + 1] = e
        /\ \A k \in 1..Len(s) : t[k] = s[k]
    OBVIOUS
  <1> HIDE DEF t
  <1>2. Apart(t)
    BY <1>1 DEF Apart, InLine
  <1>3. ASSUME NEW x PROVE InLine(t, x) <=> InLine(s, x) \/ x = e
    BY <1>1 DEF InLine
  <1> QED
    BY <1>1, <1>2, <1>3 DEF t

------------------------------------------------------------------------------
(* Maintainer approvals                                                      *)

\* The types the argument needs; the length of the trail is not bounded here.
ApprovalTypes ==
    /\ observerThrows \in BOOLEAN
    /\ receipt \in [Intents -> Status]
    /\ offline \in Seq(Intents)
    /\ work \in [Executors -> Work]
    /\ audit \in [Intents -> Seq(Status \ {"none", "executing"})]
    /\ started \in [Intents -> Nat]
    /\ done \subseteq Intents

InHand(i) == \E x \in Executors : i \in work[x].on

\* The receipt is what keeps executions apart: until one starts nobody has the
\* intent in hand, and whoever has it is the only one, has started it once, and
\* nobody has carried it out yet.
IntentInv(i) ==
    /\ receipt[i] \in {"none", "approved", "queued_offline"} =>
            started[i] = 0 /\ ~InHand(i) /\ i \notin done
    /\ receipt[i] \in {"completed", "failed"} => ~InHand(i)
    /\ receipt[i] = "executing" => started[i] = 1
    /\ InHand(i) => started[i] = 1 /\ i \notin done
    /\ \A x, y \in Executors : i \in work[x].on /\ i \in work[y].on => x = y

Truth(i) ==
    /\ started[i] <= 1
    /\ receipt[i] = "completed" => i \in done
    /\ receipt[i] = "failed" => started[i] = 1 /\ (i \notin done \/ observerThrows)
    /\ receipt[i] \notin {"none", "executing"} => audit[i] # <<>> /\ Last(audit[i]) = receipt[i]

ApprovalInv ==
    /\ ApprovalTypes
    /\ \A i \in Intents : IntentInv(i) /\ Truth(i)

\* A step that leaves an intent alone keeps what is said of it.
LEMMA Untouched ==
    ASSUME NEW i \in Intents, IntentInv(i), Truth(i),
           observerThrows' = observerThrows, receipt'[i] = receipt[i],
           started'[i] = started[i], audit'[i] = audit[i], i \in done' <=> i \in done,
           \A x \in Executors : i \in work'[x].on => i \in work[x].on
    PROVE  IntentInv(i)' /\ Truth(i)'
  <1>1. InHand(i)' => InHand(i)
    BY DEF InHand
  <1>2. IntentInv(i)'
    BY <1>1 DEF IntentInv
  <1>3. Truth(i)'
    BY DEF Truth
  <1> QED
    BY <1>2, <1>3

\* The trail ends with what was logged last.
LEMMA LastLogged ==
    ASSUME NEW S, NEW trail \in Seq(S), NEW s \in S
    PROVE  /\ Append(trail, s) \in Seq(S) /\ Append(trail, s) # <<>>
           /\ Last(Append(trail, s)) = s
           /\ trail \o <<s>> = Append(trail, s)
  BY DEF Last

\* An action on intent j leaves the others alone.
LEMMA Others ==
    ASSUME ApprovalInv, observerThrows' = observerThrows, NEW j \in Intents,
           ApprovalTypes', IntentInv(j)', Truth(j)',
           \A i \in Intents \ {j} :
              /\ receipt'[i] = receipt[i] /\ started'[i] = started[i] /\ audit'[i] = audit[i]
              /\ i \in done' <=> i \in done
              /\ \A x \in Executors : i \in work'[x].on => i \in work[x].on
    PROVE  ApprovalInv'
  <1>1. ASSUME NEW i \in Intents \ {j} PROVE IntentInv(i)' /\ Truth(i)'
    BY <1>1, Untouched DEF ApprovalInv
  <1> QED
    BY <1>1 DEF ApprovalInv

\* An intent is taken in hand.
LEMMA StartKeeps ==
    ASSUME ApprovalInv, NEW x \in Executors, NEW i \in Intents, NEW left \in Seq(Intents),
           NEW syncing \in BOOLEAN, Executable(i), StartExecution(i),
           work' = [work EXCEPT ![x] = [syncing |-> syncing, on |-> {i}, left |-> left]],
           work[x].on = {},
           observerThrows' = observerThrows, offline' = offline, audit' = audit, done' = done
    PROVE  ApprovalInv'
  <1>1. /\ receipt \in [Intents -> Status] /\ started \in [Intents -> Nat]
        /\ work \in [Executors -> Work]
    BY DEF ApprovalInv, ApprovalTypes
  <1>2. /\ receipt' = [receipt EXCEPT ![i] = "executing"]
        /\ started' = [started EXCEPT ![i] = started[i] + 1]
    BY DEF StartExecution
  <1>3. started[i] = 0 /\ ~InHand(i) /\ i \notin done
    BY DEF ApprovalInv, IntentInv, Executable
  <1>4. /\ receipt' \in [Intents -> Status] /\ started' \in [Intents -> Nat]
        /\ receipt'[i] = "executing" /\ started'[i] = 1
    BY <1>1, <1>2, <1>3 DEF Status
  <1>5. [syncing |-> syncing, on |-> {i}, left |-> left] \in Work
    BY DEF Work
  <1>6. work' \in [Executors -> Work]
    BY <1>1, <1>5
  <1>7. \A y \in Executors : work'[y].on = IF y = x THEN {i} ELSE work[y].on
    BY <1>1
  <1>8. ApprovalTypes'
    BY <1>4, <1>6 DEF ApprovalInv, ApprovalTypes
  <1>9. \A y \in Executors : i \in work'[y].on => y = x
    BY <1>3, <1>7 DEF InHand
  <1>10. IntentInv(i)'
    BY <1>3, <1>4, <1>9 DEF IntentInv
  <1>11. Truth(i)'
    BY <1>4 DEF Truth
  <1>12. ASSUME NEW j \in Intents \ {i}
         PROVE /\ receipt'[j] = receipt[j] /\ started'[j] = started[j] /\ audit'[j] = audit[j]
               /\ j \in done' <=> j \in done
               /\ \A y \in Executors : j \in work'[y].on => j \in work[y].on
    BY <1>1, <1>2, <1>7
  <1> QED
    BY <1>8, <1>10, <1>11, <1>12, Others

\* An executor has ended: the receipt gets a status and the trail ends with it.
LEMMA SettleKeeps ==
    ASSUME ApprovalInv, NEW x \in Executors, NEW i \in Intents, i \in work[x].on,
           NEW status \in {"completed", "failed"}, NEW statuses,
           statuses \in {<<status>>, <<"completed", status>>},
           receipt' = [receipt EXCEPT ![i] = status], Log(i, statuses),
           work' = [work EXCEPT ![x] = NextOf(x)],
           offline' \in Seq(Intents), observerThrows' = observerThrows, started' = started,
           done' \in {done, done \cup {i}},
           status = "completed" => i \in done',
           status = "failed" => i \notin done' \/ observerThrows
    PROVE  ApprovalInv'
  <1>1. /\ receipt \in [Intents -> Status] /\ started \in [Intents -> Nat]
        /\ work \in [Executors -> Work] /\ done \subseteq Intents
        /\ audit \in [Intents -> Seq(Status \ {"none", "executing"})]
    BY DEF ApprovalInv, ApprovalTypes
  <1>2. /\ started[i] = 1 /\ \A y \in Executors : i \in work[y].on => y = x
    BY DEF ApprovalInv, IntentInv, InHand
  <1>3. NextOf(x) \in Work /\ NextOf(x).on = {}
    <2>1. work[x] \in Work /\ <<>> \in Seq(Intents)
      BY <1>1
    <2>2. CASE work[x].syncing
      BY <2>1, <2>2 DEF NextOf, Work
    <2>3. CASE ~work[x].syncing
      BY <2>1, <2>3 DEF NextOf, AtRest, Work
    <2> QED
      BY <2>2, <2>3
  <1>4. /\ work' \in [Executors -> Work]
        /\ \A y \in Executors : work'[y].on = IF y = x THEN {} ELSE work[y].on
    BY <1>1, <1>3
  <1>5. /\ receipt' \in [Intents -> Status] /\ receipt'[i] = status
    BY <1>1 DEF Status
  <1> DEFINE S == Status \ {"none", "executing"}
             trail == audit[i] \o statuses
  <1>6. trail \in Seq(S) /\ trail # <<>> /\ Last(trail) = status
    <2>1. audit[i] \in Seq(S) /\ status \in S /\ "completed" \in S
      BY <1>1 DEF Status
    <2> HIDE DEF S
    <2>2. CASE statuses = <<status>>
      <3>1. trail = Append(audit[i], status)
        BY <2>1, <2>2, LastLogged
      <3> QED
        BY <2>1, <3>1, LastLogged
    <2>3. CASE statuses = <<"completed", status>>
      <3> DEFINE first == Append(audit[i], "completed")
      <3>1. first \in Seq(S)
        BY <2>1, LastLogged
      <3>2. trail = Append(first, status)
        BY <2>1, <2>3, <3>1
      <3> HIDE DEF first, trail
      <3> QED
        BY <2>1, <3>1, <3>2, LastLogged
    <2> QED
      BY <2>2, <2>3
  <1>7. audit' = [audit EXCEPT ![i] = trail]
    BY DEF Log
  <1> HIDE DEF trail
  <1>8. audit' \in [Intents -> Seq(S)] /\ audit'[i] = trail
    BY <1>1, <1>6, <1>7
  <1>9. ApprovalTypes'
    BY <1>1, <1>4, <1>5, <1>8 DEF ApprovalInv, ApprovalTypes
  <1>10. ~InHand(i)'
    BY <1>2, <1>4 DEF InHand
  <1>11. IntentInv(i)'
    BY <1>5, <1>10 DEF IntentInv, InHand
  <1>12. Truth(i)'
    BY <1>2, <1>5, <1>6, <1>8 DEF Truth
  <1>13. ASSUME NEW j \in Intents \ {i}
         PROVE /\ receipt'[j] = receipt[j] /\ started'[j] = started[j] /\ audit'[j] = audit[j]
               /\ j \in done' <=> j \in done
               /\ \A y \in Executors : j \in work'[y].on => j \in work[y].on
    BY <1>1, <1>4, <1>7
  <1> QED
    BY <1>9, <1>11, <1>12, <1>13, Others

\* The invariant speaks of no other variable.
LEMMA WorkOnly ==
    ASSUME ApprovalInv, work' \in [Executors -> Work],
           \A x \in Executors : work'[x].on \subseteq work[x].on,
           observerThrows' = observerThrows, receipt' = receipt, offline' = offline,
           audit' = audit, started' = started, done' = done
    PROVE  ApprovalInv'
  <1>1. ApprovalTypes'
    BY DEF ApprovalInv, ApprovalTypes
  <1>2. ASSUME NEW i \in Intents PROVE IntentInv(i)' /\ Truth(i)'
    BY <1>2, Untouched DEF ApprovalInv
  <1> QED
    BY <1>1, <1>2 DEF ApprovalInv

\* Every step keeps the invariant, one case per action.
LEMMA ApprovalNextKeeps == ApprovalInv /\ [ApprovalNext]_approvalVars => ApprovalInv'
  <1> SUFFICES ASSUME ApprovalInv, [ApprovalNext]_approvalVars PROVE ApprovalInv'
    OBVIOUS
  <1>1. /\ receipt \in [Intents -> Status] /\ started \in [Intents -> Nat]
        /\ work \in [Executors -> Work] /\ done \subseteq Intents /\ offline \in Seq(Intents)
        /\ audit \in [Intents -> Seq(Status \ {"none", "executing"})]
    BY DEF ApprovalInv, ApprovalTypes
  <1>2. ASSUME NEW i \in Intents, NEW isOffline \in BOOLEAN, Approve(i, isOffline)
        PROVE  ApprovalInv'
    <2> DEFINE status == IF isOffline THEN "queued_offline" ELSE "approved"
               S == Status \ {"none", "executing"}
               trail == Append(audit[i], status)
    <2>1. /\ receipt[i] = "none" /\ receipt' = [receipt EXCEPT ![i] = status]
          /\ audit' = [audit EXCEPT ![i] = trail]
          /\ observerThrows' = observerThrows /\ work' = work /\ started' = started
          /\ done' = done
      BY <1>2 DEF Approve
    <2>2. offline' \in Seq(Intents)
      BY <1>1, <1>2 DEF Approve
    <2>3. status \in S /\ status \in {"approved", "queued_offline"}
      BY DEF Status
    <2> HIDE DEF status
    <2>4. trail \in Seq(S) /\ trail # <<>> /\ Last(trail) = status
      <3> audit[i] \in Seq(S)
        BY <1>1
      <3> HIDE DEF S
      <3> QED
        BY <2>3, LastLogged
    <2> HIDE DEF trail
    <2>5. /\ receipt' \in [Intents -> Status] /\ receipt'[i] = status
          /\ audit' \in [Intents -> Seq(S)] /\ audit'[i] = trail
      BY <1>1, <2>1, <2>3, <2>4
    <2>6. ApprovalTypes'
      BY <2>1, <2>2, <2>5 DEF ApprovalInv, ApprovalTypes
    <2>7. started[i] = 0 /\ ~InHand(i) /\ i \notin done
      BY <2>1 DEF ApprovalInv, IntentInv
    <2>8. IntentInv(i)'
      BY <2>1, <2>3, <2>5, <2>7 DEF IntentInv, InHand
    <2>9. Truth(i)'
      BY <2>1, <2>3, <2>4, <2>5, <2>7 DEF Truth
    <2>10. ASSUME NEW j \in Intents \ {i}
           PROVE /\ receipt'[j] = receipt[j] /\ started'[j] = started[j] /\ audit'[j] = audit[j]
                 /\ j \in done' <=> j \in done
                 /\ \A y \in Executors : j \in work'[y].on => j \in work[y].on
      BY <1>1, <2>1
    <2> QED
      BY <2>1, <2>6, <2>8, <2>9, <2>10, Others
  <1>3. ASSUME NEW i \in Intents, PassExpiry(i) PROVE ApprovalInv'
    BY <1>1, <1>3, WorkOnly DEF PassExpiry
  <1>4. ASSUME NEW i \in Intents, Rollback(i) PROVE ApprovalInv'
    <2> DEFINE S == Status \ {"none", "executing"}
               trail == audit[i] \o <<"rolled_back">>
    <2>1. /\ receipt[i] # "none" /\ receipt' = [receipt EXCEPT ![i] = "rolled_back"]
          /\ audit' = [audit EXCEPT ![i] = trail]
          /\ observerThrows' = observerThrows /\ work' = work /\ started' = started
          /\ done' = done /\ offline' = offline
      BY <1>4 DEF Rollback, Log
    <2>2. "rolled_back" \in S /\ audit[i] \in Seq(S)
      BY <1>1 DEF Status
    <2>3. trail \in Seq(S) /\ trail # <<>> /\ Last(trail) = "rolled_back"
      <3> HIDE DEF S
      <3>1. trail = Append(audit[i], "rolled_back")
        BY <2>2, LastLogged
      <3> QED
        BY <2>2, <3>1, LastLogged
    <2> HIDE DEF trail
    <2>4. /\ receipt' \in [Intents -> Status] /\ receipt'[i] = "rolled_back"
          /\ audit' \in [Intents -> Seq(S)] /\ audit'[i] = trail
      BY <1>1, <2>1, <2>2, <2>3
    <2>5. ApprovalTypes'
      BY <2>1, <2>4 DEF ApprovalInv, ApprovalTypes
    <2>6. IntentInv(i) /\ Truth(i)
      BY DEF ApprovalInv
    <2>7. IntentInv(i)'
      BY <2>1, <2>4, <2>6 DEF IntentInv, InHand
    <2>8. Truth(i)'
      BY <2>1, <2>3, <2>4, <2>6 DEF Truth
    <2>9. ASSUME NEW j \in Intents \ {i}
          PROVE /\ receipt'[j] = receipt[j] /\ started'[j] = started[j] /\ audit'[j] = audit[j]
                /\ j \in done' <=> j \in done
                /\ \A y \in Executors : j \in work'[y].on => j \in work[y].on
      BY <1>1, <2>1
    <2> QED
      BY <2>1, <2>5, <2>7, <2>8, <2>9, Others
  <1>5. ASSUME NEW i \in Intents, NEW x \in Executors, Execute(x, i) PROVE ApprovalInv'
    <2>1. /\ work' = [work EXCEPT ![x] = [syncing |-> FALSE, on |-> {i}, left |-> <<>>]]
          /\ work[x].on = {} /\ Executable(i) /\ StartExecution(i)
          /\ observerThrows' = observerThrows /\ offline' = offline /\ audit' = audit
          /\ done' = done
      BY <1>5 DEF Execute, AtRest
    <2>2. <<>> \in Seq(Intents)
      OBVIOUS
    <2> QED
      BY <2>1, <2>2, StartKeeps
  <1>6. ASSUME NEW x \in Executors, Sync(x) PROVE ApprovalInv'
    <2> DEFINE w == [syncing |-> TRUE, on |-> {}, left |-> offline]
    <2>1. w \in Work /\ w.on = {} /\ work' = [work EXCEPT ![x] = w]
      BY <1>1, <1>6 DEF Sync, Work
    <2> HIDE DEF w
    <2>2. work' \in [Executors -> Work] /\ \A y \in Executors : work'[y].on \subseteq work[y].on
      BY <1>1, <2>1
    <2> QED
      BY <1>6, <2>2, WorkOnly DEF Sync
  <1>7. ASSUME NEW x \in Executors, SyncEnds(x) PROVE ApprovalInv'
    <2>1. AtRest \in Work /\ AtRest.on = {} /\ work' = [work EXCEPT ![x] = AtRest]
      BY <1>7 DEF SyncEnds, AtRest, Work
    <2>2. work' \in [Executors -> Work] /\ \A y \in Executors : work'[y].on \subseteq work[y].on
      BY <1>1, <2>1
    <2> QED
      BY <1>7, <2>2, WorkOnly DEF SyncEnds
  <1>8. ASSUME NEW x \in Executors, SyncItem(x) PROVE ApprovalInv'
    <2> DEFINE i == Head(work[x].left)
    <2>1. /\ work[x] \in Work /\ work[x].on = {} /\ work[x].left # <<>>
          /\ work[x].left \in Seq(Intents) /\ work[x].syncing \in BOOLEAN
          /\ observerThrows' = observerThrows /\ offline' = offline /\ audit' = audit
          /\ done' = done
      BY <1>1, <1>8 DEF SyncItem, Work
    <2>2. i \in Intents /\ Tail(work[x].left) \in Seq(Intents)
      BY <2>1
    <2> HIDE DEF i
    <2>3. CASE Executable(i)
      <3>1. /\ StartExecution(i)
            /\ work' = [work EXCEPT ![x] = [syncing |-> TRUE, on |-> {i},
                                            left |-> Tail(work[x].left)]]
        BY <1>8, <2>3 DEF SyncItem, i
      <3> QED
        BY <2>1, <2>2, <2>3, <3>1, StartKeeps
    <2>4. CASE ~Executable(i)
      <3>1. /\ work' = [work EXCEPT ![x].left = Tail(@)]
            /\ receipt' = receipt /\ started' = started
        BY <1>8, <2>4 DEF SyncItem, RestAfterRefusal, i
      <3>2. work' \in [Executors -> Work] /\ \A y \in Executors : work'[y].on \subseteq work[y].on
        BY <1>1, <2>1, <2>2, <3>1 DEF Work
      <3> QED
        BY <2>1, <3>1, <3>2, WorkOnly
    <2> QED
      BY <2>3, <2>4
  <1>9. ASSUME NEW x \in Executors, NEW i \in Intents, Complete(x, i) PROVE ApprovalInv'
    <2>1. offline' \in Seq(Intents)
      <3>1. RemoveFirst(offline, i) \in Seq(Intents)
        BY <1>1, RemovalTyped
      <3> QED
        BY <1>1, <1>9, <3>1 DEF Complete
    <2> QED
      BY <1>9, <2>1, SettleKeeps DEF Complete
  <1>10. ASSUME NEW x \in Executors, NEW i \in Intents, CompleteUnobserved(x, i)
         PROVE ApprovalInv'
    BY <1>1, <1>10, SettleKeeps DEF CompleteUnobserved
  <1>11. ASSUME NEW x \in Executors, NEW i \in Intents, Fail(x, i) PROVE ApprovalInv'
    <2>1. i \notin done
      BY <1>11 DEF Fail, ApprovalInv, IntentInv, InHand
    <2> QED
      BY <1>1, <1>11, <2>1, SettleKeeps DEF Fail
  <1>12. CASE UNCHANGED approvalVars
    BY <1>1, <1>12, WorkOnly DEF approvalVars
  <1> QED
    BY <1>2, <1>3, <1>4, <1>5, <1>6, <1>7, <1>8, <1>9, <1>10, <1>11, <1>12
    DEF ApprovalNext, Settle

\* The invariant holds from the start.
LEMMA ApprovalAlways == ApprovalSpec => []ApprovalInv
  <1>1. ApprovalInit => ApprovalInv
    <2> SUFFICES ASSUME ApprovalInit PROVE ApprovalInv
      OBVIOUS
    <2>1. AtRest \in Work /\ AtRest.on = {}
      BY DEF AtRest, Work
    <2>2. ApprovalTypes
      BY <2>1 DEF ApprovalInit, ApprovalTypes, Status
    <2>3. \A i \in Intents : IntentInv(i) /\ Truth(i)
      BY <2>1 DEF ApprovalInit, IntentInv, InHand, Truth
    <2> QED
      BY <2>2, <2>3 DEF ApprovalInv
  <1> QED
    BY <1>1, ApprovalNextKeeps, PTL DEF ApprovalSpec

\* An intent is carried out at most once and its receipt and trail tell what
\* became of it, however many executions, syncs and rollbacks overlap.
THEOREM ReceiptsTellTheTruth == ApprovalSpec => []ReceiptsAreTrue
  <1>1. ApprovalInv => ReceiptsAreTrue
    BY DEF ApprovalInv, Truth, ReceiptsAreTrue
  <1> QED
    BY <1>1, ApprovalAlways, PTL

\* What was rolled back while nobody had it in hand is neither executed nor
\* reported otherwise afterwards.
THEOREM RollbacksAreFinal == ApprovalSpec => RollbackIsFinal
  <1> DEFINE Final == \A i \in Intents :
            receipt[i] = "rolled_back" /\ (\A x \in Executors : i \notin work[x].on)
                => receipt'[i] = "rolled_back" /\ started'[i] = started[i]
  <1>1. ApprovalInv /\ [ApprovalNext]_approvalVars => [Final]_approvalVars
    <2> SUFFICES ASSUME ApprovalInv, [ApprovalNext]_approvalVars, NEW i \in Intents,
                        receipt[i] = "rolled_back", \A x \in Executors : i \notin work[x].on
                 PROVE  receipt'[i] = "rolled_back" /\ started'[i] = started[i]
      OBVIOUS
    <2>1. receipt \in [Intents -> Status] /\ started \in [Intents -> Nat]
      BY DEF ApprovalInv, ApprovalTypes
    <2>2. CASE \E j \in Intents, isOffline \in BOOLEAN : Approve(j, isOffline)
      BY <2>1, <2>2 DEF Approve
    <2>3. CASE \E j \in Intents : PassExpiry(j) \/ Rollback(j)
      BY <2>1, <2>3 DEF PassExpiry, Rollback
    <2>4. CASE \E j \in Intents, x \in Executors : Execute(x, j)
      BY <2>1, <2>4 DEF Execute, Executable, StartExecution
    <2>5. CASE \E x \in Executors : Sync(x) \/ SyncEnds(x)
      BY <2>5 DEF Sync, SyncEnds
    <2>6. CASE \E x \in Executors : SyncItem(x)
      BY <2>1, <2>6 DEF SyncItem, Executable, StartExecution
    <2>7. CASE \E x \in Executors, j \in Intents :
                    Complete(x, j) \/ CompleteUnobserved(x, j) \/ Fail(x, j)
      BY <2>1, <2>7 DEF Complete, CompleteUnobserved, Fail
    <2>8. CASE UNCHANGED approvalVars
      BY <2>8 DEF approvalVars
    <2> QED
      BY <2>2, <2>3, <2>4, <2>5, <2>6, <2>7, <2>8 DEF ApprovalNext, Settle
  <1> QED
    BY <1>1, ApprovalAlways, PTL DEF ApprovalSpec, RollbackIsFinal

------------------------------------------------------------------------------
(* Exports                                                                   *)

\* The export was requested.
Used(x) == op[x].pc # "unused"

\* The registry names exports that were registered under the id.
Registered == \A i \in Ids : entry[i] # 0 => Used(entry[i]) /\ op[entry[i]].id = i

\* One export for an id, unless ids are used again.
IdsApart ==
    ~sameId => \A x, y \in Exports : Used(x) /\ Used(y) /\ op[x].id = op[y].id => x = y

\* What is known of an export: once stopped it is aborted, and while ids are used once
\* only a client that went away turns its cancellation into a failure.
Fate(x) ==
    /\ ~Used(x) => op[x] = NoOp
    /\ x \in stopped => op[x].aborted
    /\ op[x].pc = "sleeping" => op[x].tries < FetchRetries
    /\ ~sameId =>
        /\ op[x].status = "completed" =>
                /\ op[x].written = Batches \/ x \in cutShort
                /\ op[x].pc = "ended"
        /\ x \in stopped => \/ op[x].status = "cancelled"
                            \/ op[x].status = "failed" /\ op[x].gone

\* The inductive invariant of the exports.
ExportInv == ExportTypeOK /\ Registered /\ IdsApart /\ \A x \in Exports : Fate(x)

\* An export that was not requested yet is not aborted and has no timer.
LEMMA NoOpFields == NoOp.aborted = FALSE /\ NoOp.timer = FALSE
  BY DEF NoOp

\* What is said of an export speaks of its record, of whether it was stopped or cut
\* short, and of sameId.
LEMMA FateKept ==
    ASSUME NEW x \in Exports, Fate(x), op'[x] = op[x], x \in stopped' <=> x \in stopped,
           x \in cutShort => x \in cutShort', sameId' = sameId
    PROVE  Fate(x)'
  BY DEF Fate, Used

\* A registered export that goes on under its id, the registry losing entries at most.
LEMMA OneKept ==
    ASSUME ExportInv, NEW x \in Exports, NEW n \in Op, Used(x), n.pc # "unused",
           n.id = op[x].id, op' = [op EXCEPT ![x] = n], sameId' = sameId,
           entry' \in [Ids -> 0..MaxExports], \A i \in Ids : entry'[i] \in {0, entry[i]},
           stopped' \in {stopped, stopped \cup {x}}, cutShort' = cutShort, Fate(x)'
    PROVE  ExportInv'
  <1>1. /\ op \in [Exports -> Op] /\ entry \in [Ids -> 0..MaxExports] /\ stopped \subseteq Exports
        /\ sameId \in SameId /\ cutShort \subseteq Exports
    BY DEF ExportInv, ExportTypeOK
  <1>2. op' \in [Exports -> Op] /\ op'[x] = n /\ \A y \in Exports \ {x} : op'[y] = op[y]
    BY <1>1
  <1>3. ExportTypeOK'
    BY <1>1, <1>2 DEF ExportTypeOK
  <1>4. \A y \in Exports : op'[y].id = op[y].id /\ (op'[y].pc # "unused" <=> op[y].pc # "unused")
    BY <1>1, <1>2 DEF Used
  <1>5. Registered'
    <2> SUFFICES ASSUME NEW i \in Ids, entry'[i] # 0
                 PROVE  op'[entry'[i]].pc # "unused" /\ op'[entry'[i]].id = i
      BY DEF Registered, Used
    <2>1. entry'[i] = entry[i] /\ entry[i] \in Exports
      BY <1>1 DEF Exports
    <2> QED
      BY <1>4, <2>1 DEF ExportInv, Registered, Used
  <1>6. IdsApart'
    BY <1>4 DEF ExportInv, IdsApart, Used
  <1>7. ASSUME NEW y \in Exports \ {x} PROVE Fate(y)'
    BY <1>1, <1>2, <1>7, FateKept DEF ExportInv
  <1> QED
    BY <1>3, <1>5, <1>6, <1>7 DEF ExportInv

\* An export has ended: what any has written and whether it was aborted stay, and the
\* record that the id has, its own unless ids are used again, may get the outcome.
Ended(x, outcome) ==
    /\ op' \in [Exports -> Op]
    /\ \A y \in Exports :
        /\ op'[y].id = op[y].id /\ op'[y].aborted = op[y].aborted
        /\ op'[y].written = op[y].written /\ op'[y].gone = op[y].gone
        /\ op'[y].tries = op[y].tries
        /\ op'[y].pc = IF y = x THEN "ended" ELSE op[y].pc
        /\ ~Used(y) => op'[y] = op[y]
        /\ \/ op'[y].status = op[y].status
           \/ op'[y].status = outcome /\ outcome # "" /\ y = entry[op[x].id]
        /\ ~sameId /\ y # x => op'[y] = op[y]

\* That is how an export ends.
LEMMA EndShape ==
    ASSUME ExportInv, NEW x \in Exports, Used(x), NEW result \in {"ok", "error", "cancelled"},
           Ends(x, result)
    PROVE  Ended(x, Outcome(x, result))
  <1> DEFINE i == op[x].id
             o == Outcome(x, result)
             ended == [op EXCEPT ![x].pc = "ended"]
  <1>1. op \in [Exports -> Op] /\ entry \in [Ids -> 0..MaxExports]
    BY DEF ExportInv, ExportTypeOK
  <1>2. /\ ended \in [Exports -> Op] /\ i \in Ids
        /\ \A y \in Exports :
            /\ ended[y].id = op[y].id /\ ended[y].aborted = op[y].aborted
            /\ ended[y].written = op[y].written /\ ended[y].gone = op[y].gone
            /\ ended[y].tries = op[y].tries
            /\ ended[y].pc = IF y = x THEN "ended" ELSE op[y].pc
            /\ ended[y].status = op[y].status
            /\ y # x => ended[y] = op[y]
    BY <1>1 DEF Op
  <1>3. o \in {"", "failed", "completed"}
    BY DEF Outcome
  <1>4. op' = IF o = "" THEN ended ELSE Recorded(ended, i, o)
    BY DEF Ends
  <1> HIDE DEF o, ended
  <1>5. CASE o = "" \/ entry[i] = 0
    BY <1>2, <1>4, <1>5 DEF Recorded, Used, Ended, o
  <1>6. CASE o # "" /\ entry[i] # 0
    <2> DEFINE z == entry[i]
    <2>1. z \in Exports /\ op[z].pc # "unused" /\ op[z].id = i
      <3>1. i \in Ids
        BY <1>2
      <3> HIDE DEF i
      <3>2. entry[i] \in 0..MaxExports /\ entry[i] # 0
        BY <1>1, <1>6, <3>1
      <3>3. entry[i] \in Exports
        BY <3>2 DEF Exports
      <3> QED
        BY <3>1, <3>2, <3>3 DEF ExportInv, Registered, Used
    <2>2. op' = [ended EXCEPT ![z].status = o, ![z].timer = TRUE]
      BY <1>4, <1>6 DEF Recorded
    <2> HIDE DEF z
    <2>3. o \in {"failed", "completed"}
      BY <1>3, <1>6
    <2>4. /\ op' \in [Exports -> Op]
          /\ \A y \in Exports \ {z} : op'[y] = ended[y]
      <3> DEFINE m == [ended[z] EXCEPT !.status = o]
                 n == [m EXCEPT !.timer = TRUE]
      <3>0. m \in Op
        BY <1>2, <2>1, <2>3 DEF Op
      <3>2. op' = [ended EXCEPT ![z] = n]
        BY <1>2, <2>1, <2>2
      <3> HIDE DEF m
      <3>1. n \in Op
        BY <3>0 DEF Op
      <3> HIDE DEF n
      <3> QED
        BY <1>2, <2>1, <3>1, <3>2
    <2>5. /\ op'[z].id = ended[z].id /\ op'[z].aborted = ended[z].aborted
          /\ op'[z].written = ended[z].written /\ op'[z].gone = ended[z].gone
          /\ op'[z].pc = ended[z].pc /\ op'[z].status = o /\ op'[z].tries = ended[z].tries
      BY <1>2, <2>1, <2>2, <2>3 DEF Op
    <2>6. ~sameId => z = x
      BY <2>1 DEF ExportInv, IdsApart, Used
    <2> SUFFICES ASSUME NEW y \in Exports
                 PROVE  /\ op'[y].id = op[y].id /\ op'[y].aborted = op[y].aborted
                        /\ op'[y].written = op[y].written /\ op'[y].gone = op[y].gone
                        /\ op'[y].tries = op[y].tries
                        /\ op'[y].pc = IF y = x THEN "ended" ELSE op[y].pc
                        /\ ~Used(y) => op'[y] = op[y]
                        /\ op'[y].status = op[y].status \/ (op'[y].status = o /\ y = z)
                        /\ ~sameId /\ y # x => op'[y] = op[y]
      BY <1>6, <2>4 DEF z, o, Ended
    <2>7. CASE y = z
      BY <1>2, <2>1, <2>5, <2>6, <2>7 DEF Used
    <2>8. CASE y # z
      BY <1>2, <2>4, <2>8 DEF Used
    <2> QED
      BY <2>7, <2>8
  <1> QED
    BY <1>5, <1>6

\* An export that ends with the outcome it should have keeps the invariant.
LEMMA EndKept ==
    ASSUME ExportInv, NEW x \in Exports, Used(x), NEW result \in {"ok", "error", "cancelled"},
           Ends(x, result), UNCHANGED <<sameId, entry, stopped>>,
           cutShort' \in {cutShort, cutShort \cup {x}},
           result = "ok" => op[x].written = Batches \/ x \in cutShort',
           result # "cancelled" => ~op[x].aborted \/ op[x].gone
    PROVE  ExportInv'
  <1>1. /\ op \in [Exports -> Op] /\ entry \in [Ids -> 0..MaxExports] /\ stopped \subseteq Exports
        /\ sameId \in SameId /\ cutShort \subseteq Exports
    BY DEF ExportInv, ExportTypeOK
  <1> DEFINE o == Outcome(x, result)
  <1>2. /\ op' \in [Exports -> Op]
        /\ \A y \in Exports :
            /\ op'[y].id = op[y].id /\ op'[y].aborted = op[y].aborted
            /\ op'[y].written = op[y].written /\ op'[y].gone = op[y].gone
            /\ op'[y].tries = op[y].tries
            /\ op'[y].pc = IF y = x THEN "ended" ELSE op[y].pc
            /\ ~Used(y) => op'[y] = op[y]
            /\ \/ op'[y].status = op[y].status
               \/ op'[y].status = o /\ o # "" /\ y = entry[op[x].id]
            /\ ~sameId /\ y # x => op'[y] = op[y]
    <2>1. Ended(x, o)
      BY EndShape
    <2> QED
      BY <2>1 DEF Ended
  <1>3. \A y \in Exports : op'[y].pc # "unused" <=> op[y].pc # "unused"
    BY <1>2 DEF Used
  <1>4. ExportTypeOK'
    BY <1>1, <1>2 DEF ExportTypeOK
  <1>5. Registered'
    <2> SUFFICES ASSUME NEW i \in Ids, entry[i] # 0
                 PROVE  op'[entry[i]].pc # "unused" /\ op'[entry[i]].id = i
      BY DEF Registered, Used
    <2>1. entry[i] \in Exports
      BY <1>1 DEF Exports
    <2>2. op[entry[i]].pc # "unused" /\ op[entry[i]].id = i
      BY DEF ExportInv, Registered, Used
    <2> QED
      BY <1>2, <1>3, <2>1, <2>2
  <1>6. IdsApart'
    <2>1. \A y \in Exports : op'[y].id = op[y].id
      BY <1>2
    <2> QED
      BY <1>3, <2>1 DEF ExportInv, IdsApart, Used
  <1>7. ASSUME NEW y \in Exports PROVE Fate(y)'
    <2>1. Fate(y)
      BY DEF ExportInv
    <2>2. ~Used(y)' => op'[y] = NoOp
      BY <1>2, <1>3, <2>1 DEF Fate, Used
    <2>3. y \in stopped' => op'[y].aborted
      BY <1>2, <2>1 DEF Fate
    <2>4. CASE y # x \/ sameId
      <3>1. op'[y].pc = "sleeping" => op'[y].tries < FetchRetries
        BY <1>2, <2>1 DEF Fate
      <3> QED
        BY <1>2, <2>1, <2>2, <2>3, <2>4, <3>1 DEF Fate, Used
    <2>5. CASE y = x /\ ~sameId
      <3>1. /\ o = "completed" => (op[x].written = Batches \/ x \in cutShort') /\ ~op[x].aborted
            /\ o = "failed" => ~op[x].aborted \/ op[x].gone
            /\ o \in {"", "failed", "completed"}
        BY DEF Outcome
      <3> HIDE DEF o
      <3>2. /\ op'[x].pc = "ended" /\ op'[x].written = op[x].written
            /\ op'[x].aborted = op[x].aborted /\ op'[x].gone = op[x].gone
            /\ op'[x].status = op[x].status \/ (op'[x].status = o /\ o # "")
        BY <1>2
      <3> QED
        BY <2>1, <2>2, <2>3, <2>5, <3>1, <3>2 DEF Fate
    <2> QED
      BY <2>4, <2>5
  <1> QED
    BY <1>4, <1>5, <1>6, <1>7 DEF ExportInv

\* An export that goes on with its record changed keeps what is said of it.
LEMMA ChangeKept ==
    ASSUME ExportInv, NEW x \in Exports, NEW n \in Op, Used(x), n.pc # "unused",
           n.id = op[x].id, op' = [op EXCEPT ![x] = n], sameId' = sameId,
           entry' \in [Ids -> 0..MaxExports], \A i \in Ids : entry'[i] \in {0, entry[i]},
           stopped' = stopped, cutShort' = cutShort, op[x].aborted => n.aborted, op[x].gone => n.gone,
           n.status = op[x].status, op[x].status = "completed" => n.written = op[x].written,
           op[x].pc = "ended" => n.pc = "ended",
           (n.pc = op[x].pc /\ n.tries = op[x].tries) \/ (n.pc = "sleeping" => n.tries < FetchRetries)
    PROVE  ExportInv'
  <1>1. op'[x] = n
    BY DEF ExportInv, ExportTypeOK
  <1>2. Fate(x)
    BY DEF ExportInv
  <1>3. Fate(x)'
    BY <1>1, <1>2 DEF Fate, Used
  <1> QED
    BY <1>3, OneKept

\* Every step keeps the invariant, one case per action.
LEMMA ExportNextKeeps == ExportInv /\ [ExportNext]_exportVars => ExportInv'
  <1> SUFFICES ASSUME ExportInv, [ExportNext]_exportVars PROVE ExportInv'
    OBVIOUS
  <1>1. /\ op \in [Exports -> Op] /\ entry \in [Ids -> 0..MaxExports] /\ stopped \subseteq Exports
        /\ sameId \in SameId /\ cutShort \subseteq Exports /\ \A x \in Exports : op[x] \in Op
    BY DEF ExportInv, ExportTypeOK
  <1>2. ASSUME NEW x \in Exports, NEW i \in Ids, Register(x, i) PROVE ExportInv'
    <2>1. PICK left \in BOOLEAN : op' = [op EXCEPT ![x] =
            [pc |-> "fetching", id |-> i, status |-> IF left THEN "cancelled" ELSE "running",
             aborted |-> left, timer |-> FALSE, tries |-> 0, written |-> 0, gone |-> FALSE,
             left |-> left]]
      BY <1>2 DEF Register
    <2> DEFINE s == IF left THEN "cancelled" ELSE "running"
               n == [pc |-> "fetching", id |-> i, status |-> s,
                     aborted |-> left, timer |-> FALSE, tries |-> 0, written |-> 0,
                     gone |-> FALSE, left |-> left]
    <2>2. s \in {"running", "cancelled"}
      OBVIOUS
    <2>3. op' = [op EXCEPT ![x] = n]
      BY <2>1
    <2> HIDE DEF s
    <2>4. n \in Op /\ n.id = i /\ n.pc = "fetching" /\ n.status \in {"running", "cancelled"}
      BY <2>2, ExportBoundsAssumption DEF Op
    <2> HIDE DEF n
    <2>5. op' \in [Exports -> Op] /\ op'[x] = n /\ \A y \in Exports \ {x} : op'[y] = op[y]
      BY <1>1, <2>3, <2>4
    <2>6. /\ ~Used(x) /\ x \notin stopped
          /\ entry' = [entry EXCEPT ![i] = x] /\ sameId' = sameId /\ stopped' = stopped /\ cutShort' = cutShort
          /\ sameId \/ \A y \in Exports : Used(y) => op[y].id # i
      <3>1. ~Used(x) /\ entry' = [entry EXCEPT ![i] = x] /\ sameId' = sameId /\ stopped' = stopped /\ cutShort' = cutShort
        BY <1>2 DEF Register, Used
      <3>2. x \notin stopped
        BY <3>1, NoOpFields DEF ExportInv, Fate
      <3>3. sameId \/ \A y \in Exports : Used(y) => op[y].id # i
        BY <1>2 DEF Register, Used
      <3> QED
        BY <3>1, <3>2, <3>3
    <2>7. ExportTypeOK'
      <3>1. x \in 0..MaxExports
        BY ExportBoundsAssumption DEF Exports
      <3> QED
        BY <1>1, <2>5, <2>6, <3>1 DEF ExportTypeOK
    <2>8. Registered'
      <3> SUFFICES ASSUME NEW j \in Ids, entry'[j] # 0
                   PROVE  op'[entry'[j]].pc # "unused" /\ op'[entry'[j]].id = j
        BY DEF Registered, Used
      <3>1. CASE j = i
        BY <1>1, <2>4, <2>5, <2>6, <3>1
      <3>2. CASE j # i
        <4>1. entry'[j] = entry[j] /\ entry[j] \in 0..MaxExports
          BY <1>1, <2>6, <3>2
        <4>2. entry[j] \in Exports /\ Used(entry[j]) /\ op[entry[j]].id = j
          BY <4>1 DEF Exports, ExportInv, Registered
        <4> QED
          BY <2>5, <2>6, <4>1, <4>2 DEF Used
      <3> QED
        BY <3>1, <3>2
    <2>9. IdsApart'
      BY <2>4, <2>5, <2>6 DEF ExportInv, IdsApart, Used
    <2>10. ASSUME NEW y \in Exports \ {x} PROVE Fate(y)'
      BY <2>5, <2>6, <2>10, FateKept DEF ExportInv
    <2>11. Fate(x)'
      BY <2>4, <2>5, <2>6 DEF Fate, Used
    <2> QED
      BY <2>7, <2>8, <2>9, <2>10, <2>11 DEF ExportInv
  <1>3. ASSUME NEW i \in Ids, CancelOperation(i) PROVE ExportInv'
    <2>1. PICK x \in Exports :
            /\ x = entry[i] /\ op[x].status = "running" /\ stopped' = stopped \cup {x}
            /\ op' = [op EXCEPT ![x] = Cancelled(op[x])] /\ sameId' = sameId /\ entry' = entry
            /\ cutShort' = cutShort
      <3>1. entry[i] \in 0..MaxExports /\ entry[i] # 0
        BY <1>1, <1>3 DEF CancelOperation
      <3>2. entry[i] \in Exports
        BY <3>1 DEF Exports
      <3> QED
        BY <1>3, <3>2 DEF CancelOperation
    <2> DEFINE m == [op[x] EXCEPT !.aborted = TRUE]
               k == [m EXCEPT !.status = "cancelled"]
               n == [k EXCEPT !.timer = TRUE]
    <2>3. Used(x)
      BY <1>1, <2>1 DEF Exports, ExportInv, Registered
    <2>4. Cancelled(op[x]) = n
      BY DEF Cancelled
    <2>5. m \in Op /\ m.pc = op[x].pc /\ m.id = op[x].id /\ m.aborted /\ m.tries = op[x].tries
      BY <1>1, <2>3 DEF Op
    <2> HIDE DEF m
    <2>6. /\ k \in Op /\ k.pc = op[x].pc /\ k.id = op[x].id /\ k.aborted /\ k.status = "cancelled"
          /\ k.tries = op[x].tries
      BY <2>5 DEF Op
    <2> HIDE DEF k
    <2>7. /\ n \in Op /\ n.pc = op[x].pc /\ n.id = op[x].id /\ n.aborted /\ n.status = "cancelled"
          /\ n.tries = op[x].tries
      BY <2>6 DEF Op
    <2> HIDE DEF n
    <2>8. op'[x] = n
      BY <1>1, <2>1, <2>3, <2>4
    <2>9. Fate(x)'
      <3>1. Fate(x)
        BY DEF ExportInv
      <3> QED
        BY <2>1, <2>3, <2>7, <2>8, <3>1 DEF Fate, Used
    <2> QED
      BY <1>1, <2>1, <2>3, <2>4, <2>7, <2>9, OneKept DEF Used
  <1>4. ASSUME NEW x \in Exports, SignalAborts(x) PROVE ExportInv'
    <2> DEFINE l == [op[x] EXCEPT !.left = TRUE]
               m == [l EXCEPT !.aborted = TRUE]
               n == [m EXCEPT !.status = "cancelled"]
    <2>1. /\ Used(x) /\ op' = [op EXCEPT ![x] = Left(op[x])]
          /\ sameId' = sameId /\ entry' = entry /\ stopped' = stopped /\ cutShort' = cutShort
      BY <1>4 DEF SignalAborts, Used
    <2>2. /\ l \in Op /\ l.pc = op[x].pc /\ l.id = op[x].id /\ l.aborted = op[x].aborted
          /\ l.tries = op[x].tries
          /\ l.gone = op[x].gone /\ l.status = op[x].status /\ l.written = op[x].written
      BY <1>1 DEF Op
    <2>3. CASE op[x].status # "running"
      <3>1. op' = [op EXCEPT ![x] = l]
        BY <2>1, <2>3 DEF Left
      <3>2. Used(x) /\ l.pc # "unused"
        BY <2>1, <2>2 DEF Used
      <3>3. entry' \in [Ids -> 0..MaxExports] /\ \A i \in Ids : entry'[i] \in {0, entry[i]}
        BY <1>1, <2>1
      <3> HIDE DEF l
      <3> QED
        BY <1>1, <2>1, <2>2, <3>1, <3>2, <3>3, ChangeKept
    <2>4. CASE op[x].status = "running"
      <3>1. op' = [op EXCEPT ![x] = n]
        BY <2>1, <2>4 DEF Left
      <3> HIDE DEF l
      <3>2. m \in Op /\ m.pc = op[x].pc /\ m.id = op[x].id /\ m.aborted /\ m.tries = op[x].tries
        BY <2>2 DEF Op
      <3> HIDE DEF m
      <3>3. /\ n \in Op /\ n.pc = op[x].pc /\ n.id = op[x].id /\ n.aborted /\ n.status = "cancelled"
          /\ n.tries = op[x].tries
        BY <3>2 DEF Op
      <3> HIDE DEF n
      <3>4. op'[x] = n
        BY <1>1, <3>1
      <3>5. Fate(x)'
        <4>1. Fate(x)
          BY DEF ExportInv
        <4> QED
          BY <2>1, <3>3, <3>4, <4>1 DEF Fate, Used
      <3> QED
        BY <1>1, <2>1, <3>1, <3>3, <3>5, OneKept DEF Used
    <2> QED
      BY <2>3, <2>4
  <1>5. ASSUME NEW x \in Exports, StreamCancelled(x) PROVE ExportInv'
    <2> DEFINE n == [op[x] EXCEPT !.gone = TRUE]
    <2>1. /\ Used(x) /\ op' = [op EXCEPT ![x] = n]
          /\ sameId' = sameId /\ entry' = entry /\ stopped' = stopped /\ cutShort' = cutShort
      BY <1>1, <1>5 DEF StreamCancelled, Used
    <2>2. /\ n \in Op /\ n.pc = op[x].pc /\ n.id = op[x].id /\ n.aborted = op[x].aborted
          /\ n.tries = op[x].tries
          /\ n.gone /\ n.status = op[x].status /\ n.written = op[x].written
      BY <1>1 DEF Op
    <2> HIDE DEF n
    <2> QED
      BY <1>1, <2>1, <2>2, ChangeKept DEF Used
  <1>6. ASSUME NEW x \in Exports, Cleanup(x) PROVE ExportInv'
    <2> DEFINE n == [op[x] EXCEPT !.timer = FALSE]
    <2>1. /\ op[x].timer /\ op' = [op EXCEPT ![x] = n]
          /\ sameId' = sameId /\ entry' = [entry EXCEPT ![op[x].id] = 0]
          /\ stopped' = stopped /\ cutShort' = cutShort
      BY <1>1, <1>6 DEF Cleanup
    <2>2. Used(x)
      BY <2>1, NoOpFields DEF ExportInv, Fate
    <2>3. /\ n \in Op /\ n.pc = op[x].pc /\ n.id = op[x].id /\ n.aborted = op[x].aborted
          /\ n.tries = op[x].tries
          /\ n.gone = op[x].gone /\ n.status = op[x].status /\ n.written = op[x].written
      BY <1>1 DEF Op
    <2> HIDE DEF n
    <2>4. entry' \in [Ids -> 0..MaxExports] /\ \A i \in Ids : entry'[i] \in {0, entry[i]}
      <3>1. 0 \in 0..MaxExports
        BY ExportBoundsAssumption
      <3> QED
        BY <1>1, <2>1, <3>1
    <2> QED
      BY <2>1, <2>2, <2>3, <2>4, ChangeKept DEF Used
  <1>7. ASSUME NEW x \in Exports, FetchAborted(x) PROVE ExportInv'
    BY <1>7, EndKept DEF FetchAborted, Used
  <1>8. ASSUME NEW x \in Exports, FetchBatch(x) PROVE ExportInv'
    <2> DEFINE m == [op[x] EXCEPT !.written = op[x].written + 1]
               n == [m EXCEPT !.tries = 0]
    <2>1. /\ Used(x) /\ op[x].pc = "fetching" /\ ~op[x].aborted /\ op[x].written < Batches
          /\ sameId' = sameId /\ entry' = entry /\ stopped' = stopped /\ cutShort' = cutShort
      BY <1>8 DEF FetchBatch, BatchArrives, Used
    <2>2. CASE op[x].gone
      BY <1>8, <2>1, <2>2, EndKept DEF FetchBatch
    <2>3. CASE ~op[x].gone
      <3>1. op' = [op EXCEPT ![x] = n]
        BY <1>1, <1>8, <2>3 DEF FetchBatch
      <3>2. op[x].written + 1 \in 0..Batches /\ 0 \in 0..FetchRetries
        BY <1>1, <2>1, ExportBoundsAssumption DEF Op
      <3>3. /\ m \in Op /\ m.pc = op[x].pc /\ m.id = op[x].id /\ m.aborted = op[x].aborted
            /\ m.gone = op[x].gone /\ m.status = op[x].status
        BY <1>1, <3>2 DEF Op
      <3> HIDE DEF m
      <3>4. /\ n \in Op /\ n.pc = op[x].pc /\ n.id = op[x].id /\ n.aborted = op[x].aborted
            /\ n.gone = op[x].gone /\ n.status = op[x].status
        BY <3>2, <3>3 DEF Op
      <3> HIDE DEF n
      <3>5. op'[x] = n
        BY <1>1, <3>1
      <3>6. Fate(x)
        BY DEF ExportInv
      <3>7. Fate(x)'
        BY <2>1, <3>4, <3>5, <3>6 DEF Fate, Used
      <3> QED
        BY <1>1, <2>1, <3>1, <3>4, <3>7, OneKept DEF Used
    <2> QED
      BY <2>2, <2>3
  <1>9. ASSUME NEW x \in Exports, FetchEnd(x) PROVE ExportInv'
    BY <1>9, EndKept DEF FetchEnd, Used
  <1>10. ASSUME NEW x \in Exports, FetchFails(x) PROVE ExportInv'
    <2>1. /\ Used(x) /\ op[x].pc = "fetching" /\ ~op[x].aborted
          /\ sameId' = sameId /\ entry' = entry /\ stopped' = stopped /\ cutShort' = cutShort
      BY <1>10 DEF FetchFails, Used
    <2>2. CASE op[x].tries < FetchRetries
      <3> DEFINE n == [op[x] EXCEPT !.pc = "sleeping"]
      <3>1. op' = [op EXCEPT ![x] = n]
        BY <1>1, <1>10, <2>2 DEF FetchFails
      <3>2. /\ n \in Op /\ n.pc = "sleeping" /\ n.id = op[x].id /\ n.aborted = op[x].aborted
            /\ n.gone = op[x].gone /\ n.status = op[x].status /\ n.written = op[x].written
            /\ n.tries = op[x].tries
        BY <1>1 DEF Op
      <3> HIDE DEF n
      <3> QED
        BY <1>1, <2>1, <2>2, <3>1, <3>2, ChangeKept
    <2>3. CASE ~(op[x].tries < FetchRetries)
      BY <1>10, <2>1, <2>3, EndKept DEF FetchFails
    <2> QED
      BY <2>2, <2>3
  <1>11. ASSUME NEW x \in Exports, RetryFetch(x) PROVE ExportInv'
    <2> DEFINE m == [op[x] EXCEPT !.pc = "fetching"]
               n == [m EXCEPT !.tries = op[x].tries + 1]
    <2>1. /\ Used(x) /\ op[x].pc = "sleeping" /\ op' = [op EXCEPT ![x] = n]
          /\ sameId' = sameId /\ entry' = entry /\ stopped' = stopped /\ cutShort' = cutShort
      BY <1>1, <1>11 DEF RetryFetch, Used
    <2>2. /\ m \in Op /\ m.pc = "fetching" /\ m.id = op[x].id /\ m.aborted = op[x].aborted
          /\ m.gone = op[x].gone /\ m.status = op[x].status /\ m.written = op[x].written
      BY <1>1 DEF Op
    <2> HIDE DEF m
    <2>4. op[x].tries + 1 \in 0..FetchRetries
      <3>1. op[x].tries < FetchRetries
        BY <2>1 DEF ExportInv, Fate
      <3> QED
        BY <1>1, <3>1, ExportBoundsAssumption DEF Op
    <2>3. /\ n \in Op /\ n.pc = "fetching" /\ n.id = op[x].id /\ n.aborted = op[x].aborted
          /\ n.gone = op[x].gone /\ n.status = op[x].status /\ n.written = op[x].written
      BY <2>2, <2>4 DEF Op
    <2> HIDE DEF n
    <2> QED
      BY <1>1, <2>1, <2>3, ChangeKept
  <1>13. ASSUME NEW x \in Exports, FetchGivesUp(x) PROVE ExportInv'
    BY <1>13, EndKept DEF FetchGivesUp, Used
  <1>12. CASE UNCHANGED exportVars
    <2>1. /\ op' = op /\ entry' = entry /\ sameId' = sameId /\ stopped' = stopped /\ cutShort' = cutShort
      BY <1>12 DEF exportVars
    <2> QED
      BY <2>1 DEF ExportInv, ExportTypeOK, Registered, IdsApart, Fate, Used
  <1> QED
    BY <1>2, <1>3, <1>4, <1>5, <1>6, <1>7, <1>8, <1>9, <1>10, <1>11, <1>12, <1>13
    DEF ExportNext, ExportSteps

\* The invariant holds from the start.
LEMMA ExportAlways == ExportSpec => []ExportInv
  <1>1. ExportInit => ExportInv
    <2> SUFFICES ASSUME ExportInit PROVE ExportInv
      OBVIOUS
    <2>1. (CHOOSE i \in Ids : TRUE) \in Ids
      BY ExportBoundsAssumption
    <2>2. NoOp \in Op /\ NoOp.pc = "unused" /\ NoOp.status = "running"
      BY <2>1, ExportBoundsAssumption DEF NoOp, Op
    <2>3. /\ op = [x \in Exports |-> NoOp] /\ entry = [i \in Ids |-> 0] /\ stopped = {}
          /\ cutShort = {}
          /\ sameId \in SameId
      BY DEF ExportInit
    <2>4. ExportTypeOK
      BY <2>2, <2>3, ExportBoundsAssumption DEF ExportTypeOK
    <2>5. \A x \in Exports : op[x] = NoOp
      BY <2>3
    <2> QED
      BY <2>2, <2>3, <2>4, <2>5 DEF ExportInv, Registered, IdsApart, Fate, Used
  <1> QED
    BY <1>1, ExportNextKeeps, PTL DEF ExportSpec

\* An export that reports completed was not stopped by cancel() and wrote all its batches,
\* while ids are used once, unless an AbortError of its own fetcher ended it.
THEOREM CompletedIsWholeAlways == ExportSpec => []CompletedIsWhole
  <1>1. ExportInv => CompletedIsWhole
    <2> SUFFICES ASSUME ExportInv, ~sameId, NEW x \in Exports, op[x].status = "completed"
                 PROVE  (op[x].written = Batches \/ x \in cutShort) /\ x \notin stopped
      BY DEF CompletedIsWhole
    <2> QED
      BY DEF ExportInv, Fate
  <1> QED
    BY <1>1, ExportAlways, PTL

\* Nothing is written after an abort, and what was cancelled stays cancelled.
THEOREM StoppedExportsStayStopped == ExportSpec => StoppedStaysStopped
  <1> DEFINE Stays == \A x \in Exports :
        /\ op[x].aborted => op'[x].written = op[x].written
        /\ ~sameId /\ x \in stopped /\ ~op[x].gone => op'[x].status = "cancelled"
  <1>1. ASSUME ExportInv, [ExportNext]_exportVars PROVE Stays
    <2> SUFFICES ASSUME NEW x \in Exports, op[x].aborted
                 PROVE  /\ op'[x].written = op[x].written
                        /\ ~sameId /\ x \in stopped /\ ~op[x].gone => op'[x].status = "cancelled"
      BY <1>1 DEF ExportInv, Fate
    <2>1. /\ op \in [Exports -> Op] /\ op[x] \in Op /\ Used(x) /\ Fate(x)
          /\ ~sameId /\ x \in stopped /\ ~op[x].gone => op[x].status = "cancelled"
      BY <1>1, NoOpFields DEF ExportInv, ExportTypeOK, Fate
    <2>2. ASSUME NEW y \in Exports, NEW n, op' = [op EXCEPT ![y] = n],
                 y = x => n.written = op[x].written /\ n.status \in {op[x].status, "cancelled"}
          PROVE  /\ op'[x].written = op[x].written
                 /\ ~sameId /\ x \in stopped /\ ~op[x].gone => op'[x].status = "cancelled"
      BY <2>1, <2>2
    <2>3. ASSUME NEW y \in Exports, Used(y), NEW result \in {"ok", "error", "cancelled"},
                 Ends(y, result), y = x => result = "cancelled"
          PROVE  /\ op'[x].written = op[x].written
                 /\ ~sameId /\ x \in stopped /\ ~op[x].gone => op'[x].status = "cancelled"
      <3>1. /\ op'[x].written = op[x].written
            /\ \/ op'[x].status = op[x].status
               \/ op'[x].status = Outcome(y, result) /\ Outcome(y, result) # ""
            /\ ~sameId /\ y # x => op'[x] = op[x]
        <4>1. Ended(y, Outcome(y, result))
          BY <1>1, <2>3, EndShape
        <4> QED
          BY <4>1 DEF Ended
      <3>2. CASE y = x
        BY <2>1, <2>3, <3>1, <3>2 DEF Outcome
      <3>3. CASE y # x
        BY <2>1, <3>1, <3>3
      <3> QED
        BY <3>2, <3>3
    <2>4. CASE \E y \in Exports, i \in Ids : Register(y, i)
      <3>1. PICK y \in Exports, i \in Ids : Register(y, i)
        BY <2>4
      <3>2. y # x
        BY <2>1, <3>1 DEF Register, Used
      <3> QED
        BY <2>1, <3>1, <3>2 DEF Register
    <2>5. CASE \E i \in Ids : CancelOperation(i)
      <3>1. PICK y \in Exports : op' = [op EXCEPT ![y] = Cancelled(op[y])]
        <4>1. PICK i \in Ids : CancelOperation(i)
          BY <2>5
        <4>2. entry[i] \in 0..MaxExports /\ entry[i] # 0
          BY <1>1, <4>1 DEF CancelOperation, ExportInv, ExportTypeOK
        <4>3. entry[i] \in Exports
          BY <4>2 DEF Exports
        <4> QED
          BY <4>1, <4>3 DEF CancelOperation
      <3>2. Cancelled(op[x]).written = op[x].written /\ Cancelled(op[x]).status = "cancelled"
        BY <2>1 DEF Cancelled, Op
      <3> QED
        BY <2>2, <3>1, <3>2
    <2>6. CASE \E y \in Exports : SignalAborts(y)
      <3>1. PICK y \in Exports : op' = [op EXCEPT ![y] = Left(op[y])]
        BY <2>6 DEF SignalAborts
      <3>2. /\ Left(op[x]).written = op[x].written
            /\ Left(op[x]).status \in {op[x].status, "cancelled"}
        BY <2>1 DEF Left, Op
      <3> QED
        BY <2>2, <3>1, <3>2
    <2>7. CASE \E y \in Exports : StreamCancelled(y) \/ Cleanup(y) \/ RetryFetch(y)
      BY <2>1, <2>7 DEF StreamCancelled, Cleanup, RetryFetch, Op
    <2>8. CASE \E y \in Exports : FetchAborted(y) \/ FetchEnd(y) \/ FetchGivesUp(y)
      BY <2>1, <2>3, <2>8 DEF FetchAborted, FetchEnd, FetchGivesUp, Used
    <2>9. CASE \E y \in Exports : FetchBatch(y)
      <3>1. PICK y \in Exports : FetchBatch(y)
        BY <2>9
      <3>2. y # x /\ Used(y)
        BY <2>1, <3>1 DEF FetchBatch, BatchArrives, Used
      <3>3. CASE op[y].gone
        BY <2>3, <3>1, <3>2, <3>3 DEF FetchBatch
      <3>4. CASE ~op[y].gone
        BY <2>1, <3>1, <3>2, <3>4 DEF FetchBatch
      <3> QED
        BY <3>3, <3>4
    <2>10. CASE \E y \in Exports : FetchFails(y)
      <3>1. PICK y \in Exports : FetchFails(y)
        BY <2>10
      <3>2. y # x /\ Used(y)
        BY <2>1, <3>1 DEF FetchFails, Used
      <3>3. CASE op[y].tries < FetchRetries
        BY <2>1, <3>1, <3>2, <3>3 DEF FetchFails
      <3>4. CASE ~(op[y].tries < FetchRetries)
        BY <2>3, <3>1, <3>2, <3>4 DEF FetchFails
      <3> QED
        BY <3>3, <3>4
    <2>11. CASE UNCHANGED exportVars
      BY <2>1, <2>11 DEF exportVars
    <2> QED
      BY <1>1, <2>4, <2>5, <2>6, <2>7, <2>8, <2>9, <2>10, <2>11 DEF ExportNext, ExportSteps
  <1> QED
    BY <1>1, ExportAlways, PTL DEF ExportSpec, StoppedStaysStopped

------------------------------------------------------------------------------
(* The telemetry transport                                                   *)

\* Why an open transport has its connection: the data channel exists only while the
\* signalling socket is open; a reconnect is planned only for the fallback, and not while
\* a socket may still open; and what is left over when everything is closed arms nothing.
HoldsWhatItReports(c) ==
    /\ c.status = "open" => c.transport # "none" /\ "reconnect" \notin c.timers
    /\ c.transport = "webrtc" => c.status = "open" /\ c.channel = "open"
    /\ c.transport = "websocket" =>
        /\ c.mode = "fallback" /\ "reconnect" \notin c.timers
        /\ c.status = "open" => c.socket \in {"open", "failing"}
    /\ c.channel # "none" => c.mode = "signaling" /\ c.socket = "open"
    /\ "reconnect" \in c.timers =>
        c.mode = "fallback" /\ (c.socket = "connecting" => "connect" \notin c.timers)
    /\ c.status = "idle" => c.mode = "none"
    /\ c.mode = "none" => c.socket = "none" /\ c.timers = {}

\* The reported statuses and the names of the timers.
Statuses == {"idle", "connecting", "negotiating", "open", "reconnecting", "closed", "error"}
Timers == {"connect", "ice", "reconnect"}

\* The operators the callbacks are made of give states of the transport.
LEMMA HelpersTyped ==
    ASSUME NEW c \in Conn, NEW t \in Timers, NEW s \in Statuses
    PROVE  /\ Armed(c, t) \in Conn /\ Cleared(c, t) \in Conn /\ ClearTimers(c) \in Conn
           /\ TornDown(c) \in Conn /\ AllClosed(c) \in Conn
           /\ GivesUp(c) \in Conn /\ Reports(c, s) \in Conn
  <1>1. Armed(c, t) \in Conn
    BY DEF Conn, Armed, Timers
  <1>2. Cleared(c, t) \in Conn
    BY DEF Conn, Cleared
  <1>3. ClearTimers(c) \in Conn
    BY DEF Conn, ClearTimers
  <1>4. TornDown(c) \in Conn
    BY DEF Conn, TornDown, Cleared
  <1>5. AllClosed(c) \in Conn
    BY <1>4 DEF Conn, AllClosed
  <1>6. GivesUp(c) \in Conn
    BY DEF Conn, GivesUp
  <1>7. Reports(c, s) \in Conn
    BY DEF Conn, Reports, Statuses
  <1> QED
    BY <1>1, <1>2, <1>3, <1>4, <1>5, <1>6, <1>7

\* So do the attempts made of them.
LEMMA AttemptsTyped ==
    ASSUME NEW c \in Conn
    PROVE  /\ MarkWebSocketOpen(c) \in Conn /\ EnterFallback(c) \in Conn
           /\ Negotiate(c) \in Conn /\ OpenInitial(c) \in Conn /\ ScheduleReconnect(c) \in Conn
  <1>1. ASSUME NEW d \in Conn PROVE MarkWebSocketOpen(d) \in Conn
    <2>1. 0 \in 0..MaxReconnects
      BY TransportAssumption
    <2> QED
      BY <2>1 DEF Conn, MarkWebSocketOpen
  <1>2. ASSUME NEW d \in Conn PROVE AwaitSocket(d) \in Conn
    <2>1. [d EXCEPT !.socket = "connecting"] \in Conn
      BY DEF Conn
    <2> QED
      BY <2>1, HelpersTyped DEF AwaitSocket, Statuses, Timers
  <1>3. ASSUME NEW d \in Conn PROVE EnterFallback(d) \in Conn
    <2>1. TornDown(Reports(d, "connecting")) \in Conn
      BY HelpersTyped DEF Statuses, Timers
    <2>2. ASSUME NEW e \in Conn PROVE OpenFallbackSocket(e) \in Conn
      <3>1. [e EXCEPT !.mode = "fallback"] \in Conn
        BY DEF Conn
      <3> QED
        BY <1>1, <1>2, <3>1 DEF OpenFallbackSocket
    <2> QED
      BY <2>1, <2>2 DEF EnterFallback
  <1>4. Negotiate(c) \in Conn
    <2>1. ASSUME NEW n \in Conn PROVE Armed([n EXCEPT !.channel = "opening"], "ice") \in Conn
      <3>1. [n EXCEPT !.channel = "opening"] \in Conn
        BY DEF Conn
      <3> QED
        BY <3>1, HelpersTyped DEF Statuses, Timers
    <2>2. Reports(c, "negotiating") \in Conn
      BY HelpersTyped DEF Statuses, Timers
    <2> QED
      BY <1>3, <2>1, <2>2 DEF Negotiate
  <1>5. OpenInitial(c) \in Conn
    <2>1. [c EXCEPT !.mode = "signaling"] \in Conn
      BY DEF Conn
    <2> QED
      BY <1>2, <1>3, <2>1 DEF OpenInitial
  <1>6. ScheduleReconnect(c) \in Conn
    <2>1. CASE c.tries >= MaxReconnects
      BY <2>1, HelpersTyped DEF ScheduleReconnect, Statuses, Timers
    <2>2. CASE ~(c.tries >= MaxReconnects)
      <3>1. c.tries + 1 \in 0..MaxReconnects
        BY <2>2, TransportAssumption DEF Conn
      <3>2. [c EXCEPT !.tries = c.tries + 1] \in Conn
        BY <3>1 DEF Conn
      <3> QED
        BY <2>2, <3>2, HelpersTyped DEF ScheduleReconnect, Statuses, Timers
    <2> QED
      BY <2>1, <2>2
  <1> QED
    BY <1>1, <1>3, <1>4, <1>5, <1>6

\* The fallback opens only on an open socket, with no reconnect planned.
LEMMA FallbackReal ==
    ASSUME NEW c \in Conn,
           c.mode = "fallback" \/ c.transport = "websocket" => HoldsWhatItReports(c),
           c.mode # "fallback" => "reconnect" \notin c.timers
    PROVE  HoldsWhatItReports(EnterFallback(c))
  BY DEF Conn, EnterFallback, OpenFallbackSocket, TornDown, Reports, AwaitSocket,
         MarkWebSocketOpen, GivesUp, Armed, Cleared, HoldsWhatItReports

\* A first attempt starts from nothing.
LEMMA InitialReal ==
    ASSUME NEW c \in Conn, c.mode = "none", c.socket = "none", c.channel = "none",
           c.transport = "none", "reconnect" \notin c.timers, c.status \notin {"idle", "open"}
    PROVE  HoldsWhatItReports(OpenInitial(c))
  <1>1. CASE link.rtc = "unsupported"
    BY <1>1, FallbackReal DEF OpenInitial
  <1>2. CASE link.rtc # "unsupported"
    BY <1>2 DEF Conn, OpenInitial, AwaitSocket, GivesUp, Armed, HoldsWhatItReports
  <1> QED
    BY <1>1, <1>2

\* A reconnect is planned for a fallback whose socket does not open any more.
LEMMA ScheduleReal ==
    ASSUME NEW c \in Conn, c.mode = "fallback", c.channel = "none", c.transport # "webrtc",
           c.transport = "websocket" => "reconnect" \notin c.timers,
           c.socket = "connecting" => "connect" \notin c.timers
    PROVE  HoldsWhatItReports(ScheduleReconnect(c))
  BY DEF Conn, ScheduleReconnect, Reports, GivesUp, Armed, HoldsWhatItReports

\* The inductive invariant of the transport.
TransportInv ==
    /\ TransportTypeOK
    /\ ~link.slow /\ ~link.loss => HoldsWhatItReports(conn)

\* Every step keeps the types, one case per action.
LEMMA TransportTyped == TransportTypeOK /\ [TransportNext]_transportVars => TransportTypeOK'
  <1> SUFFICES ASSUME TransportTypeOK, [TransportNext]_transportVars PROVE TransportTypeOK'
    OBVIOUS
  <1>1. link' \in Links /\ clicks' \in 0..MaxClicks
    <2>1. CASE Reconnect
      BY <2>1, TransportAssumption DEF Reconnect, TransportTypeOK
    <2>2. CASE UNCHANGED <<link, clicks>>
      BY <2>2 DEF TransportTypeOK
    <2> QED
      BY <2>1, <2>2 DEF TransportNext, transportVars, StartTransport, Dispose, SocketOpens,
        SocketErrors, SocketCloses, NoPeer, ChannelOpens, ChannelDies, SignalingFails,
        ConnectTimeout, IceTimeout, ReconnectTimer, Becomes
  <1> USE DEF Becomes, TransportTypeOK
  <1>2. conn' \in Conn
    <2>1. ASSUME NEW c \in Conn, NEW t \in Timers, NEW s \in Statuses
          PROVE  /\ Cleared(c, t) \in Conn /\ ClearTimers(c) \in Conn /\ AllClosed(c) \in Conn
                 /\ Reports(c, s) \in Conn
                 /\ MarkWebSocketOpen(c) \in Conn /\ EnterFallback(c) \in Conn
                 /\ Negotiate(c) \in Conn /\ OpenInitial(c) \in Conn
                 /\ ScheduleReconnect(c) \in Conn
      BY HelpersTyped, AttemptsTyped
    <2>2. /\ \A k \in {"open", "none", "failing"} : [conn EXCEPT !.socket = k] \in Conn
          /\ [conn EXCEPT !.channel = "dead"] \in Conn
      BY DEF Conn
    <2>3. 0 \in 0..MaxReconnects
      BY TransportAssumption
    <2>4. /\ Timers = {"connect", "ice", "reconnect"}
          /\ {"connecting", "reconnecting", "closed"} \subseteq Statuses
      BY DEF Timers, Statuses
    <2>5. CASE StartTransport
      BY <2>1, <2>4, <2>5 DEF StartTransport
    <2>6. CASE Reconnect
      <3>1. AllClosed(ClearTimers(conn)) \in Conn
        BY <2>1, <2>4
      <3>2. [AllClosed(ClearTimers(conn)) EXCEPT !.tries = 0] \in Conn
        BY <2>3, <3>1 DEF Conn
      <3> QED
        BY <2>1, <2>4, <2>6, <3>2 DEF Reconnect
    <2>7. CASE Dispose
      BY <2>1, <2>4, <2>7 DEF Dispose
    <2>8. CASE SocketOpens
      BY <2>1, <2>2, <2>4, <2>8 DEF SocketOpens
    <2>9. CASE SocketErrors \/ SocketCloses \/ NoPeer \/ ChannelDies \/ SignalingFails
      BY <2>1, <2>2, <2>4, <2>9 DEF SocketErrors, SocketCloses, NoPeer, ChannelDies, SignalingFails
    <2>10. CASE ChannelOpens
      <3>1. Cleared(conn, "ice") \in Conn
        BY <2>1, <2>4
      <3> QED
        BY <2>3, <2>10, <3>1 DEF ChannelOpens, Conn
    <2>11. CASE ConnectTimeout \/ IceTimeout \/ ReconnectTimer
      BY <2>1, <2>4, <2>11 DEF ConnectTimeout, IceTimeout, ReconnectTimer
    <2>12. CASE UNCHANGED transportVars
      BY <2>12 DEF transportVars
    <2> QED
      BY <2>5, <2>6, <2>7, <2>8, <2>9, <2>10, <2>11, <2>12 DEF TransportNext
  <1> QED
    BY <1>1, <1>2

\* Every step keeps the rest, one case per action.
LEMMA TransportReal ==
    ASSUME TransportTypeOK, [TransportNext]_transportVars, ~link.slow, ~link.loss,
           HoldsWhatItReports(conn)
    PROVE  HoldsWhatItReports(conn')
  <1> conn \in Conn
    BY DEF TransportTypeOK
  <1> USE DEF Becomes
  <1>1. CASE StartTransport
    <2> DEFINE c == Reports(conn, "connecting")
    <2>1. /\ c \in Conn /\ c.mode = "none" /\ c.socket = "none" /\ c.channel = "none"
          /\ c.transport = "none" /\ c.timers = {} /\ c.status = "connecting"
      <3>1. c \in Conn
        BY HelpersTyped DEF Statuses, Timers
      <3> QED
        BY <1>1, <3>1 DEF StartTransport, HoldsWhatItReports, Reports, Conn
    <2> HIDE DEF c
    <2> QED
      BY <1>1, <2>1, InitialReal DEF StartTransport, c
  <1>2. CASE Reconnect
    <2> DEFINE a == AllClosed(ClearTimers(conn))
               b == [a EXCEPT !.tries = 0]
               c == Reports(b, "reconnecting")
    <2>1. /\ a \in Conn /\ a.mode = "none" /\ a.socket = "none" /\ a.channel = "none"
          /\ a.timers = {}
      <3>1. a \in Conn
        BY HelpersTyped DEF Statuses, Timers
      <3> QED
        BY <3>1 DEF AllClosed, ClearTimers, TornDown, Cleared, Conn
    <2> HIDE DEF a
    <2>2. b \in Conn
      BY <2>1, TransportAssumption DEF Conn
    <2>3. /\ c \in Conn /\ c.mode = "none" /\ c.socket = "none" /\ c.channel = "none"
          /\ c.transport = "none" /\ c.timers = {} /\ c.status = "reconnecting"
      <3>1. c \in Conn
        BY <2>2, HelpersTyped DEF Statuses, Timers
      <3> QED
        BY <2>1, <2>2, <3>1 DEF Reports, Conn
    <2> HIDE DEF c
    <2> QED
      BY <1>2, <2>3, InitialReal DEF Reconnect, a, c
  <1>3. CASE Dispose
    BY <1>3 DEF Dispose, Reports, AllClosed, ClearTimers, TornDown, Cleared, Conn, HoldsWhatItReports
  <1>4. CASE SocketOpens
    <2> DEFINE c == Cleared([conn EXCEPT !.socket = "open"], "connect")
    <2>1. /\ conn.socket = "connecting" /\ "connect" \in conn.timers
          /\ conn' = IF c.mode = "fallback" THEN MarkWebSocketOpen(c) ELSE Negotiate(c)
      BY <1>4 DEF SocketOpens
    <2>2. c = [conn EXCEPT !.socket = "open", !.timers = conn.timers \ {"connect"}]
      BY DEF Cleared, Conn
    <2>3. /\ c \in Conn /\ c.socket = "open" /\ c.channel = "none" /\ c.mode = conn.mode
          /\ c.transport \in {"none", "websocket"} /\ c.mode # "none"
          /\ "reconnect" \notin c.timers /\ c.status # "open" /\ c.status # "idle"
          /\ c.transport = "websocket" => c.mode = "fallback"
      <3>1. /\ c \in Conn /\ c.socket = "open" /\ c.channel = conn.channel /\ c.mode = conn.mode
            /\ c.transport = conn.transport /\ c.status = conn.status
            /\ c.timers = conn.timers \ {"connect"}
        BY <2>2 DEF Conn
      <3>2. conn.transport \in {"none", "webrtc", "websocket"}
        BY DEF Conn
      <3> HIDE DEF c
      <3> QED
        BY <2>1, <3>1, <3>2 DEF HoldsWhatItReports
    <2> HIDE DEF c
    <2>4. CASE c.mode = "fallback"
      BY <2>1, <2>3, <2>4 DEF MarkWebSocketOpen, Conn, HoldsWhatItReports
    <2>5. CASE c.mode # "fallback"
      <3> DEFINE n == IF c.status \in {"connecting", "negotiating"}
                      THEN Reports(c, "negotiating") ELSE c
      <3>1. /\ n \in Conn /\ n.socket = "open" /\ n.channel = "none" /\ n.mode = "signaling"
            /\ n.transport = "none" /\ "reconnect" \notin n.timers
            /\ n.status # "open" /\ n.status # "idle"
        BY <2>3, <2>5 DEF Conn, Reports
      <3>2. conn' = IF link.rtc = "broken" THEN EnterFallback(n)
                    ELSE Armed([n EXCEPT !.channel = "opening"], "ice")
        BY <2>1, <2>5 DEF Negotiate
      <3> HIDE DEF n
      <3>3. HoldsWhatItReports(EnterFallback(n))
        BY <3>1, FallbackReal
      <3>4. HoldsWhatItReports(Armed([n EXCEPT !.channel = "opening"], "ice"))
        BY <3>1 DEF Armed, Conn, HoldsWhatItReports
      <3> QED
        BY <3>2, <3>3, <3>4
    <2> QED
      BY <2>4, <2>5
  <1>5. CASE SocketErrors
    <2> DEFINE c == [conn EXCEPT !.socket = "failing"]
    <2>1. /\ conn.socket \in {"connecting", "open"} /\ conn.transport # "webrtc"
          /\ conn' = IF c.mode = "signaling" /\ c.transport # "webrtc"
                     THEN EnterFallback(c) ELSE c
      BY <1>5 DEF SocketErrors, MayDrop
    <2>2. c \in Conn /\ c.mode = conn.mode /\ c.timers = conn.timers /\ c.transport = conn.transport
      BY DEF Conn
    <2>3. CASE c.mode = "signaling"
      <3>1. HoldsWhatItReports(EnterFallback(c))
        BY <2>2, <2>3, FallbackReal DEF HoldsWhatItReports
      <3> QED
        BY <2>1, <2>2, <2>3, <3>1
    <2>4. CASE c.mode # "signaling"
      BY <2>1, <2>4 DEF HoldsWhatItReports, Conn
    <2> QED
      BY <2>3, <2>4
  <1>6. CASE SocketCloses
    <2> DEFINE c == [conn EXCEPT !.socket = "none"]
    <2>1. /\ conn.socket \in {"open", "failing"} /\ conn.transport # "webrtc"
          /\ conn' = IF c.status # "open" /\ c.mode = "signaling"
                     THEN EnterFallback(c) ELSE ScheduleReconnect(c)
      BY <1>6 DEF SocketCloses, MayDrop
    <2>2. /\ c \in Conn /\ c.mode = conn.mode /\ c.timers = conn.timers
          /\ c.transport = conn.transport /\ c.status = conn.status /\ c.socket = "none"
          /\ c.channel = conn.channel
      BY DEF Conn
    <2> HIDE DEF c
    <2>3. CASE c.status # "open" /\ c.mode = "signaling"
      BY <2>1, <2>2, <2>3, FallbackReal DEF HoldsWhatItReports
    <2>4. CASE ~(c.status # "open" /\ c.mode = "signaling")
      <3>1. c.mode = "fallback" /\ c.channel = "none" /\ c.transport # "webrtc"
        BY <2>1, <2>2, <2>4 DEF HoldsWhatItReports, Conn
      <3> QED
        BY <2>1, <2>2, <2>4, <3>1, ScheduleReal DEF HoldsWhatItReports
    <2> QED
      BY <2>3, <2>4
  <1>7. CASE NoPeer \/ SignalingFails
    BY <1>7, FallbackReal DEF NoPeer, SignalingFails, HoldsWhatItReports
  <1>8. CASE ChannelOpens
    BY <1>8 DEF ChannelOpens, Cleared, Conn, HoldsWhatItReports
  <1>9. CASE ChannelDies
    <2> DEFINE c == [conn EXCEPT !.channel = "dead"]
    <2>1. /\ c \in Conn /\ c.mode = "signaling" /\ c.transport # "websocket"
          /\ "reconnect" \notin c.timers
      BY <1>9 DEF ChannelDies, HoldsWhatItReports, Conn
    <2> HIDE DEF c
    <2> QED
      BY <1>9, <2>1, FallbackReal DEF ChannelDies, c
  <1>10. CASE ConnectTimeout
    <2> DEFINE c == Cleared(conn, "connect")
    <2>1. /\ "connect" \in conn.timers
          /\ conn' = IF c.status = "open" THEN c
                     ELSE IF c.mode = "signaling" THEN EnterFallback(c)
                     ELSE ScheduleReconnect(c)
      BY <1>10 DEF ConnectTimeout, Fires
    <2>2. /\ c \in Conn /\ c.timers = conn.timers \ {"connect"}
          /\ HoldsWhatItReports(c) /\ c.mode # "none"
      BY <2>1 DEF Cleared, Conn, HoldsWhatItReports
    <2> HIDE DEF c
    <2>3. CASE c.status = "open"
      BY <2>1, <2>2, <2>3
    <2>4. CASE c.status # "open" /\ c.mode = "signaling"
      BY <2>1, <2>2, <2>4, FallbackReal DEF HoldsWhatItReports
    <2>5. CASE c.status # "open" /\ c.mode # "signaling"
      <3>1. c.mode = "fallback" /\ c.channel = "none" /\ c.transport # "webrtc"
        BY <2>2, <2>5 DEF HoldsWhatItReports, Conn
      <3> QED
        BY <2>1, <2>2, <2>5, <3>1, ScheduleReal DEF HoldsWhatItReports
    <2> QED
      BY <2>3, <2>4, <2>5
  <1>11. CASE IceTimeout
    <2> DEFINE c == Cleared(conn, "ice")
    <2>1. conn' = IF c.transport = "webrtc" THEN c ELSE EnterFallback(c)
      BY <1>11 DEF IceTimeout
    <2>2. c \in Conn /\ HoldsWhatItReports(c)
      BY DEF Cleared, Conn, HoldsWhatItReports
    <2> HIDE DEF c
    <2> QED
      BY <2>1, <2>2, FallbackReal DEF HoldsWhatItReports
  <1>12. CASE ReconnectTimer
    <2> DEFINE c == AllClosed(Cleared(conn, "reconnect"))
    <2>1. "reconnect" \in conn.timers /\ conn' = OpenInitial(c)
      BY <1>12 DEF ReconnectTimer, Fires
    <2>2. c \in Conn
      BY HelpersTyped DEF Statuses, Timers
    <2>3. /\ c.mode = "none" /\ c.socket = "none" /\ c.channel = "none"
          /\ c.transport = conn.transport /\ c.status = conn.status
          /\ "reconnect" \notin c.timers
      BY DEF AllClosed, TornDown, Cleared, Conn
    <2>4. conn.transport = "none" /\ conn.status \notin {"idle", "open"}
      BY <2>1 DEF HoldsWhatItReports, Conn
    <2> HIDE DEF c
    <2> QED
      BY <2>1, <2>2, <2>3, <2>4, InitialReal
  <1>13. CASE UNCHANGED transportVars
    BY <1>13 DEF transportVars
  <1> QED
    BY <1>1, <1>2, <1>3, <1>4, <1>5, <1>6, <1>7, <1>8, <1>9, <1>10, <1>11, <1>12, <1>13
    DEF TransportNext

\* The link is fixed.
LEMMA LinkFixed == [TransportNext]_transportVars => link' = link
  BY DEF TransportNext, transportVars, StartTransport, Reconnect, Dispose, SocketOpens,
     SocketErrors, SocketCloses, NoPeer, ChannelOpens, ChannelDies, SignalingFails,
     ConnectTimeout, IceTimeout, ReconnectTimer, Becomes

\* The invariant holds from the start.
LEMMA TransportAlways == TransportSpec => []TransportInv
  <1>1. TransportInit => TransportInv
    BY TransportAssumption DEF TransportInit, TransportInv, TransportTypeOK, Conn, HoldsWhatItReports
  <1>2. TransportInv /\ [TransportNext]_transportVars => TransportInv'
    BY TransportTyped, TransportReal, LinkFixed DEF TransportInv
  <1> QED
    BY <1>1, <1>2, PTL DEF TransportSpec

\* A transport that reports itself open has the connection it names, whatever
\* fallbacks, reconnects and timers of earlier attempts came before.
THEOREM OpenIsAlwaysReal == TransportSpec => []OpenIsReal
  <1>1. TransportInv => OpenIsReal
    BY DEF TransportInv, TransportTypeOK, Conn, HoldsWhatItReports, OpenIsReal
  <1> QED
    BY <1>1, TransportAlways, PTL

------------------------------------------------------------------------------
(* Session sync                                                              *)

\* What is known of a publish: an entry in the queue is the call's own, waits, and has
\* not been received; who waits, waits for an entry in the queue.
Told(c) ==
    /\ InLine(pending, c) => answer[c] = "waiting" /\ joined[c] = c /\ c \notin sent
    /\ c \in sent \/ InLine(toSend, c) => answer[c] # "none"
    /\ InLine(pending, c) \/ InLine(toSend, c) => attempts[c] <= SendRetries
    /\ answer[c] = "none" => joined[c] = c /\ attempts[c] = 0 /\ c \notin deduped
    /\ answer[c] = "waiting" => InLine(pending, joined[c])
    /\ answer[c] = "resolved" /\ c \notin deduped /\ channel => joined[c] \in sent
    /\ answer[c] = "rejected" => joined[c] \notin sent /\ ~InLine(pending, joined[c])
    /\ answer[joined[c]] = "none" => joined[c] = c

\* A publish of the same payload was made and has an entry.
Repeats(c) == \E d \in Publishes \ deduped : PayloadOf[d] = PayloadOf[c] /\ answer[d] # "none"

\* What is recent was published, and what was answered for being recent repeats it.
Remembered ==
    \A c \in Publishes : PayloadOf[c] \in recent \/ c \in deduped => Repeats(c)

\* The inductive invariant of the session sync.
SessionInv ==
    /\ SessionTypeOK /\ Apart(pending) /\ Apart(toSend)
    /\ mounted => \A c \in Publishes : InLine(toSend, c) => InLine(pending, c)
    /\ \A c \in Publishes : Told(c)
    /\ Remembered

\* An empty line, and the elements of a line.
LEMMA LineFacts ==
    /\ <<>> \in Seq(Publishes) /\ Apart(<<>>) /\ \A x : ~InLine(<<>>, x)
    /\ \A s \in Seq(Publishes) : \A x : x \in ToSet(s) <=> InLine(s, x)
    /\ \A s : \A x : Contains(s, x) <=> InLine(s, x)
  <1>1. /\ <<>> \in Seq(Publishes) /\ Apart(<<>>) /\ \A x : ~InLine(<<>>, x)
    BY DEF Apart, InLine
  <1>2. \A s \in Seq(Publishes) : \A x : x \in ToSet(s) <=> InLine(s, x)
    BY DEF ToSet, InLine
  <1>3. \A s : \A x : Contains(s, x) <=> InLine(s, x)
    BY DEF Contains, InLine
  <1> QED
    BY <1>1, <1>2, <1>3

\* Answered publishes stay answered and keep their entries; what is added to the recent
\* ones and to those answered for it repeats a publish.
LEMMA RememberedKept ==
    ASSUME Remembered,
           \A d \in Publishes : answer[d] # "none" =>
                answer'[d] # "none" /\ (d \in deduped' => d \in deduped),
           \A c \in Publishes : PayloadOf[c] \in recent' \/ c \in deduped' =>
                PayloadOf[c] \in recent \/ c \in deduped \/ Repeats(c)'
    PROVE  Remembered'
  <1>1. ASSUME NEW c \in Publishes, Repeats(c) PROVE Repeats(c)'
    <2>1. PICK d \in Publishes \ deduped : PayloadOf[d] = PayloadOf[c] /\ answer[d] # "none"
      BY <1>1 DEF Repeats
    <2>2. d \in Publishes \ deduped' /\ answer'[d] # "none"
      BY <2>1
    <2> QED
      BY <2>1, <2>2 DEF Repeats
  <1> QED
    BY <1>1 DEF Remembered

\* An entry leaves the queue, sent or given up: those who wait for it are answered.
LEMMA ResolveKeeps ==
    ASSUME SessionInv, toSend # <<>>,
           NEW outcome \in {"resolved", "rejected"}, Resolves(Head(toSend), outcome),
           toSend' = Tail(toSend), UNCHANGED <<channel, mounted, joined, recent, kicked, deduped>>,
           attempts' \in [Publishes -> 0..(SendRetries + 1)],
           \A c \in Publishes : c # Head(toSend) => attempts'[c] = attempts[c],
           outcome = "resolved" /\ channel => mounted /\ sent' = sent \cup {Head(toSend)},
           outcome = "rejected" \/ ~channel => sent' = sent
    PROVE  SessionInv'
  <1> DEFINE e == Head(toSend)
             rest == Tail(toSend)
             left == RemoveFirst(pending, e)
  <1>1. /\ pending \in Seq(Publishes) /\ toSend \in Seq(Publishes)
        /\ joined \in [Publishes -> Publishes] /\ answer \in [Publishes -> Answer]
        /\ Apart(pending) /\ Apart(toSend) /\ sent \subseteq Publishes
        /\ attempts \in [Publishes -> 0..(SendRetries + 1)]
    BY DEF SessionInv, SessionTypeOK
  <1>2. /\ e \in Publishes /\ InLine(toSend, e) /\ rest \in Seq(Publishes) /\ Apart(rest)
        /\ \A x : InLine(rest, x) <=> InLine(toSend, x) /\ x # e
    BY <1>1, HeadInLine
  <1>3. /\ left \in Seq(Publishes) /\ Apart(left)
        /\ \A x : InLine(left, x) <=> InLine(pending, x) /\ x # e
    BY <1>1, RemovalInLine
  <1>4. /\ pending' = left /\ toSend' = rest
        /\ answer' = [c \in Publishes |->
                IF InLine(pending, e) /\ joined[c] = e /\ answer[c] = "waiting"
                THEN outcome ELSE answer[c]]
    BY LineFacts DEF Resolves
  <1> HIDE DEF e, rest, left
  <1>5. /\ answer' \in [Publishes -> Answer]
        /\ \A c \in Publishes : answer'[c] =
                IF InLine(pending, e) /\ joined[c] = e /\ answer[c] = "waiting"
                THEN outcome ELSE answer[c]
    BY <1>1, <1>4 DEF Answer
  <1>6. /\ sent' \subseteq Publishes /\ \A x : x \in sent => x \in sent'
        /\ \A x : x \in sent' => x \in sent \/ (x = e /\ outcome = "resolved" /\ channel)
        /\ outcome = "resolved" /\ channel => e \in sent'
        /\ outcome = "resolved" /\ channel => mounted
    BY <1>1, <1>2 DEF e
  <1>7. SessionTypeOK'
    BY <1>2, <1>3, <1>4, <1>5, <1>6 DEF SessionInv, SessionTypeOK
  <1>8. mounted' => \A c \in Publishes : InLine(toSend', c) => InLine(pending', c)
    BY <1>2, <1>3, <1>4 DEF SessionInv
  <1>9. outcome = "resolved" /\ channel => InLine(pending, e)
    BY <1>2, <1>6 DEF SessionInv
  <1>10. ASSUME NEW c \in Publishes PROVE Told(c)'
    <2>1. Told(c) /\ joined[c] \in Publishes /\ joined'[c] = joined[c]
      BY <1>1 DEF SessionInv
    <2>2. c # e => attempts'[c] = attempts[c]
      BY DEF e
    <2>3. answer'[joined[c]] = "none" => answer[joined[c]] = "none"
      BY <1>5, <2>1
    <2>4. InLine(pending', c) => InLine(pending, c) /\ c # e
      BY <1>3, <1>4
    <2>5. InLine(toSend', c) => InLine(toSend, c) /\ c # e
      BY <1>2, <1>4
    <2>6. InLine(pending', joined[c]) <=> InLine(pending, joined[c]) /\ joined[c] # e
      BY <1>3, <1>4
    <2>7. Told(e) /\ e \in Publishes
      BY <1>2 DEF SessionInv
    <2>8. CASE InLine(pending, e) /\ joined[c] = e /\ answer[c] = "waiting"
      <3>1. answer'[c] = outcome
        BY <1>5, <2>8
      <3>2. ~InLine(pending', c)
        BY <2>1, <2>4, <2>8 DEF Told
      <3>3. e \notin sent
        BY <2>7, <2>8 DEF Told
      <3> QED
        BY <1>6, <2>1, <2>2, <2>3, <2>4, <2>5, <2>6, <2>8, <3>1, <3>2, <3>3 DEF Told
    <2>9. CASE ~(InLine(pending, e) /\ joined[c] = e /\ answer[c] = "waiting")
      <3>1. answer'[c] = answer[c]
        BY <1>5, <2>9
      <3>2. answer[c] = "waiting" => InLine(pending', joined[c])
        BY <2>1, <2>6, <2>9 DEF Told
      <3>3. answer[c] = "none" => c # e
        BY <1>2, <2>7 DEF Told
      <3>4. c \in sent' => answer[c] # "none"
        BY <1>6, <2>1, <3>3 DEF Told
      <3>5. answer[c] = "rejected" => joined[c] \notin sent'
        BY <1>6, <1>9, <2>1 DEF Told
      <3>6. InLine(pending', c) => c \notin sent'
        BY <1>6, <2>1, <2>4 DEF Told
      <3> QED
        BY <1>6, <2>1, <2>2, <2>3, <2>4, <2>5, <2>6, <3>1, <3>2, <3>3, <3>4, <3>5, <3>6 DEF Told
    <2> QED
      BY <2>8, <2>9
  <1>11. Remembered'
    BY <1>5, RememberedKept DEF SessionInv
  <1> QED
    BY <1>2, <1>3, <1>4, <1>7, <1>8, <1>10, <1>11 DEF SessionInv

\* Every step of the session sync keeps the invariant, one case per action.
LEMMA SessionNextKeeps == SessionInv /\ [SessionNext]_sessionVars => SessionInv'
  <1> SUFFICES ASSUME SessionInv, [SessionNext]_sessionVars PROVE SessionInv'
    OBVIOUS
  <1>1. /\ pending \in Seq(Publishes) /\ toSend \in Seq(Publishes)
        /\ joined \in [Publishes -> Publishes] /\ answer \in [Publishes -> Answer]
        /\ Apart(pending) /\ Apart(toSend) /\ sent \subseteq Publishes
        /\ attempts \in [Publishes -> 0..(SendRetries + 1)] /\ recent \subseteq Payloads
        /\ mounted \in BOOLEAN /\ kicked \in BOOLEAN
        /\ channel \in BOOLEAN /\ deduped \subseteq Publishes
    BY DEF SessionInv, SessionTypeOK
  <1>2. ASSUME NEW c \in Publishes, Deduped(c) PROVE SessionInv'
    <2>1. /\ answer[c] = "none" /\ answer' = [answer EXCEPT ![c] = "resolved"]
          /\ PayloadOf[c] \in recent /\ deduped' = deduped \cup {c}
          /\ UNCHANGED <<channel, mounted, pending, joined, attempts, recent, toSend, kicked, sent>>
      BY <1>2 DEF Deduped
    <2>2. SessionTypeOK'
      BY <1>1, <2>1 DEF SessionTypeOK, Answer
    <2>3. ASSUME NEW d \in Publishes PROVE Told(d)'
      <3>1. Told(d) /\ Told(c)
        BY DEF SessionInv
      <3>2. /\ answer'[d] = IF d = c THEN "resolved" ELSE answer[d]
            /\ answer'[joined[d]] = "none" => answer[joined[d]] = "none"
        BY <1>1, <2>1
      <3> QED
        BY <2>1, <3>1, <3>2 DEF Told
    <2>4. Remembered'
      <3>1. \A d \in Publishes : answer[d] # "none" =>
                answer'[d] # "none" /\ (d \in deduped' => d \in deduped)
        BY <1>1, <2>1
      <3>2. \A d \in Publishes : PayloadOf[d] \in recent' \/ d \in deduped' =>
                PayloadOf[d] \in recent \/ d \in deduped
        BY <2>1
      <3> QED
        BY <3>1, <3>2, RememberedKept DEF SessionInv
    <2> QED
      BY <2>1, <2>2, <2>3, <2>4 DEF SessionInv
  <1>3. ASSUME NEW c \in Publishes, Publish(c) PROVE SessionInv'
    <2>1. /\ answer[c] = "none" /\ answer' = [answer EXCEPT ![c] = "waiting"]
          /\ recent' = recent \cup {PayloadOf[c]}
          /\ UNCHANGED <<channel, deduped, mounted, attempts, toSend, sent>>
      BY <1>3 DEF Publish
    <2>2. recent' \subseteq Payloads
      BY <1>1, <2>1 DEF Payloads
    <2>3. answer' \in [Publishes -> Answer] /\ answer'[c] = "waiting"
      BY <1>1, <2>1 DEF Answer
    <2>4. /\ Told(c) /\ ~InLine(pending, c) /\ ~InLine(toSend, c) /\ c \notin sent
          /\ joined[c] = c /\ attempts[c] = 0 /\ 0 <= SendRetries
      BY <2>1, SessionAssumption DEF SessionInv, Told
    <2>5. \A d \in Publishes : Told(d) /\ (d # c => answer'[d] = answer[d])
      BY <1>1, <2>1 DEF SessionInv
    <2>8. Remembered'
      <3>1. c \notin deduped
        BY <2>1 DEF SessionInv, Told
      <3>2. \A d \in Publishes : PayloadOf[d] = PayloadOf[c] => Repeats(d)'
        BY <2>1, <2>3, <3>1 DEF Repeats
      <3> QED
        BY <1>1, <2>1, <2>3, <2>5, <3>2, RememberedKept DEF SessionInv
    <2>6. CASE \E e \in SameEntry(c) :
                    joined' = [joined EXCEPT ![c] = e] /\ UNCHANGED <<pending, kicked>>
      <3>1. PICK e \in Publishes : /\ InLine(pending, e)
                                   /\ joined' = [joined EXCEPT ![c] = e]
                                   /\ UNCHANGED <<pending, kicked>>
        <4>1. PICK e \in SameEntry(c) :
                    joined' = [joined EXCEPT ![c] = e] /\ UNCHANGED <<pending, kicked>>
          BY <2>6
        <4>2. e \in ToSet(pending)
          BY <4>1 DEF SameEntry
        <4>3. InLine(pending, e)
          BY <1>1, <4>2, LineFacts
        <4>4. e \in Publishes
          BY <1>1, <4>3 DEF InLine
        <4> QED
          BY <4>1, <4>3, <4>4
      <3>2. joined' \in [Publishes -> Publishes]
        BY <1>1, <3>1
      <3>3. SessionTypeOK'
        BY <1>1, <2>1, <2>2, <2>3, <3>1, <3>2 DEF SessionTypeOK
      <3>4. Told(c)'
        <4>1. answer[e] = "waiting" /\ e # c
          BY <2>4, <3>1 DEF SessionInv, Told
        <4>2. joined'[c] = e /\ answer'[e] = "waiting"
          BY <1>1, <2>1, <3>1, <4>1
        <4> QED
          BY <2>1, <2>3, <2>4, <3>1, <4>2 DEF Told
      <3>5. ASSUME NEW d \in Publishes \ {c} PROVE Told(d)'
        <4>1. joined'[d] = joined[d] /\ answer'[d] = answer[d] /\ Told(d)
          BY <1>1, <2>1, <2>5, <3>1
        <4>2. answer'[joined[d]] = "none" => answer[joined[d]] = "none"
          BY <1>1, <2>1, <2>3
        <4> QED
          BY <2>1, <3>1, <4>1, <4>2 DEF Told
      <3> QED
        BY <1>1, <2>1, <2>8, <3>1, <3>3, <3>4, <3>5 DEF SessionInv
    <2>7. CASE pending' = Append(pending, c) /\ kicked' = TRUE /\ UNCHANGED joined
      <3>1. /\ pending' \in Seq(Publishes) /\ Apart(pending')
            /\ \A x : InLine(pending', x) <=> InLine(pending, x) \/ x = c
        BY <1>1, <2>4, <2>7, AppendInLine
      <3>2. SessionTypeOK'
        BY <1>1, <2>1, <2>2, <2>3, <2>7, <3>1 DEF SessionTypeOK
      <3>3. Told(c)'
        BY <2>1, <2>3, <2>4, <2>7, <3>1 DEF Told
      <3>4. ASSUME NEW d \in Publishes \ {c} PROVE Told(d)'
        <4>1. joined'[d] = joined[d] /\ answer'[d] = answer[d] /\ Told(d)
          BY <1>1, <2>1, <2>5, <2>7
        <4>2. answer'[joined[d]] = "none" => answer[joined[d]] = "none"
          BY <1>1, <2>1, <2>3
        <4>3. joined[d] = c => FALSE
          BY <2>1, <4>1 DEF Told
        <4> QED
          BY <2>1, <2>7, <3>1, <4>1, <4>2, <4>3 DEF Told
      <3> QED
        BY <1>1, <2>1, <2>8, <3>1, <3>2, <3>3, <3>4 DEF SessionInv
    <2> QED
      BY <1>3, <2>6, <2>7 DEF Publish
  <1>4. ASSUME NEW p \in Payloads, WindowEnds(p) PROVE SessionInv'
    BY <1>1, <1>4, RememberedKept DEF WindowEnds, SessionInv, SessionTypeOK, Told
  <1>5. CASE Kick \/ UserFlush
    <2>1. /\ toSend' = toSend \/ toSend' = pending
          /\ UNCHANGED <<channel, deduped, mounted, pending, joined, attempts, recent, answer, sent>>
          /\ kicked' \in BOOLEAN
      BY <1>1, <1>5 DEF Kick, UserFlush
    <2>2. SessionTypeOK' /\ Apart(toSend')
      BY <1>1, <2>1 DEF SessionTypeOK
    <2>3. ASSUME NEW c \in Publishes PROVE Told(c)'
      <3>1. Told(c)
        BY DEF SessionInv
      <3>2. InLine(toSend', c) => InLine(toSend, c) \/ InLine(pending, c)
        BY <2>1
      <3> QED
        BY <2>1, <3>1, <3>2 DEF Told
    <2>4. Remembered'
      BY <2>1, RememberedKept DEF SessionInv
    <2> QED
      BY <1>1, <2>1, <2>2, <2>3, <2>4 DEF SessionInv
  <1>6. CASE Send
    <2>1. /\ toSend # <<>>
          /\ mounted \/ ~channel
          /\ sent' = IF channel THEN sent \cup {Head(toSend)} ELSE sent
          /\ Resolves(Head(toSend), "resolved") /\ toSend' = Tail(toSend)
          /\ UNCHANGED <<channel, mounted, joined, recent, kicked, deduped>>
          /\ attempts' = attempts
      BY <1>6 DEF Send, Inflight
    <2> QED
      BY <1>1, <2>1, ResolveKeeps
  <1>7. CASE SendThrows
    <2> DEFINE e == Head(toSend)
    <2>1. /\ toSend # <<>> /\ attempts' = [attempts EXCEPT ![e] = attempts[e] + 1]
          /\ UNCHANGED <<channel, deduped, mounted, joined, recent, kicked, sent>>
      BY <1>7 DEF SendThrows, Inflight
    <2>2. e \in Publishes /\ InLine(toSend, e)
      BY <1>1, <2>1, HeadInLine
    <2>3. attempts[e] <= SendRetries /\ attempts[e] \in Nat /\ answer[e] # "none"
      BY <1>1, <2>2 DEF SessionInv, Told
    <2> HIDE DEF e
    <2>4. attempts[e] + 1 \in 0..(SendRetries + 1)
      BY <2>3, SessionAssumption
    <2>5. /\ attempts' \in [Publishes -> 0..(SendRetries + 1)]
          /\ \A c \in Publishes : attempts'[c] = IF c = e THEN attempts[e] + 1 ELSE attempts[c]
      BY <1>1, <2>1, <2>2, <2>4
    <2>6. CASE attempts[e] < SendRetries
      <3>1. UNCHANGED <<pending, answer, toSend>>
        BY <1>7, <2>6 DEF SendThrows, e
      <3>2. SessionTypeOK'
        BY <1>1, <2>1, <2>5, <3>1 DEF SessionTypeOK
      <3>3. ASSUME NEW c \in Publishes PROVE Told(c)'
        <4>1. Told(c)
          BY DEF SessionInv
        <4>2. c = e => attempts'[c] <= SendRetries
          BY <2>3, <2>5, <2>6, SessionAssumption
        <4>3. c # e => attempts'[c] = attempts[c]
          BY <2>5
        <4> QED
          BY <2>1, <2>3, <3>1, <4>1, <4>2, <4>3 DEF Told
      <3>4. Remembered'
        BY <2>1, <3>1, RememberedKept DEF SessionInv
      <3> QED
        BY <1>1, <2>1, <3>1, <3>2, <3>3, <3>4 DEF SessionInv
    <2>7. CASE ~(attempts[e] < SendRetries)
      <3>1. Resolves(Head(toSend), "rejected") /\ toSend' = Tail(toSend)
        BY <1>7, <2>7 DEF SendThrows, e
      <3>2. \A c \in Publishes : c # Head(toSend) => attempts'[c] = attempts[c]
        BY <2>5 DEF e
      <3> QED
        BY <2>1, <2>5, <3>1, <3>2, ResolveKeeps
    <2> QED
      BY <2>6, <2>7
  <1>8. CASE Unmount
    <2>1. /\ mounted' = FALSE /\ pending' = <<>>
          /\ answer' = [c \in Publishes |-> IF answer[c] = "waiting" THEN "rejected" ELSE answer[c]]
          /\ UNCHANGED <<channel, deduped, joined, attempts, recent, toSend, kicked, sent>>
      BY <1>8 DEF Unmount
    <2>2. /\ answer' \in [Publishes -> Answer]
          /\ \A c \in Publishes :
                answer'[c] = IF answer[c] = "waiting" THEN "rejected" ELSE answer[c]
      BY <1>1, <2>1 DEF Answer
    <2>3. /\ pending' \in Seq(Publishes) /\ Apart(pending') /\ \A x : ~InLine(pending', x)
      BY <2>1, LineFacts
    <2>4. SessionTypeOK'
      BY <1>1, <2>1, <2>2, <2>3 DEF SessionTypeOK
    <2>5. ASSUME NEW c \in Publishes PROVE Told(c)'
      <3>1. Told(c) /\ joined[c] \in Publishes /\ Told(joined[c])
        BY <1>1 DEF SessionInv
      <3>2. answer'[joined[c]] = "none" => answer[joined[c]] = "none"
        BY <2>2, <3>1
      <3>3. answer[c] = "waiting" => joined[c] \notin sent
        BY <3>1 DEF Told
      <3> QED
        BY <2>1, <2>2, <2>3, <3>1, <3>2, <3>3 DEF Told
    <2>6. Remembered'
      BY <2>1, <2>2, RememberedKept DEF SessionInv
    <2> QED
      BY <1>1, <2>1, <2>3, <2>4, <2>5, <2>6 DEF SessionInv
  <1>9. CASE UNCHANGED sessionVars
    <2>1. /\ UNCHANGED <<mounted, pending, joined, attempts, recent, toSend, kicked, answer, sent>>
          /\ UNCHANGED <<channel, deduped>>
      BY <1>9 DEF sessionVars
    <2>2. Remembered'
      BY <2>1, RememberedKept DEF SessionInv
    <2> QED
      BY <2>1, <2>2 DEF SessionInv, SessionTypeOK, Told
  <1> QED
    BY <1>2, <1>3, <1>4, <1>5, <1>6, <1>7, <1>8, <1>9 DEF SessionNext, FlushSteps

\* The invariant holds from the start.
LEMMA SessionStarts == SessionInit => SessionInv
  <1> SUFFICES ASSUME SessionInit PROVE SessionInv
    OBVIOUS
  <1>1. SessionTypeOK
    <2>1. 0 \in 0..(SendRetries + 1) /\ "none" \in Answer
      BY SessionAssumption DEF Answer
    <2> QED
      BY <2>1, LineFacts DEF SessionInit, SessionTypeOK
  <1>2. ASSUME NEW c \in Publishes PROVE Told(c)
    BY LineFacts DEF SessionInit, Told
  <1>3. Remembered
    BY DEF SessionInit, Remembered
  <1> QED
    BY <1>1, <1>2, <1>3, LineFacts DEF SessionInit, SessionInv

LEMMA SessionAlways == SessionSpec => []SessionInv
  BY SessionStarts, SessionNextKeeps, PTL DEF SessionSpec

\* Who waits has an entry in the queue, who was rejected has none that was posted, and who
\* was told success has one that was, unless there is no channel or another publish of the
\* same payload, with an entry of its own, stands for it.
THEOREM AnswersAreAlwaysTrue == SessionSpec => []AnswersAreTrue
  <1>1. SessionInv => AnswersAreTrue
    <2> SUFFICES ASSUME SessionInv PROVE AnswersAreTrue
      OBVIOUS
    <2>1. ASSUME NEW c \in Publishes
          PROVE  /\ answer[c] = "waiting" => Contains(pending, joined[c])
                 /\ answer[c] = "rejected" => joined[c] \notin sent
                 /\ answer[c] = "resolved" /\ c \notin deduped /\ channel => joined[c] \in sent
      BY LineFacts DEF SessionInv, Told
    <2>2. ASSUME NEW c \in deduped
          PROVE  \E d \in Publishes \ deduped :
                        PayloadOf[d] = PayloadOf[c] /\ answer[d] # "none"
      BY <2>2 DEF SessionInv, SessionTypeOK, Remembered, Repeats
    <2> QED
      BY <2>1, <2>2 DEF AnswersAreTrue
  <1> QED
    BY <1>1, SessionAlways, PTL

------------------------------------------------------------------------------
(* Domain events: where an event is                                          *)

\* No event has two entries in a queue.
OneEach(q) == \A i, j \in DOMAIN q : q[i].envelope = q[j].envelope => i = j
Queue == {q \in Seq(Entry) : Len(q) <= MaxEventLetters /\ OneEach(q)}

Tried(e) == delivery[e].pc \in {"running", "waiting"}
Replayed(e) == \E x \in replaying : x.envelope = e

\* Where the event is: tried, or after that replayed or in the queue.
Whereabouts(e) ==
    /\ delivery[e].pc = "running" => delivery[e].n > 0
    /\ delivery[e].pc = "waiting" => delivery[e].n <= EventRetries
    /\ e \in InQueue(entries) \cup InQueue(saved) => delivery[e].pc = "over"
    /\ Replayed(e) => delivery[e].pc = "over" /\ e \notin InQueue(entries)
    /\ delivery[e].n > 0 /\ e \notin handled \cup excused =>
        Tried(e) \/ Replayed(e) \/ e \in InQueue(entries)

EventInv ==
    /\ EventTypeOK
    /\ entries \in Queue /\ saved \in Queue
    /\ ~storageFull => saved = entries
    /\ \A e \in Envelopes : Whereabouts(e)
    /\ \A x \in replaying : x.attempts < EventRetries + 1 + MaxReplays
    /\ \A x, y \in replaying : x.envelope = y.envelope => x = y

\* The entries of a queue.
LEMMA QueueTyped ==
    ASSUME NEW q \in Queue
    PROVE  /\ q \in Seq(Entry) /\ Len(q) \in Nat /\ Len(q) <= MaxEventLetters
           /\ DOMAIN q = 1..Len(q) /\ OneEach(q)
           /\ \A i \in DOMAIN q : q[i] \in Entry /\ q[i].envelope \in Envelopes
           /\ InQueue(q) \subseteq Envelopes
  <1>1. q \in Seq(Entry) /\ Len(q) <= MaxEventLetters /\ OneEach(q)
    BY DEF Queue
  <1>2. \A i \in 1..Len(q) : q[i] \in Entry
    BY <1>1, ElementOfSeq
  <1>3. \A x \in Entry : x.envelope \in Envelopes
    BY DEF Entry
  <1> QED
    BY <1>1, <1>2, <1>3 DEF InQueue

\* The lengths on either side of a place.
LEMMA AroundPlace ==
    ASSUME NEW S, NEW s \in Seq(S), NEW n \in 1..Len(s)
    PROVE  /\ SubSeq(s, 1, n - 1) \in Seq(S) /\ Len(SubSeq(s, 1, n - 1)) = n - 1
           /\ SubSeq(s, n + 1, Len(s)) \in Seq(S)
           /\ Len(SubSeq(s, n + 1, Len(s))) = Len(s) - n
  <1>1. SubSeq(s, 1, n - 1) \in Seq(S) /\ Len(SubSeq(s, 1, n - 1)) = n - 1
    OBVIOUS
  <1>2. SubSeq(s, n + 1, Len(s)) \in Seq(S) /\ Len(SubSeq(s, n + 1, Len(s))) = Len(s) - n
    OBVIOUS
  <1> QED
    BY <1>1, <1>2

\* The filter takes one entry out of the queue, and its event with it.
LEMMA EntryDropped ==
    ASSUME NEW q \in Queue, NEW x \in ToSet(q), NEW r, r = RemoveFirst(q, x)
    PROVE  r \in Queue /\ InQueue(r) = InQueue(q) \ {x.envelope}
  <1>1. /\ q \in Seq(Entry) /\ Len(q) \in Nat /\ Len(q) <= MaxEventLetters
        /\ DOMAIN q = 1..Len(q) /\ OneEach(q)
    BY QueueTyped
  <1>2. Apart(q)
    BY <1>1 DEF Apart, OneEach
  <1>3. /\ r \in Seq(Entry) /\ Apart(r)
        /\ \A y : InLine(r, y) <=> InLine(q, y) /\ y # x
    BY <1>1, <1>2, RemovalInLine
  <1>4. Len(r) <= Len(q)
    <2>1. CASE r = q
      BY <1>1, <2>1
    <2>2. CASE \E n \in 1..Len(q) : r = SubSeq(q, 1, n - 1) \o SubSeq(q, n + 1, Len(q))
      <3>1. PICK n \in 1..Len(q) : r = SubSeq(q, 1, n - 1) \o SubSeq(q, n + 1, Len(q))
        BY <2>2
      <3> DEFINE a == SubSeq(q, 1, n - 1)
                 b == SubSeq(q, n + 1, Len(q))
      <3>2. /\ a \in Seq(Entry) /\ Len(a) = n - 1
            /\ b \in Seq(Entry) /\ Len(b) = Len(q) - n
        BY <1>1, AroundPlace
      <3>3. r = a \o b
        BY <3>1
      <3> HIDE DEF a, b
      <3>4. Len(r) = Len(a) + Len(b)
        BY <3>2, <3>3, ConcatProperties
      <3> QED
        BY <1>1, <3>2, <3>4
    <2> QED
      BY <1>1, <2>1, <2>2, RemovalShape
  <1>5. DOMAIN r = 1..Len(r) /\ Len(r) \in Nat
    BY <1>3
  <1>6. \A i \in DOMAIN r : \E j \in DOMAIN q : q[j] = r[i] /\ r[i] # x
    BY <1>1, <1>3, <1>5 DEF InLine
  <1>7. OneEach(r)
    <2> SUFFICES ASSUME NEW i \in DOMAIN r, NEW j \in DOMAIN r, r[i].envelope = r[j].envelope
                 PROVE  i = j
      BY DEF OneEach
    <2>1. r[i] = r[j]
      BY <1>1, <1>6 DEF OneEach
    <2> QED
      BY <1>3, <1>5, <2>1 DEF Apart
  <1>8. InQueue(r) \subseteq InQueue(q) \ {x.envelope}
    <2> SUFFICES ASSUME NEW i \in DOMAIN r
                 PROVE  r[i].envelope \in InQueue(q) /\ r[i].envelope # x.envelope
      BY DEF InQueue
    <2>1. PICK j \in DOMAIN q : q[j] = r[i] /\ r[i] # x
      BY <1>6
    <2>2. PICK k \in DOMAIN q : q[k] = x
      BY DEF ToSet
    <2> QED
      BY <1>1, <2>1, <2>2 DEF OneEach, InQueue
  <1>9. InQueue(q) \ {x.envelope} \subseteq InQueue(r)
    <2> SUFFICES ASSUME NEW j \in DOMAIN q, q[j].envelope # x.envelope
                 PROVE  q[j].envelope \in InQueue(r)
      BY DEF InQueue
    <2>1. PICK i \in DOMAIN r : r[i] = q[j]
      BY <1>1, <1>3, <1>5 DEF InLine
    <2> QED
      BY <2>1 DEF InQueue
  <1>10. Len(r) <= MaxEventLetters
    BY <1>1, <1>4, <1>5, DomainEventBoundsAssumption
  <1>11. InQueue(r) = InQueue(q) \ {x.envelope}
    BY <1>8, <1>9
  <1>12. r \in Queue
    BY <1>3, <1>7, <1>10 DEF Queue
  <1> QED
    BY <1>11, <1>12

\* A captured entry is in the queue, and nothing new but it.
LEMMA EntryCaptured ==
    ASSUME NEW q \in Queue, NEW x \in Entry, x.envelope \notin InQueue(q)
    PROVE  /\ Captured(q, x) \in Queue
           /\ x.envelope \in InQueue(Captured(q, x))
           /\ InQueue(Captured(q, x)) \subseteq InQueue(q) \cup {x.envelope}
  <1> DEFINE all == Append(q, x)
             n == Len(q)
  <1>1. /\ q \in Seq(Entry) /\ n \in Nat /\ n <= MaxEventLetters
        /\ DOMAIN q = 1..n /\ OneEach(q)
    BY QueueTyped
  <1>2. /\ all \in Seq(Entry) /\ Len(all) = n + 1 /\ DOMAIN all = 1..(n + 1)
        /\ \A i \in 1..n : all[i] = q[i]
        /\ all[n + 1] = x
    BY <1>1, AppendProperties
  <1> HIDE DEF all, n
  <1>3. OneEach(all)
    <2> SUFFICES ASSUME NEW i \in 1..(n + 1), NEW j \in 1..(n + 1),
                        all[i].envelope = all[j].envelope
                 PROVE  i = j
      BY <1>2 DEF OneEach
    <2>1. \A k \in 1..n : all[k].envelope \in InQueue(q)
      BY <1>1, <1>2 DEF InQueue
    <2>2. \A k \in 1..(n + 1) : k \in 1..n \/ k = n + 1
      BY <1>1
    <2> QED
      BY <1>1, <1>2, <2>1, <2>2 DEF OneEach
  <1>4. InQueue(all) = InQueue(q) \cup {x.envelope}
    <2>2. \A k : k \in 1..(n + 1) <=> k \in 1..n \/ k = n + 1
      BY <1>1
    <2> QED
      BY <1>1, <1>2, <2>2 DEF InQueue
  <1>5. CASE Len(all) > MaxEventLetters
    <2>1. Captured(q, x) = Tail(all)
      BY <1>5 DEF Captured, all
    <2>2. n = MaxEventLetters /\ n > 0
      BY <1>1, <1>2, <1>5, DomainEventBoundsAssumption
    <2>3. /\ Tail(all) \in Seq(Entry) /\ Len(Tail(all)) = n /\ DOMAIN Tail(all) = 1..n
          /\ \A i \in 1..n : Tail(all)[i] = all[i + 1]
      <3>1. all # <<>>
        BY <1>1, <1>2
      <3> QED
        BY <1>1, <1>2, <3>1, HeadTailProperties
    <2>4. \A i \in 1..n : i + 1 \in 1..(n + 1)
      BY <1>1
    <2>5. OneEach(Tail(all))
      <3> SUFFICES ASSUME NEW i \in 1..n, NEW j \in 1..n,
                          Tail(all)[i].envelope = Tail(all)[j].envelope
                   PROVE  i = j
        BY <2>3 DEF OneEach
      <3>1. i + 1 \in DOMAIN all /\ j + 1 \in DOMAIN all
        BY <1>2, <2>4
      <3>2. all[i + 1].envelope = all[j + 1].envelope
        BY <2>3
      <3>3. i + 1 = j + 1
        BY <1>3, <3>1, <3>2 DEF OneEach
      <3> QED
        BY <3>3
    <2>6. InQueue(Tail(all)) \subseteq InQueue(all)
      BY <1>2, <2>3, <2>4 DEF InQueue
    <2>7. x.envelope \in InQueue(Tail(all))
      <3>1. n \in 1..n /\ Tail(all)[n] = x
        BY <1>1, <1>2, <2>2, <2>3
      <3> QED
        BY <2>3, <3>1 DEF InQueue
    <2> QED
      BY <1>1, <1>4, <2>1, <2>2, <2>3, <2>5, <2>6, <2>7 DEF Queue
  <1>6. CASE ~(Len(all) > MaxEventLetters)
    <2>1. Captured(q, x) = all
      BY <1>6 DEF Captured, all
    <2>2. Len(all) <= MaxEventLetters
      BY <1>1, <1>2, <1>6, DomainEventBoundsAssumption
    <2> QED
      BY <1>2, <1>3, <1>4, <2>1, <2>2 DEF Queue
  <1> QED
    BY <1>5, <1>6

\* What a commit leaves, whether or not the write succeeds.
LEMMA Committed ==
    ASSUME EventInv, NEW q \in Queue, Commit(q), UNCHANGED storageFull
    PROVE  /\ entries' = q /\ entries' \in Queue /\ saved' \in Queue
           /\ ~storageFull' => saved' = entries'
           /\ InQueue(saved') \subseteq InQueue(saved) \cup InQueue(q)
  BY DEF Commit, EventInv

\* Of a set whose members are all the same there is at most one.
LEMMA AtMostOne ==
    ASSUME NEW S, \A x, y \in S : x = y
    PROVE  /\ Cardinality(S) \in {0, 1}
           /\ Cardinality(S) = 0 <=> S = {}
  <1>1. CASE S = {}
    BY <1>1, FS_EmptySet
  <1>2. CASE S # {}
    <2>1. PICK x \in S : TRUE
      BY <1>2
    <2>2. S = {x}
      BY <2>1
    <2> QED
      BY <2>2, FS_Singleton
  <1> QED
    BY <1>1, <1>2

\* The invariant says what the property counts.
LEMMA CountsPlaces == EventInv => InOnePlace
  <1> SUFFICES ASSUME EventInv, NEW e \in Envelopes
               PROVE  /\ delivery[e].n > 0 /\ e \notin handled \cup excused => Places(e) > 0
                      /\ Places(e) <= 1
                      /\ ~storageFull /\ e \in InQueue(entries) => e \in InQueue(saved)
    BY DEF InOnePlace
  <1> DEFINE A == {i \in DOMAIN entries : entries[i].envelope = e}
             B == {x \in replaying : x.envelope = e}
             a == Cardinality(A)
             b == Cardinality(B)
             c == IF Tried(e) THEN 1 ELSE 0
  <1>1. Whereabouts(e) /\ OneEach(entries)
    BY DEF EventInv, Queue
  <1>2. a \in {0, 1} /\ (a = 0 <=> A = {})
    <2>1. \A x, y \in A : x = y
      BY <1>1 DEF OneEach
    <2> HIDE DEF A
    <2> QED
      BY <2>1, AtMostOne
  <1>3. b \in {0, 1} /\ (b = 0 <=> B = {})
    <2>1. \A x, y \in B : x = y
      BY DEF EventInv
    <2> HIDE DEF B
    <2> QED
      BY <2>1, AtMostOne
  <1>4. A = {} <=> e \notin InQueue(entries)
    BY DEF InQueue
  <1>5. B = {} <=> ~Replayed(e)
    BY DEF Replayed
  <1>6. Places(e) = a + b + c
    BY DEF Places, Tried
  <1> HIDE DEF A, B, a, b
  <1>7. ~(a = 1 /\ b = 1) /\ ~(a = 1 /\ c = 1) /\ ~(b = 1 /\ c = 1)
    BY <1>1, <1>2, <1>3, <1>4, <1>5 DEF Whereabouts, Tried
  <1>8. delivery[e].n > 0 /\ e \notin handled \cup excused => a = 1 \/ b = 1 \/ c = 1
    BY <1>1, <1>2, <1>3, <1>4, <1>5 DEF Whereabouts
  <1>9. c \in {0, 1}
    OBVIOUS
  <1> HIDE DEF c
  <1>10. Places(e) <= 1 /\ (a = 1 \/ b = 1 \/ c = 1 => Places(e) > 0)
    BY <1>2, <1>3, <1>6, <1>7, <1>9
  <1>11. ~storageFull /\ e \in InQueue(entries) => e \in InQueue(saved)
    BY DEF EventInv
  <1> QED
    BY <1>8, <1>10, <1>11

LEMMA EventStarts == EventInit => EventInv
  <1> SUFFICES ASSUME EventInit PROVE EventInv
    OBVIOUS
  <1>1. /\ entries = <<>> /\ saved = <<>> /\ replaying = {}
        /\ handled = {} /\ excused = {}
        /\ storageFull \in BOOLEAN /\ subscribed \in BOOLEAN
    BY DEF EventInit
  <1>2. \A e \in Envelopes : delivery[e] = [pc |-> "none", n |-> 0]
    BY DEF EventInit
  <1>3. [pc |-> "none", n |-> 0] \in Delivery
    BY DomainEventBoundsAssumption DEF Delivery
  <1>4. delivery \in [Envelopes -> Delivery]
    BY <1>3 DEF EventInit
  <1>5. <<>> \in Queue /\ InQueue(<<>>) = {} /\ <<>> \in Seq(Entry) /\ Len(<<>>) = 0
    BY DomainEventBoundsAssumption DEF Queue, OneEach, InQueue
  <1>6. EventTypeOK
    BY <1>1, <1>4, <1>5, DomainEventBoundsAssumption DEF EventTypeOK
  <1>7. \A e \in Envelopes : Whereabouts(e)
    BY <1>1, <1>2, <1>5 DEF Whereabouts, Replayed
  <1> QED
    BY <1>1, <1>5, <1>6, <1>7 DEF EventInv

\* A step of one delivery that leaves the queue and the replays alone.
LEMMA DeliveryStep ==
    ASSUME EventInv, NEW e \in Envelopes, NEW v \in Delivery,
           delivery' = [delivery EXCEPT ![e] = v],
           UNCHANGED <<storageFull, subscribed, replaying, entries, saved, excused>>,
           handled \subseteq handled', handled' \subseteq Envelopes,
           v.pc = "running" => v.n > 0,
           v.pc = "waiting" => v.n <= EventRetries,
           v.pc = "over" \/ delivery[e].pc # "over",
           v.n > 0 /\ e \notin handled' => v.pc \in {"running", "waiting"}
    PROVE  EventInv'
  <1>1. delivery' \in [Envelopes -> Delivery]
    BY DEF EventInv, EventTypeOK
  <1>2. EventTypeOK'
    BY <1>1 DEF EventInv, EventTypeOK
  <1>3. delivery'[e] = v /\ \A d \in Envelopes : d # e => delivery'[d] = delivery[d]
    BY DEF EventInv, EventTypeOK
  <1>4. ASSUME NEW d \in Envelopes PROVE Whereabouts(d)'
    <2>1. Whereabouts(d)
      BY DEF EventInv
    <2>2. CASE d = e
      BY <1>3, <2>1, <2>2 DEF Whereabouts, Tried, Replayed
    <2>3. CASE d # e
      BY <1>3, <2>1, <2>3 DEF Whereabouts, Tried, Replayed
    <2> QED
      BY <2>2, <2>3
  <1> QED
    BY <1>2, <1>4 DEF EventInv

\* The invariant after a commit, from what is known of the rest.
LEMMA CommitStep ==
    ASSUME EventInv, NEW q \in Queue, Commit(q), UNCHANGED <<storageFull, subscribed>>,
           delivery' \in [Envelopes -> Delivery], replaying' \subseteq Entry,
           handled' \subseteq Envelopes, excused' \subseteq Envelopes,
           \A d \in Envelopes : Whereabouts(d)',
           \A x \in replaying' : x.attempts < EventRetries + 1 + MaxReplays,
           \A x, y \in replaying' : x.envelope = y.envelope => x = y
    PROVE  EventInv'
  <1>1. entries' \in Queue /\ saved' \in Queue /\ (~storageFull' => saved' = entries')
    BY Committed
  <1>2. EventTypeOK'
    BY <1>1 DEF EventInv, EventTypeOK, Queue
  <1> QED
    BY <1>1, <1>2 DEF EventInv

LEMMA EventKeeps == EventInv /\ [EventNext]_eventVars => EventInv'
  <1> SUFFICES ASSUME EventInv, [EventNext]_eventVars PROVE EventInv'
    OBVIOUS
  <1>1. /\ delivery \in [Envelopes -> Delivery] /\ replaying \subseteq Entry
        /\ handled \subseteq Envelopes /\ excused \subseteq Envelopes
        /\ entries \in Queue /\ saved \in Queue
        /\ \A d \in Envelopes : Whereabouts(d)
        /\ \A x \in replaying : x.attempts < EventRetries + 1 + MaxReplays
        /\ \A x, y \in replaying : x.envelope = y.envelope => x = y
    BY DEF EventInv, EventTypeOK
  <1>2. /\ \A d \in Envelopes : /\ delivery[d] \in Delivery
                                /\ delivery[d].pc \in {"none", "running", "waiting", "over"}
                                /\ delivery[d].n \in 0..(EventRetries + 1)
        /\ \A x \in Entry : /\ x.envelope \in Envelopes
                            /\ x.attempts \in 1..(EventRetries + 1 + MaxReplays)
        /\ \A p \in {"none", "running", "waiting", "over"}, n \in 0..(EventRetries + 1) :
                [pc |-> p, n |-> n] \in Delivery
    BY <1>1 DEF Delivery, Entry
  <1>3. InQueue(entries) \subseteq Envelopes /\ InQueue(saved) \subseteq Envelopes
    BY <1>1, QueueTyped
  <1>4. \A x \in ToSet(entries) : x \in Entry /\ x.envelope \in InQueue(entries)
    <2>1. \A i \in DOMAIN entries : entries[i] \in Entry
      BY <1>1, QueueTyped
    <2> QED
      BY <2>1 DEF ToSet, InQueue
  <1>5. ASSUME NEW e \in Envelopes, Emit(e) PROVE EventInv'
    <2> DEFINE v == IF subscribed THEN [pc |-> "running", n |-> 1] ELSE [pc |-> "over", n |-> 0]
    <2>1. v \in Delivery
      BY <1>2, DomainEventBoundsAssumption
    <2>2. /\ v.pc = "running" => v.n > 0
          /\ v.pc # "waiting"
          /\ v.n > 0 => v.pc = "running"
      OBVIOUS
    <2>3. delivery' = [delivery EXCEPT ![e] = v]
      BY <1>5 DEF Emit
    <2> HIDE DEF v
    <2>4. /\ UNCHANGED <<storageFull, subscribed, replaying, entries, saved, excused>>
          /\ handled' = handled /\ delivery[e].pc = "none"
      BY <1>5 DEF Emit
    <2> QED
      BY <1>1, <2>1, <2>2, <2>3, <2>4, DeliveryStep
  <1>6. ASSUME NEW e \in Envelopes, Handle(e) PROVE EventInv'
    <2> DEFINE v == [delivery[e] EXCEPT !.pc = "over"]
    <2>1. v \in Delivery /\ v.pc = "over"
      BY <1>2 DEF Delivery
    <2>2. delivery' = [delivery EXCEPT ![e] = v]
      BY <1>1, <1>6 DEF Handle
    <2> HIDE DEF v
    <2>3. /\ UNCHANGED <<storageFull, subscribed, replaying, entries, saved, excused>>
          /\ handled' = handled \cup {e}
      BY <1>6 DEF Handle
    <2> QED
      BY <1>1, <2>1, <2>2, <2>3, DeliveryStep
  <1>7. ASSUME NEW e \in Envelopes, HandlerFails(e) PROVE EventInv'
    <2> DEFINE v == [delivery[e] EXCEPT !.pc = "waiting"]
    <2>1. v \in Delivery /\ v.pc = "waiting" /\ v.n = delivery[e].n
      BY <1>2 DEF Delivery
    <2>2. delivery' = [delivery EXCEPT ![e] = v]
      BY <1>1, <1>7 DEF HandlerFails
    <2> HIDE DEF v
    <2>3. /\ UNCHANGED <<storageFull, subscribed, replaying, entries, saved, excused>>
          /\ handled' = handled
          /\ delivery[e].pc = "running" /\ delivery[e].n <= EventRetries
      BY <1>7 DEF HandlerFails
    <2> QED
      BY <1>1, <2>1, <2>2, <2>3, DeliveryStep
  <1>8. ASSUME NEW e \in Envelopes, RetryHandler(e) PROVE EventInv'
    <2> DEFINE v == [pc |-> "running", n |-> delivery[e].n + 1]
    <2>1. delivery[e].pc = "waiting" /\ delivery[e].n <= EventRetries
      BY <1>1, <1>8 DEF RetryHandler, Whereabouts
    <2>2. v \in Delivery /\ v.pc = "running" /\ v.n > 0
      BY <1>2, <2>1, DomainEventBoundsAssumption
    <2>3. delivery' = [delivery EXCEPT ![e] = v]
      BY <1>1, <1>8 DEF RetryHandler
    <2> HIDE DEF v
    <2>4. /\ UNCHANGED <<storageFull, subscribed, replaying, entries, saved, excused>>
          /\ handled' = handled
      BY <1>8 DEF RetryHandler
    <2> QED
      BY <1>1, <2>1, <2>2, <2>3, <2>4, DeliveryStep
  <1>9. ASSUME NEW e \in Envelopes, RetriesExhausted(e) PROVE EventInv'
    <2> DEFINE x == [envelope |-> e, attempts |-> delivery[e].n]
               q == Captured(entries, x)
    <2>1. delivery[e].pc = "running" /\ delivery[e].n > EventRetries
      BY <1>9 DEF RetriesExhausted
    <2>2. x \in Entry /\ x.envelope = e
      BY <1>2, <2>1, DomainEventBoundsAssumption DEF Entry
    <2>3. e \notin InQueue(entries)
      BY <1>1, <2>1 DEF Whereabouts
    <2>4. /\ Commit(q)
          /\ excused' = excused \cup (InQueue(entries) \ InQueue(q))
          /\ delivery' = [delivery EXCEPT ![e].pc = "over"]
          /\ UNCHANGED <<storageFull, subscribed, replaying, handled>>
      BY <1>9 DEF RetriesExhausted, Capture
    <2> HIDE DEF x
    <2>5. q \in Queue /\ e \in InQueue(q) /\ InQueue(q) \subseteq InQueue(entries) \cup {e}
      BY <1>1, <2>2, <2>3, EntryCaptured
    <2> HIDE DEF q
    <2>6. /\ delivery' \in [Envelopes -> Delivery] /\ delivery'[e].pc = "over"
          /\ \A d \in Envelopes : d # e => delivery'[d] = delivery[d]
      BY <1>1, <1>2, <2>4 DEF Delivery
    <2>7. entries' = q /\ InQueue(saved') \subseteq InQueue(saved) \cup InQueue(q)
      BY <2>4, <2>5, Committed
    <2>8. ASSUME NEW d \in Envelopes PROVE Whereabouts(d)'
      <3>1. Whereabouts(d)
        BY <1>1
      <3>2. CASE d = e
        BY <2>1, <2>4, <2>5, <2>6, <2>7, <3>1, <3>2 DEF Whereabouts, Tried, Replayed
      <3>3. CASE d # e
        BY <2>4, <2>5, <2>6, <2>7, <3>1, <3>3 DEF Whereabouts, Tried, Replayed
      <3> QED
        BY <3>2, <3>3
    <2>9. replaying' = replaying /\ handled' = handled /\ excused' \subseteq Envelopes
      BY <1>1, <1>3, <2>4
    <2> QED
      BY <1>1, <2>4, <2>5, <2>6, <2>8, <2>9, CommitStep
  <1>10. ASSUME NEW x \in ToSet(entries), RemoveEntry(x) PROVE EventInv'
    <2> DEFINE q == Without(x)
    <2>1. q \in Queue /\ InQueue(q) = InQueue(entries) \ {x.envelope}
      BY <1>1, EntryDropped DEF Without
    <2>2. /\ Commit(q) /\ excused' = excused \cup {x.envelope}
          /\ UNCHANGED <<storageFull, subscribed, delivery, replaying, handled>>
      BY <1>10 DEF RemoveEntry
    <2> HIDE DEF q
    <2>3. entries' = q /\ InQueue(saved') \subseteq InQueue(saved) \cup InQueue(q)
      BY <2>1, <2>2, Committed
    <2>4. ASSUME NEW d \in Envelopes PROVE Whereabouts(d)'
      <3>1. Whereabouts(d)
        BY <1>1
      <3> QED
        BY <2>1, <2>2, <2>3, <3>1 DEF Whereabouts, Tried, Replayed
    <2>5. excused' \subseteq Envelopes
      BY <1>1, <1>2, <1>4, <2>2
    <2> QED
      BY <1>1, <2>1, <2>2, <2>4, <2>5, CommitStep
  <1>11. ASSUME NEW x \in ToSet(entries), ReplayEntry(x) PROVE EventInv'
    <2> DEFINE q == Without(x)
    <2>1. q \in Queue /\ InQueue(q) = InQueue(entries) \ {x.envelope}
      BY <1>1, EntryDropped DEF Without
    <2>2. /\ Commit(q) /\ replaying' = replaying \cup {x}
          /\ x.attempts < EventRetries + 1 + MaxReplays
          /\ UNCHANGED <<storageFull, subscribed, delivery, handled, excused>>
      BY <1>11 DEF ReplayEntry, TakenOut
    <2> HIDE DEF q
    <2>3. entries' = q /\ InQueue(saved') \subseteq InQueue(saved) \cup InQueue(q)
      BY <2>1, <2>2, Committed
    <2>4. x \in Entry /\ x.envelope \in InQueue(entries) /\ x.envelope \in Envelopes
      BY <1>2, <1>4
    <2>5. delivery[x.envelope].pc = "over" /\ ~Replayed(x.envelope)
      BY <1>1, <2>4 DEF Whereabouts
    <2>6. ASSUME NEW d \in Envelopes PROVE Whereabouts(d)'
      <3>1. Whereabouts(d)
        BY <1>1
      <3>2. Replayed(d)' <=> Replayed(d) \/ d = x.envelope
        BY <2>2 DEF Replayed
      <3> QED
        BY <2>1, <2>2, <2>3, <2>5, <3>1, <3>2 DEF Whereabouts, Tried
    <2>7. /\ replaying' \subseteq Entry
          /\ \A y \in replaying' : y.attempts < EventRetries + 1 + MaxReplays
          /\ \A y, z \in replaying' : y.envelope = z.envelope => y = z
      BY <1>1, <2>2, <2>4, <2>5 DEF Replayed
    <2> QED
      BY <1>1, <2>1, <2>2, <2>6, <2>7, CommitStep
  <1>12. ASSUME NEW x \in replaying, ReplayOk(x) PROVE EventInv'
    <2>1. /\ replaying' = replaying \ {x} /\ handled' = handled \cup {x.envelope}
          /\ UNCHANGED <<storageFull, subscribed, delivery, entries, saved, excused>>
      BY <1>12 DEF ReplayOk
    <2>2. EventTypeOK'
      BY <1>1, <1>2, <2>1 DEF EventInv, EventTypeOK
    <2>3. ASSUME NEW d \in Envelopes PROVE Whereabouts(d)'
      <3>1. Whereabouts(d)
        BY <1>1
      <3>2. Replayed(d)' => Replayed(d)
        BY <2>1 DEF Replayed
      <3>3. d # x.envelope /\ Replayed(d) => Replayed(d)'
        BY <2>1 DEF Replayed
      <3> QED
        BY <2>1, <3>1, <3>2, <3>3 DEF Whereabouts, Tried
    <2> QED
      BY <1>1, <2>1, <2>2, <2>3 DEF EventInv
  <1>13. ASSUME NEW x \in replaying, ReplayFails(x) PROVE EventInv'
    <2> DEFINE y == [x EXCEPT !.attempts = x.attempts + 1]
               q == Captured(entries, y)
    <2>1. x \in Entry /\ x.attempts < EventRetries + 1 + MaxReplays /\ x.envelope \in Envelopes
      BY <1>1, <1>2
    <2>2. y \in Entry /\ y.envelope = x.envelope
      BY <2>1, DomainEventBoundsAssumption DEF Entry
    <2>3. delivery[x.envelope].pc = "over" /\ x.envelope \notin InQueue(entries)
      BY <1>1, <2>1 DEF Whereabouts, Replayed
    <2>4. /\ Commit(q)
          /\ excused' = excused \cup (InQueue(entries) \ InQueue(q))
          /\ replaying' = replaying \ {x}
          /\ UNCHANGED <<storageFull, subscribed, delivery, handled>>
      BY <1>13 DEF ReplayFails, Capture
    <2> HIDE DEF y
    <2>5. /\ q \in Queue /\ x.envelope \in InQueue(q)
          /\ InQueue(q) \subseteq InQueue(entries) \cup {x.envelope}
      BY <1>1, <2>2, <2>3, EntryCaptured
    <2> HIDE DEF q
    <2>6. entries' = q /\ InQueue(saved') \subseteq InQueue(saved) \cup InQueue(q)
      BY <2>4, <2>5, Committed
    <2>7. ASSUME NEW d \in Envelopes PROVE Whereabouts(d)'
      <3>1. Whereabouts(d)
        BY <1>1
      <3>2. Replayed(d)' <=> Replayed(d) /\ d # x.envelope
        BY <1>1, <2>4 DEF Replayed
      <3> QED
        BY <2>3, <2>4, <2>5, <2>6, <3>1, <3>2 DEF Whereabouts, Tried
    <2>8. /\ replaying' \subseteq Entry /\ excused' \subseteq Envelopes
          /\ \A a \in replaying' : a.attempts < EventRetries + 1 + MaxReplays
          /\ \A a, b \in replaying' : a.envelope = b.envelope => a = b
      BY <1>1, <1>3, <2>4
    <2> QED
      BY <1>1, <2>4, <2>5, <2>7, <2>8, CommitStep
  <1>14. ASSUME ClearQueue PROVE EventInv'
    <2>1. <<>> \in Queue /\ InQueue(<<>>) = {}
      BY DomainEventBoundsAssumption DEF Queue, OneEach, InQueue
    <2>2. /\ Commit(<<>>) /\ excused' = excused \cup InQueue(entries)
          /\ UNCHANGED <<storageFull, subscribed, delivery, replaying, handled>>
      BY <1>14 DEF ClearQueue
    <2>3. entries' = <<>> /\ InQueue(saved') \subseteq InQueue(saved) \cup InQueue(<<>>)
      BY <2>1, <2>2, Committed
    <2>4. ASSUME NEW d \in Envelopes PROVE Whereabouts(d)'
      <3>1. Whereabouts(d)
        BY <1>1
      <3> QED
        BY <2>1, <2>2, <2>3, <3>1 DEF Whereabouts, Tried, Replayed
    <2>5. excused' \subseteq Envelopes
      BY <1>1, <1>3, <2>2
    <2> QED
      BY <1>1, <2>1, <2>2, <2>4, <2>5, CommitStep
  <1>15. ASSUME Toggle PROVE EventInv'
    <2>1. UNCHANGED <<storageFull, delivery, replaying, entries, saved, handled, excused>>
      BY <1>15 DEF Toggle
    <2>2. subscribed' \in BOOLEAN
      BY <1>15 DEF Toggle, EventInv, EventTypeOK
    <2>3. EventTypeOK'
      BY <2>1, <2>2 DEF EventInv, EventTypeOK
    <2>4. ASSUME NEW d \in Envelopes PROVE Whereabouts(d)'
      BY <1>1, <2>1 DEF Whereabouts, Tried, Replayed
    <2> QED
      BY <2>1, <2>3, <2>4 DEF EventInv
  <1>16. ASSUME ReloadQueue PROVE EventInv'
    <2> DEFINE cut == {e \in Envelopes : delivery[e].pc \in {"running", "waiting"}}
                          \cup {x.envelope : x \in replaying}
    <2>1. /\ delivery' = [e \in Envelopes |->
                IF e \in cut THEN [delivery[e] EXCEPT !.pc = "over"] ELSE delivery[e]]
          /\ replaying' = {} /\ entries' = saved
          /\ excused' = excused \cup cut \cup (InQueue(entries) \ InQueue(saved))
          /\ UNCHANGED <<storageFull, subscribed, saved, handled>>
      BY <1>16 DEF ReloadQueue
    <2>2. \A d \in Envelopes : Tried(d) \/ Replayed(d) => d \in cut
      BY DEF Tried, Replayed
    <2>3. cut \subseteq Envelopes
      BY <1>1, <1>2
    <2> HIDE DEF cut
    <2>4. \A d \in Envelopes : [delivery[d] EXCEPT !.pc = "over"] \in Delivery
      BY <1>2 DEF Delivery
    <2>5. /\ delivery' \in [Envelopes -> Delivery]
          /\ \A d \in Envelopes : d \in cut => delivery'[d].pc = "over"
          /\ \A d \in Envelopes : d \notin cut => delivery'[d] = delivery[d]
          /\ \A d \in Envelopes : delivery'[d].n = delivery[d].n
      BY <1>1, <1>2, <2>1, <2>4 DEF Delivery
    <2>6. excused' \subseteq Envelopes
      BY <1>1, <1>3, <2>1, <2>3
    <2>7. EventTypeOK'
      BY <1>1, <2>1, <2>5, <2>6 DEF EventInv, EventTypeOK
    <2>8. ASSUME NEW d \in Envelopes PROVE Whereabouts(d)'
      <3>1. Whereabouts(d)
        BY <1>1
      <3>2. ~Replayed(d)'
        BY <2>1 DEF Replayed
      <3>3. CASE d \in cut
        BY <2>1, <2>5, <3>1, <3>2, <3>3 DEF Whereabouts
      <3>4. CASE d \notin cut
        BY <2>1, <2>2, <2>5, <3>1, <3>2, <3>4 DEF Whereabouts, Tried
      <3> QED
        BY <3>3, <3>4
    <2> QED
      BY <1>1, <2>1, <2>7, <2>8 DEF EventInv
  <1>17. ASSUME UNCHANGED eventVars PROVE EventInv'
    BY <1>17 DEF eventVars, EventInv, EventTypeOK, Whereabouts, Tried, Replayed
  <1> QED
    BY <1>5, <1>6, <1>7, <1>8, <1>9, <1>10, <1>11, <1>12, <1>13, <1>14, <1>15, <1>16, <1>17
    DEF EventNext, HandlerSettles

LEMMA EventAlways == EventSpec => []EventInv
  BY EventStarts, EventKeeps, PTL DEF EventSpec

\* An event that was delivered and not accepted is tried, replayed or queued, in one
\* place, unless somebody removed it, the cap dropped it or a reload cut it off.
THEOREM EventsAreInOnePlace == EventSpec => []InOnePlace
  BY EventAlways, CountsPlaces, PTL

------------------------------------------------------------------------------
(* The composition                                                           *)

\* A behaviour of the instances side by side is one of every component, fairness of the
\* sessions aside: what is proved safe of a component, here or in RecoveryProofs, is safe
\* in it.
LEMMA OperationsIsItsParts ==
    MCSpec => /\ ApprovalSpec /\ ExportSpec /\ EventSpec /\ TransportSpec /\ Spec
              /\ SessionInit /\ [][SessionNext]_sessionVars
  <1>1. MCInit => ApprovalInit /\ ExportInit /\ EventInit /\ TransportInit /\ Init /\ SessionInit
    BY DEF MCInit
  <1>2. [MCNext]_MCVars => /\ [ApprovalNext]_approvalVars /\ [ExportNext]_exportVars
                           /\ [EventNext]_eventVars /\ [TransportNext]_transportVars
                           /\ [Next]_vars /\ [SessionNext]_sessionVars
    BY DEF MCNext, MCVars
  <1>3. MCFairness => TransportFairness
    BY PTL DEF MCFairness
  <1> QED
    BY <1>1, <1>2, <1>3, PTL DEF MCSpec, ApprovalSpec, ExportSpec, EventSpec, TransportSpec, Spec

\* Of approvals, what the types say beyond ApprovalTypes: no intent is queued twice,
\* because none is queued without a receipt, and an executor has one in hand at most.
QueueInv ==
    /\ expired \subseteq Intents
    /\ Apart(offline) /\ \A i \in Intents : InLine(offline, i) => receipt[i] # "none"
    /\ \A x \in Executors : work[x].on = {} \/ \E i \in Intents : work[x].on = {i}

LEMMA QueueKeeps == ApprovalInv /\ QueueInv /\ [ApprovalNext]_approvalVars => QueueInv'
  <1> SUFFICES ASSUME ApprovalInv, QueueInv, [ApprovalNext]_approvalVars PROVE QueueInv'
    OBVIOUS
  <1>1. /\ receipt \in [Intents -> Status] /\ work \in [Executors -> Work]
        /\ offline \in Seq(Intents)
    BY DEF ApprovalInv, ApprovalTypes
  <1> DEFINE OnOK(w) == w = {} \/ \E i \in Intents : w = {i}
  <1>2. ASSUME NEW x \in Executors, NEW w \in Work, OnOK(w.on), work' = [work EXCEPT ![x] = w]
        PROVE  \A y \in Executors : OnOK(work'[y].on)
    BY <1>1, <1>2 DEF QueueInv
  <1>3. ASSUME NEW i \in Intents, NEW s, s # "none", receipt' = [receipt EXCEPT ![i] = s]
        PROVE  \A j \in Intents : receipt[j] # "none" => receipt'[j] # "none"
    BY <1>1, <1>3
  <1>4. ASSUME NEW i \in Intents, NEW isOffline \in BOOLEAN, Approve(i, isOffline)
        PROVE  QueueInv'
    <2>1. /\ receipt[i] = "none" /\ receipt'[i] # "none"
          /\ \A j \in Intents : receipt[j] # "none" => receipt'[j] # "none"
          /\ offline' = IF isOffline THEN Append(offline, i) ELSE offline
          /\ expired' = expired /\ work' = work
      BY <1>1, <1>4 DEF Approve
    <2>2. ~InLine(offline, i) /\ Apart(offline)
      BY <2>1 DEF QueueInv
    <2>3. /\ Apart(Append(offline, i))
          /\ \A x : InLine(Append(offline, i), x) <=> InLine(offline, x) \/ x = i
      BY <1>1, <2>2, AppendInLine
    <2>4. Apart(offline') /\ \A j \in Intents : InLine(offline', j) => InLine(offline, j) \/ j = i
      BY <2>1, <2>2, <2>3
    <2> QED
      BY <2>1, <2>4 DEF QueueInv
  <1>5. ASSUME NEW i \in Intents, PassExpiry(i)
        PROVE  QueueInv'
    BY <1>5 DEF PassExpiry, QueueInv
  <1>6. ASSUME NEW i \in Intents, Rollback(i)
        PROVE  QueueInv'
    <2>1. \A j \in Intents : receipt[j] # "none" => receipt'[j] # "none"
      BY <1>3, <1>6 DEF Rollback
    <2> QED
      BY <1>6, <2>1 DEF Rollback, QueueInv
  <1>7. ASSUME NEW x \in Executors, NEW i \in Intents, NEW w \in Work, w.on = {i},
               StartExecution(i), work' = [work EXCEPT ![x] = w], UNCHANGED <<offline, expired>>
        PROVE  QueueInv'
    <2>1. \A j \in Intents : receipt[j] # "none" => receipt'[j] # "none"
      BY <1>3, <1>7 DEF StartExecution
    <2>2. \A y \in Executors : OnOK(work'[y].on)
      BY <1>2, <1>7
    <2> QED
      BY <1>7, <2>1, <2>2 DEF QueueInv
  <1>8. ASSUME NEW x \in Executors, NEW w \in Work, w.on = {},
               work' = [work EXCEPT ![x] = w], UNCHANGED <<offline, expired, receipt>>
        PROVE  QueueInv'
    <2>1. \A y \in Executors : OnOK(work'[y].on)
      BY <1>2, <1>8
    <2> QED
      BY <1>8, <2>1 DEF QueueInv
  <1>9. ASSUME NEW x \in Executors, NEW i \in Intents, Execute(x, i)
        PROVE  QueueInv'
    <2> DEFINE w == [syncing |-> FALSE, on |-> {i}, left |-> <<>>]
    <2>1. w \in Work /\ w.on = {i}
      BY DEF Work
    <2>2. work' = [work EXCEPT ![x] = w]
      BY <1>9 DEF Execute
    <2> HIDE DEF w
    <2> QED
      BY <1>7, <1>9, <2>1, <2>2 DEF Execute
  <1>10. ASSUME NEW x \in Executors, Sync(x)
         PROVE  QueueInv'
    <2> DEFINE w == [syncing |-> TRUE, on |-> {}, left |-> offline]
    <2>1. w \in Work /\ w.on = {} /\ work' = [work EXCEPT ![x] = w]
      BY <1>1, <1>10 DEF Sync, Work
    <2> HIDE DEF w
    <2> QED
      BY <1>8, <1>10, <2>1 DEF Sync
  <1>11. ASSUME NEW x \in Executors, SyncEnds(x)
         PROVE  QueueInv'
    <2>1. AtRest \in Work /\ AtRest.on = {} /\ work' = [work EXCEPT ![x] = AtRest]
      BY <1>11 DEF SyncEnds, AtRest, Work
    <2> QED
      BY <1>8, <1>11, <2>1 DEF SyncEnds
  <1>12. ASSUME NEW x \in Executors, SyncItem(x)
         PROVE  QueueInv'
    <2> DEFINE i == Head(work[x].left)
    <2>1. /\ work[x] \in Work /\ work[x].on = {} /\ work[x].left # <<>>
          /\ work[x].left \in Seq(Intents) /\ work[x].syncing \in BOOLEAN
          /\ UNCHANGED <<offline, expired>>
      BY <1>1, <1>12 DEF SyncItem, Work
    <2>2. i \in Intents /\ Tail(work[x].left) \in Seq(Intents)
      BY <2>1
    <2>3. CASE Executable(i)
      <3> DEFINE w == [syncing |-> TRUE, on |-> {i}, left |-> Tail(work[x].left)]
      <3>1. StartExecution(i) /\ work' = [work EXCEPT ![x] = w]
        BY <1>12, <2>3 DEF SyncItem
      <3>2. w \in Work /\ w.on = {i}
        BY <2>2 DEF Work
      <3> HIDE DEF i, w
      <3> QED
        BY <1>7, <2>1, <2>2, <3>1, <3>2
    <2>4. CASE ~Executable(i)
      <3> DEFINE w == [work[x] EXCEPT !.left = Tail(@)]
      <3>1. work' = [work EXCEPT ![x] = w] /\ receipt' = receipt
        BY <1>12, <2>4 DEF SyncItem, RestAfterRefusal
      <3>2. w \in Work /\ w.on = {}
        BY <2>1, <2>2 DEF Work
      <3> HIDE DEF i, w
      <3> QED
        BY <1>8, <2>1, <3>1, <3>2
    <2> QED
      BY <2>3, <2>4
  <1>13. ASSUME NEW x \in Executors, NEW i \in Intents,
                Complete(x, i) \/ CompleteUnobserved(x, i) \/ Fail(x, i)
         PROVE  QueueInv'
    <2>1. NextOf(x) \in Work /\ NextOf(x).on = {}
      BY <1>1 DEF NextOf, AtRest, Work
    <2>2. /\ work' = [work EXCEPT ![x] = NextOf(x)] /\ expired' = expired
          /\ offline' = offline \/ offline' = RemoveFirst(offline, i)
      BY <1>13 DEF Complete, CompleteUnobserved, Fail
    <2>3. \A j \in Intents : receipt[j] # "none" => receipt'[j] # "none"
      BY <1>3, <1>13 DEF Complete, CompleteUnobserved, Fail
    <2>4. \A y \in Executors : OnOK(work'[y].on)
      BY <1>2, <2>1, <2>2
    <2>5. Apart(offline') /\ \A j \in Intents : InLine(offline', j) => InLine(offline, j)
      <3>1. Apart(offline)
        BY DEF QueueInv
      <3>2. /\ Apart(RemoveFirst(offline, i))
            /\ \A y : InLine(RemoveFirst(offline, i), y) <=> InLine(offline, y) /\ y # i
        BY <1>1, <3>1, RemovalInLine
      <3> QED
        BY <2>2, <3>1, <3>2
    <2> QED
      BY <2>2, <2>3, <2>4, <2>5 DEF QueueInv
  <1>14. CASE UNCHANGED approvalVars
    BY <1>14 DEF approvalVars, QueueInv
  <1> QED
    BY <1>4, <1>5, <1>6, <1>9, <1>10, <1>11, <1>12, <1>13, <1>14 DEF ApprovalNext, Settle

LEMMA ApprovalTypesAlways == ApprovalSpec => []ApprovalTypeOK
  <1>1. ApprovalInit => QueueInv
    <2> SUFFICES ASSUME ApprovalInit PROVE QueueInv
      OBVIOUS
    <2>1. Apart(<<>>) /\ \A x : ~InLine(<<>>, x)
      BY DEF Apart, InLine
    <2> QED
      BY <2>1 DEF ApprovalInit, QueueInv, AtRest
  <1>2. ApprovalInv /\ QueueInv => ApprovalTypeOK
    <2> SUFFICES ASSUME ApprovalInv, QueueInv PROVE ApprovalTypeOK
      OBVIOUS
    <2>1. IsInjective(offline)
      <3>1. offline \in Seq(Intents)
        BY DEF ApprovalInv, ApprovalTypes
      <3>2. DOMAIN offline = 1..Len(offline)
        BY <3>1
      <3> QED
        BY <3>2 DEF QueueInv, Apart, IsInjective
    <2>2. \A x \in Executors : Cardinality(work[x].on) <= 1
      <3>1. Cardinality({}) = 0 /\ \A i \in Intents : Cardinality({i}) = 1
        BY FS_EmptySet, FS_Singleton
      <3> QED
        BY <3>1 DEF QueueInv
    <2> QED
      BY <2>1, <2>2 DEF ApprovalInv, ApprovalTypes, QueueInv, ApprovalTypeOK
  <1> QED
    BY <1>1, <1>2, ApprovalAlways, QueueKeeps, PTL DEF ApprovalSpec

\* The variables of all six components keep their types, for any intents, exports,
\* events, reconnects, tabs and publishes; of approvals, that no intent is queued twice.
THEOREM OperationsTypesAlways == MCSpec => []OperationsTypeOK
  <1>1. ExportInv => ExportTypeOK
    BY DEF ExportInv
  <1>2. EventInv => EventTypeOK
    BY DEF EventInv
  <1>3. TransportInv => TransportTypeOK
    BY DEF TransportInv
  <1>4. SessionInv => SessionTypeOK
    BY DEF SessionInv
  <1>5. SessionInit /\ [][SessionNext]_sessionVars => []SessionInv
    BY SessionStarts, SessionNextKeeps, PTL
  <1>6. TypeOK /\ ApprovalTypeOK /\ ExportTypeOK /\ EventTypeOK /\ TransportTypeOK /\ SessionTypeOK
            => OperationsTypeOK
    BY DEF OperationsTypeOK
  <1> QED
    BY <1>1, <1>2, <1>3, <1>4, <1>5, <1>6, OperationsIsItsParts, ApprovalTypesAlways,
       ExportAlways, EventAlways, TransportAlways, TypeCorrect, PTL
==============================================================================
