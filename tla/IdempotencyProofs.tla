-------------------------- MODULE IdempotencyProofs --------------------------
(***************************************************************************)
(* For any number of calls, tabs, payloads and requests: the type invariant *)
(* of Idempotency, its safety invariants, and that it implements            *)
(* KeyContract, where calls are kept apart by the Web Lock of the key or,   *)
(* without locks, by operations quicker than their record's staleness.      *)
(***************************************************************************)
EXTENDS Idempotency, TLAPS

USE PayloadsAssumption, SentAssumption, EnvsAssumption

KeptApart == \A e \in Envs : e.locks \/ ~e.slow

------------------------------------------------------------------------------
(* What a handler does to the calls *)

\* Settle ends some calls with the given outcome and leaves the others alone.
LEMMA SettleEnds ==
    ASSUME NEW from \in [Calls -> Call], NEW c \in Calls,
           NEW out \in {"value", "error", "conflict", "expired", "busy"},
           NEW val \in 0..MaxSent, NEW fp \in Payloads, NEW win \in Window,
           Settle(from, c, out, val, fp, win)
    PROVE  /\ calls' \in [Calls -> Call]
           /\ \A d \in Calls :
                \/ d # c /\ calls'[d] = from[d]
                \/ /\ calls'[d].pc = "idle"
                   /\ calls'[d].out = out
                   /\ calls'[d].val = val
                   /\ calls'[d].valWin = win
           /\ calls'[c].pc = "idle"
<1>1. \A d \in Calls : calls'[d] = IF d = c \/ d \in Followers(c)
                                     THEN Ended(from[d], out, val, fp, win) ELSE from[d]
  BY DEF Settle
<1>2. \A d \in Calls : from[d] \in Call
  OBVIOUS
<1>3. \A d \in Calls :
        /\ Ended(from[d], out, val, fp, win) \in Call
        /\ Ended(from[d], out, val, fp, win).pc = "idle"
        /\ Ended(from[d], out, val, fp, win).out = out
        /\ Ended(from[d], out, val, fp, win).val = val
        /\ Ended(from[d], out, val, fp, win).valWin = win
  <2> TAKE d \in Calls
  <2>1. from[d].fp \in Payloads
    BY <1>2 DEF Call
  <2> HIDE <1>2
  <2> QED
    BY <2>1 DEF Ended, Call, Window
<1>4. calls' = [d \in Calls |-> calls'[d]]
  BY DEF Settle
<1>5. \A d \in Calls : calls'[d] \in Call
  BY <1>1, <1>2, <1>3
<1> QED
  BY <1>1, <1>3, <1>4, <1>5

\* A call that enters has a type, no outcome, and leaves the others alone.
LEMMA EnteredType ==
    ASSUME TypeOK, NEW c \in Calls, NEW fp \in Payloads, NEW pc \in {"sharing", "locking"}
    PROVE  /\ Entered(c, pc, fp) \in [Calls -> Call]
           /\ \A d \in Calls : d # c => Entered(c, pc, fp)[d] = calls[d]
           /\ Entered(c, pc, fp)[c].pc = pc
           /\ Entered(c, pc, fp)[c].out = "none"
<1>1. Open(pc, fp, 0, 0) \in Call /\ Open(pc, fp, 0, 0).pc = pc /\ Open(pc, fp, 0, 0).out = "none"
  BY DEF Open, Call, Window
<1> QED
  BY <1>1 DEF TypeOK, Entered

------------------------------------------------------------------------------
(* Types *)

\* Sending a request keeps the types, with the bound on requests.
LEMMA SendType ==
    ASSUME TypeOK, NEW from \in [Calls -> Call], NEW c \in Calls, NEW fp \in Payloads,
           Send(from, c, fp)
    PROVE  /\ record' \in Record
           /\ calls' \in [Calls -> Call]
           /\ gen' \in 0..MaxSent /\ gen' >= gen /\ gen' <= sent'
           /\ sent' \in 0..MaxSent
<1> DEFINE win == IF record.status = "none" THEN gen + 1 ELSE record.win
<1>1. record.win \in Window /\ gen \in 0..MaxSent /\ sent \in 0..MaxSent /\ gen <= sent
  BY DEF TypeOK, Record
<1>2. sent < MaxSent /\ sent' = sent + 1
  BY DEF Send
<1>3. win \in Window
  BY <1>1, <1>2 DEF Window
<1>4. gen' = IF record.status = "none" THEN gen + 1 ELSE gen
  BY DEF Send
<1>5. /\ record' = [status |-> "in_progress", fp |-> fp, val |-> 0, stale |-> FALSE, win |-> win]
      /\ calls' = [from EXCEPT ![c] = Open("running", fp, win, sent + 1)]
  BY DEF Send
<1> HIDE DEF win
<1>6. record' \in Record
  BY <1>3, <1>5 DEF Record, Status
<1>7. Open("running", fp, win, sent + 1) \in Call
  BY <1>1, <1>2, <1>3 DEF Open, Call, Window
<1>8. calls' \in [Calls -> Call]
  BY <1>5, <1>7
<1> QED
  BY <1>1, <1>2, <1>4, <1>6, <1>8

\* A call that is answered without a request changes calls only.
LEMMA AnswerType ==
    ASSUME TypeOK, NEW from \in [Calls -> Call], NEW c \in Calls, NEW fp \in Payloads,
           Answer(from, c, fp) \/ CannotStart(from, c, fp)
    PROVE  /\ calls' \in [Calls -> Call]
           /\ UNCHANGED <<record, gen, sent>>
<1>1. record.val \in 0..MaxSent /\ record.win \in Window /\ record.fp \in Payloads
  BY DEF TypeOK, Record
<1>2. 0 \in 0..MaxSent /\ 0 \in Window
  BY DEF Window
<1>3. \E out \in {"value", "error", "conflict", "expired", "busy"}, val \in 0..MaxSent,
        p \in Payloads, win \in Window : Settle(from, c, out, val, p, win)
  BY <1>1, <1>2 DEF Answer, CannotStart
<1> QED
  BY <1>3, SettleEnds DEF Answer, CannotStart

\* runLogic keeps the types, whichever way it ends.
LEMMA RunLogicType ==
    ASSUME TypeOK, NEW from \in [Calls -> Call], NEW c \in Calls, NEW fp \in Payloads,
           runLogic(from, c, fp)
    PROVE  /\ record' \in Record
           /\ calls' \in [Calls -> Call]
           /\ gen' \in 0..MaxSent /\ gen' >= gen /\ gen' <= sent'
           /\ sent' \in 0..MaxSent
<1>1. CASE Send(from, c, fp)
  BY <1>1, SendType
<1>2. CASE Answer(from, c, fp) \/ CannotStart(from, c, fp)
  BY <1>2, AnswerType DEF TypeOK
<1> QED
  BY <1>1, <1>2 DEF runLogic

\* A fresh page starts with well-typed state.
LEMMA InitType == Init => TypeOK
<1> SUFFICES ASSUME Init PROVE TypeOK
  OBVIOUS
<1>1. SomePayload \in Payloads
  BY DEF SomePayload
<1>2. record \in Record
  BY <1>1 DEF Init, NoRecord, Record, Status, Window
<1>3. NoCall \in Call
  BY <1>1 DEF NoCall, Open, Call, Window
<1> QED
  BY <1>2, <1>3 DEF Init, TypeOK, Window

\* The calls an operation's end settles stay well typed.
LEMMA EndedCallsType ==
    ASSUME TypeOK, NEW c \in Calls, NEW out \in {"value", "error", "conflict", "expired", "busy"},
           NEW val \in 0..MaxSent, NEW win \in Window,
           Settle(calls, c, out, val, calls[c].fp, win)
    PROVE  calls' \in [Calls -> Call]
<1>1. calls \in [Calls -> Call] /\ calls[c].fp \in Payloads
  BY DEF TypeOK, Call
<1> QED
  BY <1>1, SettleEnds

\* The record a call writes at its end is well typed.
LEMMA OutcomeType ==
    ASSUME TypeOK, NEW c \in Calls, NEW status \in Status, NEW val \in 0..MaxSent
    PROVE  Outcome(calls[c], status, val) \in Record
<1>1. calls[c].fp \in Payloads /\ calls[c].win \in Window
  BY DEF TypeOK, Call
<1> QED
  BY <1>1 DEF Outcome, Record

\* Every step keeps the types.
LEMMA NextType == TypeOK /\ [Next]_vars => TypeOK'
<1> SUFFICES ASSUME TypeOK, [Next]_vars PROVE TypeOK'
  OBVIOUS
<1>1. /\ record \in Record /\ calls \in [Calls -> Call] /\ winner \in [Window -> 0..MaxSent]
      /\ gen \in 0..MaxSent /\ expired \in 0..gen /\ sent \in 0..MaxSent /\ gen <= sent
      /\ 0 \in Window /\ 0 \in 0..MaxSent
  BY DEF TypeOK, Window
<1>2. ASSUME NEW c \in Calls, executeIdempotent(c) PROVE TypeOK'
  <2>1. PICK fp \in Payloads :
          \/ calls' = Entered(c, "sharing", fp) /\ UNCHANGED <<record, gen, sent>>
          \/ calls' = Entered(c, "locking", fp) /\ UNCHANGED <<record, gen, sent>>
          \/ runLogic(Entered(c, "locking", fp), c, fp)
    BY <1>2 DEF executeIdempotent
  <2>2. /\ Entered(c, "sharing", fp) \in [Calls -> Call]
        /\ Entered(c, "locking", fp) \in [Calls -> Call]
    BY EnteredType
  <2>3. UNCHANGED <<env, expired, winner>>
    BY <1>2 DEF executeIdempotent
  <2>4. CASE UNCHANGED <<record, gen, sent>> /\ calls' \in [Calls -> Call]
    BY <2>3, <2>4 DEF TypeOK
  <2>5. CASE runLogic(Entered(c, "locking", fp), c, fp)
    BY <1>1, <2>2, <2>3, <2>5, RunLogicType DEF TypeOK
  <2> QED
    BY <2>1, <2>2, <2>4, <2>5
<1>3. ASSUME NEW c \in Calls, LockAnswers(c) PROVE TypeOK'
  <2>1. UNCHANGED <<env, expired, winner>>
    BY <1>3 DEF LockAnswers
  <2>2. CASE runLogic(calls, c, calls[c].fp)
    <3>1. calls[c].fp \in Payloads
      BY <1>1 DEF Call
    <3> QED
      BY <1>1, <2>1, <2>2, <3>1, RunLogicType DEF TypeOK
  <2>3. CASE /\ Settle(calls, c, "busy", 0, calls[c].fp, 0)
             /\ UNCHANGED <<record, gen, sent>>
    BY <1>1, <2>1, <2>3, EndedCallsType DEF TypeOK
  <2> QED
    BY <1>3, <2>2, <2>3 DEF LockAnswers
<1>4. ASSUME NEW c \in Calls, Succeed(c) PROVE TypeOK'
  <2>1. calls[c].num \in 0..MaxSent /\ calls[c].win \in Window
    BY <1>1 DEF Call
  <2>2. record' \in Record
    BY <1>4, <2>1, OutcomeType DEF Succeed, Status
  <2>3. calls' \in [Calls -> Call]
    BY <1>4, <2>1, EndedCallsType DEF Succeed
  <2>4. winner' \in [Window -> 0..MaxSent]
    BY <1>1, <1>4, <2>1 DEF Succeed
  <2> QED
    BY <1>4, <2>2, <2>3, <2>4 DEF Succeed, TypeOK
<1>5. ASSUME NEW c \in Calls, Fail(c) PROVE TypeOK'
  <2>1. record' \in Record
    BY <1>1, <1>5, OutcomeType DEF Fail, Status
  <2>2. calls' \in [Calls -> Call]
    BY <1>1, <1>5, EndedCallsType DEF Fail
  <2> QED
    BY <1>5, <2>1, <2>2 DEF Fail, TypeOK
<1>6. ASSUME NEW c \in Calls, SucceedUnsaved(c) PROVE TypeOK'
  <2>1. record' \in Record
    BY <1>1, <1>6, OutcomeType DEF SucceedUnsaved, Status
  <2>2. calls' \in [Calls -> Call]
    BY <1>1, <1>6, EndedCallsType DEF SucceedUnsaved
  <2> QED
    BY <1>6, <2>1, <2>2 DEF SucceedUnsaved, TypeOK
<1>7. ASSUME NEW c \in Calls, Crash(c) PROVE TypeOK'
  <2>1. NoCall \in Call
    BY <1>1 DEF NoCall, SomePayload, Open, Call
  <2>2. calls' \in [Calls -> Call]
    BY <1>1, <1>7, <2>1 DEF Crash
  <2> QED
    BY <1>7, <2>2 DEF Crash, TypeOK
<1>8. CASE GoStale \/ Expire \/ evictStale
  <2>1. NoRecord \in Record
    BY <1>1 DEF NoRecord, SomePayload, Record, Status
  <2>2. [record EXCEPT !.stale = TRUE] \in Record
    BY <1>1 DEF Record
  <2>3. CASE GoStale
    BY <2>2, <2>3 DEF GoStale, TypeOK
  <2>4. CASE Expire
    <3>1. expired' \in 0..gen
      BY <1>1, <2>4 DEF Expire
    <3> QED
      BY <2>2, <2>4, <3>1 DEF Expire, TypeOK
  <2>5. CASE evictStale
    BY <2>1, <2>5 DEF evictStale, TypeOK
  <2> QED
    BY <1>8, <2>3, <2>4, <2>5
<1>9. CASE UNCHANGED vars
  BY <1>9 DEF vars, TypeOK
<1> QED
  BY <1>2, <1>3, <1>4, <1>5, <1>6, <1>7, <1>8, <1>9 DEF Next

\* Every variable of the model keeps its type, whatever the environment.
THEOREM IdempotencyTypeCorrect == Spec => []TypeOK
BY InitType, NextType, PTL DEF Spec

------------------------------------------------------------------------------
(* The invariant.  Steps are either quiet (they answer or drop calls), a     *)
(* request, the end of a request, or a change of the clock or the store.     *)

\* No call starts running, and a value that is newly given is the winner's.
Quiet ==
    /\ \A d \in Calls : Running(d)' => Running(d) /\ calls'[d] = calls[d]
    /\ \A d \in Calls :
        calls'[d].out = "value" =>
            \/ calls[d].out = "value" /\ calls'[d].val = calls[d].val
                                      /\ calls'[d].valWin = calls[d].valWin
            \/ calls'[d].val = winner[calls'[d].valWin] /\ calls'[d].val # 0

\* Quiet steps keep the invariant.
LEMMA QuietKeeps ==
    ASSUME KeyInv, Quiet, UNCHANGED <<env, record, gen, expired, sent, winner>>
    PROVE  KeyInv'
<1>1. OneRequest'
  BY DEF KeyInv, OneRequest, Quiet
<1>2. RecordInv' /\ WinnerInv'
  BY DEF KeyInv, RecordInv, WinnerInv
<1>3. RunningInv'
  BY DEF KeyInv, RunningInv, Quiet, RecordExpired
<1>4. AnswerInv'
  BY DEF KeyInv, AnswerInv, Quiet
<1> QED
  BY <1>1, <1>2, <1>3, <1>4 DEF KeyInv

\* While it is in use the key is not settled, and without locks a fresh record
\* keeps other calls out.
LEMMA SendAlone ==
    ASSUME TypeOK, KeyInv, NEW from \in [Calls -> Call], NEW c \in Calls, NEW fp \in Payloads,
           Send(from, c, fp), env.locks => Idle
    PROVE  Idle /\ ~Contract!Settled
<1>1. MaySend(fp)
  BY DEF Send
<1>2. Idle
  <2> SUFFICES ASSUME NEW d \in Calls, Running(d), ~env.locks PROVE FALSE
    BY DEF Idle
  <2>1. record.status = "in_progress" /\ ~record.stale
    BY DEF KeyInv, RunningInv
  <2> QED
    BY <1>1, <2>1 DEF MaySend
<1>3. record.status # "succeeded"
  BY <1>1 DEF MaySend
<1>4. ~Contract!Settled
  BY <1>3 DEF Contract!Settled, Contract!Window, Window, KeyInv, WinnerInv
<1> QED
  BY <1>2, <1>4

\* A request keeps the invariant: its window has no winner yet.
LEMMA SendKeeps ==
    ASSUME TypeOK, KeyInv, NEW from \in [Calls -> Call], NEW c \in Calls, NEW fp \in Payloads,
           \A d \in Calls : d # c => from[d] = calls[d],
           Send(from, c, fp), env.locks => Idle, UNCHANGED <<env, expired, winner>>
    PROVE  KeyInv'
<1> DEFINE win == IF record.status = "none" THEN gen + 1 ELSE record.win
<1>1. /\ gen \in 0..MaxSent /\ sent \in 0..MaxSent /\ gen <= sent /\ sent < MaxSent
      /\ expired \in 0..gen /\ record.win \in Window
  BY DEF TypeOK, Record, Send
<1>2. /\ record' = [status |-> "in_progress", fp |-> fp, val |-> 0, stale |-> FALSE, win |-> win]
      /\ calls' = [from EXCEPT ![c] = Open("running", fp, win, sent + 1)]
      /\ gen' = IF record.status = "none" THEN gen + 1 ELSE gen
      /\ sent' = sent + 1
      /\ MaySend(fp)
  BY DEF Send
<1>3. win = gen' /\ win > 0 /\ win \in Window
  BY <1>1, <1>2 DEF KeyInv, RecordInv, Window
<1>4. winner[win] = 0
  BY <1>1, <1>2, <1>3 DEF MaySend, KeyInv, RecordInv, WinnerInv
<1>5. win > expired
  BY <1>1, <1>2 DEF MaySend, RecordExpired, Window
<1> HIDE DEF win
<1>6. /\ calls'[c] = Open("running", fp, win, sent + 1)
      /\ \A d \in Calls : d # c => calls'[d] = calls[d]
  BY <1>2
<1>7. /\ calls'[c].pc = "running" /\ calls'[c].win = win /\ calls'[c].num = sent + 1
      /\ calls'[c].out = "none"
  BY <1>6 DEF Open
<1>8. \A d \in Calls : Running(d)' => d = c
  BY <1>6, SendAlone DEF Idle, Running
<1>9. OneRequest'
  BY <1>8 DEF OneRequest
<1>10. RecordInv'
  BY <1>2, <1>3, <1>4 DEF RecordInv
<1>11. WinnerInv'
  <2> SUFFICES ASSUME NEW w \in Window
               PROVE  (w > gen' => winner[w] = 0) /\ (w > expired => winner[w] = 0)
    BY DEF WinnerInv
  <2>1. record.status # "succeeded"
    BY <1>2 DEF MaySend
  <2>2. gen' >= gen
    BY <1>1, <1>2
  <2> QED
    BY <1>1, <1>2, <2>1, <2>2 DEF KeyInv, WinnerInv, Window
<1>12. RunningInv'
  BY <1>1, <1>2, <1>3, <1>4, <1>5, <1>7, <1>8 DEF RunningInv, RecordExpired
<1>13. AnswerInv'
  BY <1>6, <1>7 DEF KeyInv, AnswerInv
<1> QED
  BY <1>9, <1>10, <1>11, <1>12, <1>13 DEF KeyInv

\* Settling calls is quiet when the outcome is no value, or is the winner's.
LEMMA SettleQuiet ==
    ASSUME NEW from \in [Calls -> Call], NEW c \in Calls,
           NEW out \in {"value", "error", "conflict", "expired", "busy"},
           NEW val \in 0..MaxSent, NEW fp \in Payloads, NEW win \in Window,
           \A d \in Calls : d # c => from[d] = calls[d],
           out = "value" => val = winner[win] /\ val # 0,
           Settle(from, c, out, val, fp, win)
    PROVE  Quiet
<1>1. \A d \in Calls :
        \/ d # c /\ calls'[d] = from[d]
        \/ /\ calls'[d].pc = "idle"
           /\ calls'[d].out = out
           /\ calls'[d].val = val
           /\ calls'[d].valWin = win
  BY SettleEnds
<1>2. \A d \in Calls :
        \/ calls'[d] = calls[d]
        \/ /\ calls'[d].pc = "idle"
           /\ calls'[d].out = out
           /\ calls'[d].val = val
           /\ calls'[d].valWin = win
  BY <1>1
<1>3. \A d \in Calls : Running(d)' => Running(d) /\ calls'[d] = calls[d]
  BY <1>2 DEF Running
<1> QED
  BY <1>2, <1>3 DEF Quiet

\* An answer is quiet: a replayed value is the winner's, by RecordInv.
LEMMA AnswerQuiet ==
    ASSUME TypeOK, KeyInv, NEW from \in [Calls -> Call], NEW c \in Calls, NEW fp \in Payloads,
           \A d \in Calls : d # c => from[d] = calls[d],
           Answer(from, c, fp) \/ CannotStart(from, c, fp)
    PROVE  Quiet /\ UNCHANGED <<record, gen, sent>>
<1>1. record.val \in 0..MaxSent /\ record.win \in Window /\ record.fp \in Payloads
  BY DEF TypeOK, Record
<1>2. 0 \in 0..MaxSent /\ 0 \in Window
  BY DEF Window
<1>3. record.status = "succeeded" => record.val = winner[record.win] /\ record.val # 0
  BY DEF KeyInv, RecordInv
<1>4. \E out \in {"value", "error", "conflict", "expired", "busy"}, val \in 0..MaxSent,
        p \in Payloads, win \in Window :
            /\ out = "value" => val = winner[win] /\ val # 0
            /\ Settle(from, c, out, val, p, win)
  BY <1>1, <1>2, <1>3 DEF Answer, CannotStart
<1> QED
  BY <1>4, SettleQuiet DEF Answer, CannotStart

\* executeIdempotent and LockAnswers: a request, or something quiet.
LEMMA CallSteps ==
    ASSUME TypeOK, KeyInv, NEW c \in Calls, executeIdempotent(c) \/ LockAnswers(c)
    PROVE  /\ UNCHANGED <<env, expired, winner>>
           /\ \/ Quiet /\ UNCHANGED <<record, gen, sent>>
              \/ \E from \in [Calls -> Call], fp \in Payloads :
                    /\ \A d \in Calls : d # c => from[d] = calls[d]
                    /\ Send(from, c, fp)
                    /\ env.locks => Idle
<1>1. calls \in [Calls -> Call] /\ 0 \in 0..MaxSent /\ 0 \in Window
  BY DEF TypeOK, Window
<1>2. CASE executeIdempotent(c)
  <2>1. PICK fp \in Payloads :
          \/ calls' = Entered(c, "sharing", fp) /\ UNCHANGED <<record, gen, sent>>
          \/ calls' = Entered(c, "locking", fp) /\ UNCHANGED <<record, gen, sent>>
          \/ ~env.locks /\ runLogic(Entered(c, "locking", fp), c, fp)
    BY <1>2 DEF executeIdempotent
  <2>2. \A pc \in {"sharing", "locking"} :
          /\ Entered(c, pc, fp) \in [Calls -> Call]
          /\ \A d \in Calls : d # c => Entered(c, pc, fp)[d] = calls[d]
          /\ Entered(c, pc, fp)[c].pc = pc
          /\ Entered(c, pc, fp)[c].out = "none"
    BY EnteredType
  <2>3. ASSUME NEW pc \in {"sharing", "locking"}, calls' = Entered(c, pc, fp)
        PROVE  Quiet
    <3>1. /\ \A d \in Calls : d # c => Entered(c, pc, fp)[d] = calls[d]
          /\ Entered(c, pc, fp)[c].pc = pc /\ Entered(c, pc, fp)[c].out = "none"
      BY <2>2
    <3>2. \A d \in Calls :
            \/ calls'[d] = calls[d]
            \/ calls'[d].pc = pc /\ calls'[d].out = "none"
      BY <2>3, <3>1
    <3> QED
      BY <3>2 DEF Quiet, Running
  <2>4. CASE ~env.locks /\ runLogic(Entered(c, "locking", fp), c, fp)
    <3> DEFINE from == Entered(c, "locking", fp)
    <3>1. from \in [Calls -> Call] /\ \A d \in Calls : d # c => from[d] = calls[d]
      BY <2>2
    <3>2. UNCHANGED <<env, expired, winner>>
      BY <1>2 DEF executeIdempotent
    <3> HIDE DEF from
    <3>3. CASE Send(from, c, fp)
      BY <2>4, <3>1, <3>2, <3>3
    <3>4. CASE Answer(from, c, fp) \/ CannotStart(from, c, fp)
      BY <3>1, <3>2, <3>4, AnswerQuiet
    <3> QED
      BY <2>4, <3>3, <3>4 DEF runLogic, from
  <2> QED
    BY <1>2, <2>1, <2>3, <2>4 DEF executeIdempotent
<1>3. CASE LockAnswers(c)
  <2>1. calls[c].fp \in Payloads
    BY <1>1 DEF Call
  <2>2. CASE Idle /\ runLogic(calls, c, calls[c].fp)
    <3>1. \A d \in Calls : d # c => calls[d] = calls[d]
      OBVIOUS
    <3>2. UNCHANGED <<env, expired, winner>>
      BY <1>3 DEF LockAnswers
    <3>3. CASE Send(calls, c, calls[c].fp)
      BY <1>1, <2>1, <2>2, <3>1, <3>2, <3>3
    <3>4. CASE Answer(calls, c, calls[c].fp) \/ CannotStart(calls, c, calls[c].fp)
      BY <1>1, <2>1, <3>1, <3>2, <3>4, AnswerQuiet
    <3> QED
      BY <2>2, <3>3, <3>4 DEF runLogic
  <2>3. CASE /\ Settle(calls, c, "busy", 0, calls[c].fp, 0)
             /\ UNCHANGED <<record, gen, sent>>
    <3>1. /\ "busy" \in {"value", "error", "conflict", "expired", "busy"}
          /\ "busy" = "value" => 0 = winner[0] /\ 0 # 0
          /\ \A d \in Calls : d # c => calls[d] = calls[d]
      OBVIOUS
    <3>2. Settle(calls, c, "busy", 0, calls[c].fp, 0)
      BY <2>3
    <3>3. Quiet
      BY <1>1, <2>1, <3>1, <3>2, SettleQuiet
    <3> QED
      BY <1>3, <2>3, <3>3 DEF LockAnswers
  <2> QED
    BY <1>3, <2>2, <2>3 DEF LockAnswers
<1> QED
  BY <1>2, <1>3

\* The end of a request, as the other calls and the contract see it: the call
\* of the only request stops running and its pending record is written back.
LEMMA EndFacts ==
    ASSUME TypeOK, KeyInv, NEW c \in Calls, Running(c),
           NEW out \in {"value", "error"}, NEW val \in 0..MaxSent, NEW win \in Window,
           Settle(calls, c, out, val, calls[c].fp, win)
    PROVE  /\ Idle'
           /\ \A d \in Calls :
                \/ calls'[d] = calls[d]
                \/ /\ calls'[d].out = out
                   /\ calls'[d].val = val
                   /\ calls'[d].valWin = win
           /\ calls[c].win = gen /\ gen > 0 /\ calls[c].num = sent /\ sent > 0
           /\ winner[gen] = 0 /\ gen \in Window /\ sent \in 0..MaxSent
<1>1. calls \in [Calls -> Call] /\ calls[c].fp \in Payloads
  BY DEF TypeOK, Call
<1>2. /\ calls'[c].pc = "idle"
      /\ \A d \in Calls :
            \/ d # c /\ calls'[d] = calls[d]
            \/ /\ calls'[d].pc = "idle"
               /\ calls'[d].out = out
               /\ calls'[d].val = val
               /\ calls'[d].valWin = win
  BY <1>1, SettleEnds
<1>3. Idle'
  BY <1>2 DEF Idle, Running, KeyInv, OneRequest
<1>4. gen \in Window /\ sent \in 0..MaxSent
  BY DEF TypeOK, Window
<1> QED
  BY <1>2, <1>3, <1>4 DEF KeyInv, RunningInv

\* Once no call is running, RunningInv and OneRequest hold by themselves.
LEMMA EndKeeps ==
    ASSUME TypeOK, KeyInv, Idle', UNCHANGED <<env, gen, expired, sent>>,
           RecordInv', WinnerInv', AnswerInv'
    PROVE  KeyInv'
BY DEF KeyInv, Idle, OneRequest, RunningInv

\* The only running call becomes the winner of its window.
LEMMA SucceedKeeps ==
    ASSUME TypeOK, KeyInv, NEW c \in Calls, Succeed(c)
    PROVE  KeyInv'
<1>1. Running(c) /\ calls[c].num \in 0..MaxSent /\ calls[c].win \in Window
  BY DEF Succeed, TypeOK, Call
<1>2. /\ Idle'
      /\ \A d \in Calls :
           \/ calls'[d] = calls[d]
           \/ /\ calls'[d].out = "value"
              /\ calls'[d].val = calls[c].num
              /\ calls'[d].valWin = calls[c].win
      /\ calls[c].win = gen /\ gen > 0 /\ calls[c].num = sent /\ sent > 0
      /\ winner[gen] = 0 /\ gen \in Window /\ sent \in 0..MaxSent
  <2>1. Settle(calls, c, "value", calls[c].num, calls[c].fp, calls[c].win)
    BY DEF Succeed
  <2>2. "value" \in {"value", "error"}
    OBVIOUS
  <2> QED
    BY <1>1, <2>1, <2>2, EndFacts
<1>3. /\ winner' = [winner EXCEPT ![gen] = sent]
      /\ winner \in [Window -> 0..MaxSent]
      /\ record'.status = "succeeded" /\ record'.win = gen /\ record'.val = sent
      /\ UNCHANGED <<env, gen, expired, sent>>
  BY <1>2 DEF Succeed, Outcome, TypeOK
<1>4. winner'[gen] = sent /\ \A w \in Window : w # gen => winner'[w] = winner[w]
  BY <1>2, <1>3
<1>5. RecordInv'
  BY <1>2, <1>3, <1>4 DEF RecordInv
<1>6. WinnerInv'
  <2> SUFFICES ASSUME NEW w \in Window
               PROVE  /\ w > gen => winner'[w] = 0
                      /\ w > expired /\ winner'[w] # 0 => w = gen
    BY <1>3 DEF WinnerInv
  <2>1. gen \in Int /\ w \in Int
    BY <1>2 DEF Window
  <2> QED
    BY <1>2, <1>4, <2>1 DEF KeyInv, WinnerInv, RecordInv
<1>7. AnswerInv'
  <2> SUFFICES ASSUME NEW d \in Calls, calls'[d].out = "value"
               PROVE  calls'[d].val = winner'[calls'[d].valWin] /\ calls'[d].val # 0
    BY DEF AnswerInv
  <2>1. CASE calls'[d] = calls[d]
    <3>1. calls[d].val = winner[calls[d].valWin] /\ calls[d].val # 0 /\ calls[d].valWin \in Window
      BY <2>1 DEF KeyInv, AnswerInv, TypeOK, Call
    <3> QED
      BY <1>2, <1>4, <2>1, <3>1
  <2>2. CASE calls'[d].val = calls[c].num /\ calls'[d].valWin = calls[c].win
    BY <1>2, <1>4, <2>2
  <2> QED
    BY <1>2, <2>1, <2>2
<1> QED
  BY <1>2, <1>3, <1>5, <1>6, <1>7, EndKeeps

\* A failure, or a success that was not stored, leaves the winners alone.
LEMMA FailKeeps ==
    ASSUME TypeOK, KeyInv, NEW c \in Calls, Fail(c) \/ SucceedUnsaved(c)
    PROVE  KeyInv' /\ Idle' /\ Running(c) /\ UNCHANGED <<env, gen, expired, sent, winner>>
<1>1. /\ Running(c) /\ UNCHANGED <<env, gen, expired, sent, winner>>
      /\ Settle(calls, c, "error", 0, calls[c].fp, 0)
      /\ record' = record \/ record' = Outcome(calls[c], "failed", 0)
  BY DEF Fail, SucceedUnsaved
<1>2. /\ Idle'
      /\ \A d \in Calls : calls'[d] = calls[d] \/ calls'[d].out = "error"
      /\ calls[c].win = gen /\ gen > 0
      /\ winner[gen] = 0 /\ gen \in Window
  <2>1. "error" \in {"value", "error"} /\ 0 \in 0..MaxSent /\ 0 \in Window
    BY DEF Window
  <2> QED
    BY <1>1, <2>1, EndFacts
<1>3. record' = record \/ (/\ record'.status = "failed" /\ record'.win = gen)
  BY <1>1, <1>2 DEF Outcome
<1>4. RecordInv'
  BY <1>1, <1>2, <1>3 DEF KeyInv, RecordInv
<1>5. WinnerInv'
  <2>1. \A w \in Window : w > gen => winner[w] = 0
    BY DEF KeyInv, WinnerInv
  <2>2. \A w \in Window : w > expired /\ winner[w] # 0 =>
            record'.status = "succeeded" /\ record'.win = w
    BY <1>2, <1>3 DEF KeyInv, WinnerInv, RecordInv
  <2> QED
    BY <1>1, <2>1, <2>2 DEF WinnerInv
<1>6. AnswerInv'
  BY <1>1, <1>2 DEF KeyInv, AnswerInv
<1> QED
  BY <1>1, <1>2, <1>4, <1>5, <1>6, EndKeeps

------------------------------------------------------------------------------
(* The other steps *)

\* The death of a tab only drops calls.
LEMMA CrashQuiet ==
    ASSUME TypeOK, KeyInv, NEW c \in Calls, Crash(c)
    PROVE  Quiet /\ UNCHANGED <<env, record, gen, expired, sent, winner>>
<1>1. \A d \in Calls : calls'[d] = calls[d] \/ calls'[d] = NoCall
  BY DEF Crash
<1>2. NoCall.pc = "idle" /\ NoCall.out = "none"
  BY DEF NoCall, Open
<1> QED
  BY <1>1, <1>2 DEF Crash, Quiet, Running

\* Time makes a record stale or expired only while no call relies on it:
\* there is a lock, or no call is running.
LEMMA ClockKeeps ==
    ASSUME TypeOK, KeyInv, KeptApart, GoStale \/ Expire
    PROVE  KeyInv' /\ expired' >= expired
<1>1. /\ UNCHANGED <<env, calls, gen, sent, winner>>
      /\ expired' >= expired /\ expired \in Int
      /\ record' = [record EXCEPT !.stale = TRUE] /\ record \in Record
      /\ env.locks \/ Idle
  <2>1. env.locks \/ ~env.slow
    BY DEF KeptApart, TypeOK
  <2> QED
    BY <2>1 DEF GoStale, Expire, TimeMayPass, TypeOK
<1>2. record'.status = record.status /\ record'.win = record.win /\ record'.val = record.val
  BY <1>1 DEF Record
<1>3. OneRequest' /\ RecordInv'
  BY <1>1, <1>2 DEF KeyInv, OneRequest, Running, RecordInv
<1>4. WinnerInv'
  <2>1. \A w \in Window : w > expired' => w > expired
    BY <1>1 DEF Window, Expire, GoStale, TypeOK
  <2> QED
    BY <1>1, <1>2, <2>1 DEF KeyInv, WinnerInv
<1>5. RunningInv'
  BY <1>1 DEF KeyInv, RunningInv, Running, Idle
<1>6. AnswerInv'
  BY <1>1 DEF KeyInv, AnswerInv
<1> QED
  BY <1>1, <1>3, <1>4, <1>5, <1>6 DEF KeyInv

\* What the eviction worker removes has expired, so no open window loses its
\* winner's record.
LEMMA EvictKeeps ==
    ASSUME TypeOK, KeyInv, evictStale
    PROVE  KeyInv' /\ UNCHANGED <<env, calls, gen, expired, sent, winner>>
<1>1. /\ UNCHANGED <<env, calls, gen, expired, sent, winner>>
      /\ record.win <= expired /\ record'.status = "none"
      /\ expired \in Int /\ record.win \in Int
  BY DEF evictStale, RecordExpired, NoRecord, TypeOK, Record, Window
<1>2. OneRequest' /\ RecordInv'
  BY <1>1 DEF KeyInv, OneRequest, Running, RecordInv
<1>3. WinnerInv'
  BY <1>1 DEF KeyInv, WinnerInv
<1>4. RunningInv'
  BY <1>1 DEF KeyInv, RunningInv, Running, RecordExpired
<1>5. AnswerInv'
  BY <1>1 DEF KeyInv, AnswerInv
<1> QED
  BY <1>1, <1>2, <1>3, <1>4, <1>5 DEF KeyInv

\* The invariant holds at first.
LEMMA InitKey == Init => KeyInv
<1> SUFFICES ASSUME Init PROVE KeyInv
  OBVIOUS
<1>1. record.status = "none"
  BY DEF Init, NoRecord
<1>2. \A c \in Calls : calls[c].pc = "idle" /\ calls[c].out = "none"
  BY DEF Init, NoCall, Open
<1>3. \A w \in Window : winner[w] = 0
  BY DEF Init
<1> QED
  BY <1>1, <1>2, <1>3 DEF KeyInv, OneRequest, RecordInv, WinnerInv, RunningInv, AnswerInv, Running

\* Every step keeps the invariant.
LEMMA NextKey == TypeOK /\ KeyInv /\ KeptApart /\ [Next]_vars => KeyInv'
<1> SUFFICES ASSUME TypeOK, KeyInv, KeptApart, [Next]_vars PROVE KeyInv'
  OBVIOUS
<1>1. ASSUME NEW c \in Calls, executeIdempotent(c) \/ LockAnswers(c) PROVE KeyInv'
  BY <1>1, CallSteps, QuietKeeps, SendKeeps
<1>2. ASSUME NEW c \in Calls, Succeed(c) PROVE KeyInv'
  BY <1>2, SucceedKeeps
<1>3. ASSUME NEW c \in Calls, Fail(c) \/ SucceedUnsaved(c) PROVE KeyInv'
  BY <1>3, FailKeeps
<1>4. ASSUME NEW c \in Calls, Crash(c) PROVE KeyInv'
  BY <1>4, CrashQuiet, QuietKeeps
<1>5. CASE GoStale \/ Expire
  BY <1>5, ClockKeeps
<1>6. CASE evictStale
  BY <1>6, EvictKeeps
<1>7. CASE UNCHANGED vars
  BY <1>7 DEF vars, KeyInv, OneRequest, RecordInv, WinnerInv, RunningInv, AnswerInv,
              Running, RecordExpired
<1> QED
  BY <1>1, <1>2, <1>3, <1>4, <1>5, <1>6, <1>7 DEF Next

\* The inductive invariant of the module.
LEMMA KeyInvariant == Spec /\ KeptApart => [](TypeOK /\ KeyInv)
<1>1. CASE KeptApart
  <2>1. TypeOK /\ KeyInv /\ [Next]_vars => (TypeOK /\ KeyInv)'
    BY <1>1, NextType, NextKey
  <2>2. Init => TypeOK /\ KeyInv
    BY InitType, InitKey
  <2> QED
    BY <2>1, <2>2, PTL DEF Spec
<1>2. CASE ~KeptApart
  BY <1>2
<1> QED
  BY <1>1, <1>2

------------------------------------------------------------------------------
(* What follows from it *)

\* Two requests under one key are never under way together.
THEOREM OneRequestAtATime == Spec /\ KeptApart => []OneRequest
BY KeyInvariant, PTL DEF KeyInv

\* All callers given a value in a window are given the same one.
THEOREM AnswersDoAgree == Spec /\ KeptApart => []AnswersAgree
<1>1. KeyInv => AnswersAgree
  BY DEF KeyInv, AnswerInv, AnswersAgree
<1> QED
  BY <1>1, KeyInvariant, PTL

------------------------------------------------------------------------------
(* The module implements KeyContract *)

\* The module starts as KeyContract does.
LEMMA ContractInit == Init => Contract!Init
BY DEF Init, Contract!Init, Contract!Window, Window, Idle, Running, NoCall, Open

\* A quiet step is a stutter of the contract, or gives a request up.
LEMMA QuietContract ==
    ASSUME Quiet, UNCHANGED <<sent, winner, expired>>
    PROVE  [Contract!Next]_Contract!contractVars
<1>1. Idle => Idle'
  BY DEF Quiet, Idle
<1>2. CASE Idle' = Idle
  BY <1>2 DEF Contract!contractVars
<1>3. CASE ~Idle /\ Idle'
  BY <1>3 DEF Contract!Next, Contract!GiveUp
<1> QED
  BY <1>1, <1>2, <1>3 DEF Idle

\* Every step is one of the contract's or a stutter.
LEMMA ContractStep ==
    TypeOK /\ KeyInv /\ KeptApart /\ [Next]_vars => [Contract!Next]_Contract!contractVars
<1> SUFFICES ASSUME TypeOK, KeyInv, KeptApart, [Next]_vars
             PROVE  [Contract!Next]_Contract!contractVars
  OBVIOUS
<1>1. ASSUME NEW c \in Calls, executeIdempotent(c) \/ LockAnswers(c)
      PROVE  [Contract!Next]_Contract!contractVars
  <2>1. CASE Quiet /\ UNCHANGED <<sent, winner, expired>>
    BY <2>1, QuietContract
  <2>2. ASSUME NEW from \in [Calls -> Call], NEW fp \in Payloads,
               Send(from, c, fp), env.locks => Idle, UNCHANGED <<winner, expired>>
        PROVE  Contract!Request
    <3>1. Idle /\ ~Contract!Settled
      BY <2>2, SendAlone
    <3>2. sent' = sent + 1 /\ calls'[c].pc = "running"
      BY <2>2 DEF Send, Open
    <3> QED
      BY <2>2, <3>1, <3>2 DEF Contract!Request, Idle, Running
  <2> QED
    BY <1>1, <2>1, <2>2, CallSteps DEF Contract!Next
<1>2. ASSUME NEW c \in Calls, Succeed(c) PROVE Contract!Report
  <2>1. /\ Running(c) /\ calls[c].num \in 0..MaxSent /\ calls[c].win \in Window
        /\ Settle(calls, c, "value", calls[c].num, calls[c].fp, calls[c].win)
        /\ "value" \in {"value", "error"}
    BY <1>2 DEF Succeed, TypeOK, Call
  <2>2. /\ Idle' /\ calls[c].win = gen /\ calls[c].num = sent
        /\ winner[gen] = 0 /\ gen \in Window
    BY <2>1, EndFacts
  <2>3. winner' = [winner EXCEPT ![gen] = sent] /\ UNCHANGED <<sent, expired>>
    BY <1>2, <2>2 DEF Succeed
  <2>4. ~Idle
    BY <2>1 DEF Idle
  <2> QED
    BY <2>2, <2>3, <2>4 DEF Contract!Report, Contract!Window, Window
<1>3. ASSUME NEW c \in Calls, Fail(c) \/ SucceedUnsaved(c) PROVE Contract!GiveUp
  BY <1>3, FailKeeps DEF Contract!GiveUp, Idle
<1>4. ASSUME NEW c \in Calls, Crash(c) PROVE [Contract!Next]_Contract!contractVars
  BY <1>4, CrashQuiet, QuietContract
<1>5. CASE GoStale \/ evictStale \/ UNCHANGED vars
  BY <1>5 DEF GoStale, evictStale, vars, Contract!contractVars, Idle, Running
<1>6. CASE Expire
  <2>1. expired' > expired
    BY <1>6 DEF Expire, TypeOK
  <2>2. UNCHANGED <<calls, sent, winner>>
    BY <1>6 DEF Expire
  <2> QED
    BY <2>1, <2>2 DEF Contract!Next, Contract!Expire, Idle, Running
<1> QED
  BY <1>1, <1>2, <1>3, <1>4, <1>5, <1>6 DEF Next, Contract!Next

\* The calls of any number of tabs, with crashes, expiry and eviction, send
\* requests as KeyContract allows: one at a time, and none while a reported
\* success stands.
THEOREM ContractKept == Spec /\ KeptApart => KeepsContract
<1>1. CASE KeptApart
  <2>1. TypeOK /\ KeyInv /\ [Next]_vars => [Contract!Next]_Contract!contractVars
    BY <1>1, ContractStep
  <2>2. Spec => [](TypeOK /\ KeyInv)
    BY <1>1, KeyInvariant
  <2> QED
    BY <2>1, <2>2, ContractInit, PTL DEF Spec, KeepsContract, Contract!Spec
<1>2. CASE ~KeptApart
  BY <1>2
<1> QED
  BY <1>1, <1>2
==============================================================================
