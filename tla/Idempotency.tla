----------------------------- MODULE Idempotency -----------------------------
(***************************************************************************)
(* executeIdempotent of lib/idempotency.ts for one idempotency key: calls   *)
(* from several tabs, the record they share in localStorage, the in-flight  *)
(* map of each tab, the Web Lock of the key and the eviction worker.        *)
(*                                                                          *)
(* A call yields while it waits for the lock and while it awaits the        *)
(* operation; an action covers the code between.  The n-th request sent     *)
(* under the key has number n, which also stands for the value it returns.  *)
(***************************************************************************)
EXTENDS Integers

CONSTANTS
    Calls,          \* calls of executeIdempotent that may be open at once
    TabOf,          \* [Calls -> tabs]
    Payloads,       \* fingerprints of the requests made under the key
    Envs,           \* the environments considered: a subset of Env
    StorageFaults,  \* TRUE: localStorage.setItem may throw
    MaxSent         \* bound on the requests sent

\* locks: navigator.locks exists.  slow: an operation may still be awaited when
\* its record gets stale (staleInProgressMs) or its window expires (expiresAt).
Env == [locks : BOOLEAN, slow : BOOLEAN]

ASSUME EnvsAssumption == Envs \subseteq Env
ASSUME PayloadsAssumption == Payloads # {}
ASSUME SentAssumption == MaxSent \in Nat
ASSUME IdemFaultsAssumption == StorageFaults \in BOOLEAN

VARIABLES
    env,        \* fixed for a behaviour
    record,     \* the stored IdempotencyRecord
    calls,      \* [Calls -> Call]
    gen,        \* windows opened: distinct expiresAt given so far
    expired,    \* windows 1..expired have passed their expiresAt
    (* history *)
    sent,       \* requests sent under the key
    winner      \* [window -> the request a caller was told succeeded, or 0]

vars == <<env, record, calls, gen, expired, sent, winner>>

Window == 0..MaxSent
Status == {"none", "in_progress", "succeeded", "failed"}

\* stale: now - updatedAt >= staleInProgressMs.  win: expiresAt.
Record == [status : Status, fp : Payloads, val : 0..MaxSent, stale : BOOLEAN,
           win : Window]

\* idle:    no call, out says how the last one ended
\* sharing: awaits the in-flight promise of another call of its tab
\* locking: awaits navigator.locks.request
\* running: awaits operation()
Call == [pc : {"idle", "sharing", "locking", "running"}, fp : Payloads,
         win : Window, num : 0..MaxSent,
         out : {"none", "value", "error", "conflict", "expired", "busy"},
         val : 0..MaxSent, valFp : Payloads, valWin : Window]

SomePayload == CHOOSE p \in Payloads : TRUE
NoRecord == [status |-> "none", fp |-> SomePayload, val |-> 0, stale |-> FALSE, win |-> 0]

\* A call that has no outcome yet.
Open(pc, fp, win, num) ==
    [pc |-> pc, fp |-> fp, win |-> win, num |-> num,
     out |-> "none", val |-> 0, valFp |-> fp, valWin |-> 0]
NoCall == Open("idle", SomePayload, 0, 0)

TypeOK ==
    /\ env \in Envs
    /\ record \in Record
    /\ calls \in [Calls -> Call]
    /\ gen \in 0..MaxSent
    /\ expired \in 0..gen
    /\ sent \in 0..MaxSent
    /\ gen <= sent
    /\ winner \in [Window -> 0..MaxSent]

Init ==
    /\ env \in Envs
    /\ record = NoRecord
    /\ calls = [c \in Calls |-> NoCall]
    /\ gen = 0
    /\ expired = 0
    /\ sent = 0
    /\ winner = [w \in Window |-> 0]

------------------------------------------------------------------------------
Running(c) == calls[c].pc = "running"

\* The call whose promise the tab's inFlight map holds for the key.
Leads(c) == calls[c].pc \in {"locking", "running"}
Followers(c) == {d \in Calls : calls[d].pc = "sharing" /\ TabOf[d] = TabOf[c]}

\* With locks, a tab holds the lock of the key while runLogic awaits the
\* operation; the code before and after that await is part of an action.
Idle == \A c \in Calls : ~Running(c)

Ended(call, out, val, fp, win) ==
    [pc |-> "idle", fp |-> call.fp, win |-> 0, num |-> 0,
     out |-> out, val |-> val, valFp |-> fp, valWin |-> win]

SettleAlone(from, c, out, val, fp, win) ==   \* mutant: callers sharing it forgotten
    calls' = [d \in Calls |->
                IF d = c THEN Ended(from[d], out, val, fp, win) ELSE from[d]]

\* The promise of call c settles, and with it that of the calls sharing it;
\* `from` are the calls as this handler found or made them.
Settle(from, c, out, val, fp, win) ==
    calls' = [d \in Calls |->
                IF d = c \/ d \in Followers(c) THEN Ended(from[d], out, val, fp, win)
                                               ELSE from[d]]

RecordExpired == record.win <= expired

MaySendInProgress(fp) ==    \* mutant: staleness not checked
    \/ record.status = "none"
    \/ /\ record.fp = fp
       /\ ~RecordExpired
       /\ record.status # "succeeded"

MaySendAgain(fp) ==     \* mutant: the stored result is not replayed
    \/ record.status = "none"
    \/ /\ record.fp = fp
       /\ ~RecordExpired
       /\ record.status = "in_progress" => record.stale

\* runLogic sends the request: no record, a failed one, or a stale attempt.
MaySend(fp) ==
    \/ record.status = "none"
    \/ /\ record.fp = fp
       /\ ~RecordExpired
       /\ \/ record.status = "failed"
          \/ record.status = "in_progress" /\ record.stale

Send(from, c, fp) ==
    LET win == IF record.status = "none" THEN gen + 1 ELSE record.win IN
    /\ MaySend(fp)
    /\ sent < MaxSent
    /\ sent' = sent + 1
    /\ gen' = IF record.status = "none" THEN gen + 1 ELSE gen
    /\ record' = [status |-> "in_progress", fp |-> fp, val |-> 0, stale |-> FALSE, win |-> win]
    /\ calls' = [from EXCEPT ![c] = Open("running", fp, win, sent + 1)]

\* runLogic ends without a request: an error, or the stored outcome.
Answer(from, c, fp) ==
    /\ record.status # "none"
    /\ \/ RecordExpired /\ Settle(from, c, "expired", 0, fp, 0)
       \/ ~RecordExpired /\ record.fp # fp /\ Settle(from, c, "conflict", 0, fp, 0)
       \/ /\ ~RecordExpired /\ record.fp = fp /\ record.status = "succeeded"
          /\ Settle(from, c, "value", record.val, record.fp, record.win)
       \/ /\ ~RecordExpired /\ record.fp = fp
          /\ record.status = "in_progress" /\ ~record.stale
          /\ Settle(from, c, "busy", 0, fp, 0)
    /\ UNCHANGED <<record, gen, sent>>

\* store.set(pending) throws: nothing is sent.
CannotStart(from, c, fp) ==
    /\ StorageFaults
    /\ MaySend(fp)
    /\ Settle(from, c, "error", 0, fp, 0)
    /\ UNCHANGED <<record, gen, sent>>

runLogic(from, c, fp) ==
    \/ Send(from, c, fp)
    \/ Answer(from, c, fp)
    \/ CannotStart(from, c, fp)

InFlight(c) == \E d \in Calls : Leads(d) /\ TabOf[d] = TabOf[c]
Entered(c, pc, fp) == [calls EXCEPT ![c] = Open(pc, fp, 0, 0)]

\* executeIdempotent up to its first await.
executeIdempotent(c) ==
    /\ calls[c].pc = "idle"
    /\ \E fp \in Payloads :
        \/ /\ InFlight(c)
           /\ calls' = Entered(c, "sharing", fp)
           /\ UNCHANGED <<record, gen, sent>>
        \/ /\ ~InFlight(c)
           /\ env.locks
           /\ calls' = Entered(c, "locking", fp)
           /\ UNCHANGED <<record, gen, sent>>
        \/ /\ ~InFlight(c)
           /\ ~env.locks
           /\ runLogic(Entered(c, "locking", fp), c, fp)
    /\ UNCHANGED <<env, expired, winner>>

\* The callback of locks.request, with the lock or, ifAvailable, without it.
LockAnswers(c) ==
    /\ calls[c].pc = "locking"
    /\ \/ Idle /\ runLogic(calls, c, calls[c].fp)
       \/ /\ ~Idle
          /\ Settle(calls, c, "busy", 0, calls[c].fp, 0)
          /\ UNCHANGED <<record, gen, sent>>
    /\ UNCHANGED <<env, expired, winner>>

\* What the call writes once the operation is over: its pending record with
\* the outcome, whatever the store holds by now.
Outcome(call, status, val) ==
    [status |-> status, fp |-> call.fp, val |-> val, stale |-> FALSE, win |-> call.win]

Succeed(c) ==
    LET call == calls[c] IN
    /\ Running(c)
    /\ record' = Outcome(call, "succeeded", call.num)
    /\ Settle(calls, c, "value", call.num, call.fp, call.win)
    /\ winner' = [winner EXCEPT ![call.win] = call.num]
    /\ UNCHANGED <<env, gen, expired, sent>>

Fail(c) ==
    /\ Running(c)
    /\ record' = Outcome(calls[c], "failed", 0)
    /\ Settle(calls, c, "error", 0, calls[c].fp, 0)
    /\ UNCHANGED <<env, gen, expired, sent, winner>>

\* The operation succeeded but store.set throws, inside the try block: the
\* catch block tries to write a failure, and the caller gets the error.
SucceedUnsaved(c) ==
    /\ StorageFaults
    /\ Running(c)
    /\ record' \in {record, Outcome(calls[c], "failed", 0)}
    /\ Settle(calls, c, "error", 0, calls[c].fp, 0)
    /\ UNCHANGED <<env, gen, expired, sent, winner>>

\* The tab of call c is closed or reloaded; its lock is released.
Crash(c) ==
    /\ calls[c].pc # "idle"
    /\ calls' = [d \in Calls |-> IF TabOf[d] = TabOf[c] THEN NoCall ELSE calls[d]]
    /\ UNCHANGED <<env, record, gen, expired, sent, winner>>

------------------------------------------------------------------------------
(* The clock and the eviction worker *)

TimeMayPass == env.slow \/ Idle

\* staleInProgressMs pass without a write of the record.
GoStale ==
    /\ TimeMayPass
    /\ record.status = "in_progress"
    /\ record' = [record EXCEPT !.stale = TRUE]
    /\ UNCHANGED <<env, calls, gen, expired, sent, winner>>

\* ttlMs pass: windows reach their expiresAt, in the order they were opened.
Expire ==
    /\ TimeMayPass
    /\ \E w \in (expired + 1)..gen : expired' = w
    /\ record' = [record EXCEPT !.stale = TRUE]
    /\ UNCHANGED <<env, calls, gen, sent, winner>>

EvictAny ==     \* mutant: expiresAt not compared
    /\ record.status # "none"
    /\ record' = NoRecord
    /\ UNCHANGED <<env, calls, gen, expired, sent, winner>>

evictStale ==
    /\ record.status # "none"
    /\ RecordExpired
    /\ record' = NoRecord
    /\ UNCHANGED <<env, calls, gen, expired, sent, winner>>

------------------------------------------------------------------------------
Next ==
    \/ \E c \in Calls :
        \/ executeIdempotent(c)
        \/ LockAnswers(c)
        \/ Succeed(c)
        \/ Fail(c)
        \/ SucceedUnsaved(c)
        \/ Crash(c)
    \/ GoStale
    \/ Expire
    \/ evictStale

Spec == Init /\ [][Next]_vars

\* Locks are answered, and the request layer settles every request.
Fairness ==
    \A c \in Calls : WF_vars(LockAnswers(c)) /\ WF_vars(Succeed(c) \/ Fail(c))

FairSpec == Spec /\ Fairness

------------------------------------------------------------------------------
(* Properties, where calls are kept apart by locks or by their speed *)

\* "Runs operation at most once per key" (idempotency.ts:475): two requests
\* under one key are never under way together, whichever tabs the calls are in
\* and whatever the clock, crashes and the eviction worker do to the record.
OneRequest == \A c, d \in Calls : Running(c) /\ Running(d) => c = d

\* Every caller that is given a value in one window is given the same one, by
\* its own request, a shared promise or a replay of the record.
AnswersAgree ==
    \A c, d \in Calls :
        calls[c].out = "value" /\ calls[d].out = "value"
            /\ calls[c].valWin = calls[d].valWin
        => calls[c].val = calls[d].val

Contract == INSTANCE KeyContract WITH busy <- ~Idle

\* The module does what KeyContract says: after a success was reported, no
\* call of any tab sends another request before the window is over.
KeepsContract == Contract!Spec

\* Every call of executeIdempotent settles, also one that shares a promise,
\* waits for the lock or loses it (up to the bound on requests).
CallsAnswered ==
    \A c \in Calls : calls[c].pc # "idle" ~> calls[c].pc = "idle" \/ sent = MaxSent

------------------------------------------------------------------------------
(* The strengthening that makes the safety properties inductive *)

RecordInv ==
    /\ record.status # "none" => record.win = gen /\ gen > 0
    /\ record.status = "succeeded" => record.val = winner[record.win] /\ record.val # 0
    /\ record.status \in {"in_progress", "failed"} => winner[record.win] = 0

WinnerInv ==
    \A w \in Window :
        /\ w > gen => winner[w] = 0
        /\ w > expired /\ winner[w] # 0 => record.status = "succeeded" /\ record.win = w

RunningInv ==
    \A c \in Calls :
        Running(c) =>
            /\ calls[c].win = gen /\ gen > 0
            /\ calls[c].num = sent /\ sent > 0
            /\ winner[gen] = 0
            /\ ~env.locks => /\ record.status = "in_progress"
                             /\ ~record.stale
                             /\ ~RecordExpired

AnswerInv ==
    \A c \in Calls :
        calls[c].out = "value" => calls[c].val = winner[calls[c].valWin] /\ calls[c].val # 0

KeyInv == OneRequest /\ RecordInv /\ WinnerInv /\ RunningInv /\ AnswerInv

------------------------------------------------------------------------------
(* Stated by the source, refuted by runs *)

\* idempotency.ts:30, "same key, other payload -> IdempotencyConflictError": a
\* caller is never given the result of a request with another payload.
AnswersOwnPayload ==
    \A c \in Calls : calls[c].out = "value" => calls[c].valFp = calls[c].fp

\* idempotency.ts:31, "expired key -> IdempotencyKeyExpiredError": a key whose
\* request succeeded sends nothing more once its window is over.
ExpiredNeverRuns == [][sent' # sent => \A w \in 1..expired : winner[w] = 0]_vars
==============================================================================
