# Formal models of Trellis-frontend

TLA+ models of the stateful parts of the Trellis client (Next.js and
TypeScript), the TLC runs that check them on small instances, and theorems
about them that TLAPS proves for every instance. Paths below are relative to
`src/`.

Most of the repository is rendering, validation and arithmetic over given data.
What can go wrong in ways a test does not reach sits in the modules that keep
records in `localStorage` or on a server, share them between browser tabs, and
await something in between. Those are what these models are about.

## The system

Common to all of them: JavaScript runs each handler to completion, up to its
next `await`, and `localStorage` is synchronous and shared by the tabs of an
origin. An action of a model is therefore the code between two awaits, and
everything else may happen at an await: another tab's handler, the death of the
tab, the passing of a timeout, a change of what the storage accepts.

| Component | State | Operations | Talks to | What is hard | What makes it correct |
|---|---|---|---|---|---|
| Operation recovery (`lib/recovery`) | operation records and checkpoints in `localStorage`, an in-memory fallback per tab | create, execute, sweepAbandoned, pruneExpired, abortOperation | executors passed by callers | two tabs, stale copies, crashes between effect and checkpoint, quota | one runner, effects fenced by checkpoints, forward only, orphans released |
| Idempotent execution (`lib/idempotency.ts`) | a record per key in `localStorage`, in-flight promises per tab, a Web Lock per key | executeIdempotent, eviction, attempt keys | `lib/api.ts` (postIdempotent), the affiliate payout store | two tabs, stale records, expiry, browsers without locks | one request at a time, no request after a reported success, equal answers |
| Side-effect dispatcher (`lib/side-effects`) | idempotency records, in-flight promises, dead letters | dispatch, replayDeadLetter, discard, clear | idempotency store, retry policy | no lock, retries longer than the stale limit, whole-array writes | a success is not repeated, a failure is shown until somebody deals with it |
| Soroban event sync (`lib/soroban/event-sync.ts`, `events.ts`) | cursor, last ledger, 500 processed ids, one stream | subscribe, catch-up pages, stream messages, reconnect, close | RPC node, Horizon, event handlers | crash between cursor write and delivery, overlapping catch-ups, the gap between catch-up and stream | nothing passed over, nothing twice, the cursor never goes back |
| Affiliate payouts (`lib/affiliate-store.ts`, `useAffiliateStore.ts`, `lib/api.ts`, `lib/retry`) | stored attempts, key records, the server's payouts and its key index | requestPayout on both sides, the retry loop, advancing of payouts | the network | lost answers, late requests, clicks side by side, an attempt that expires | one payout per key and per intent, success reported only for what was accepted |
| Offline queue (`lib/pwa-utils.ts`) | queued submissions with attempts and conflicts in `localStorage` | enqueue, flush, retry and discard of a conflict | the API, the service worker's wake-ups | flushes that overlap, each on its own snapshot | no submission disappears unanswered |
| Cached values (`lib/cache-manager.ts`) | a map in memory, IndexedDB behind it, shared fetches | getOrFetchCachedValue, clearCachedValues | `lib/api.ts`, `lib/ipfs.ts`, other pages | reads, writes and clears that overtake each other | nothing cleared comes back, memory agrees with the database |
| Maintainer approvals (`lib/maintainer-approvals`) | receipts, offline queue, audit log | approveAndSignIntent, syncOfflineQueue, executeApprovedAction, rollbackAction | executors, telemetry observers | execution racing rollback and expiry, an observer that throws | executed once, rolled back stays so, the receipt tells what happened |
| Export and cancellation (`lib/cancellation`, `lib/export`, `app/api/export`) | running operations, abort signals, cleanup timers, the response stream | register, complete, fail, cancel, batches, retries | the client that reads, cancels or goes away | a late completion, a cancel during a sleep, reused ids | cancelled stays cancelled, completed means whole, cancelling ends |
| Domain events (`lib/domain-events`) | pending retries, dead letters | emit, deliver, capture, remove, replay | window events, handlers | unsubscribing with retries pending, a replay interrupted by a reload | an event is handled or in exactly one place |
| Telemetry transport (`features/agent-telemetry`) | socket, peer and channel, three timers, the reported state | start, reconnect, dispose and ten callbacks | signalling server, WebRTC | timers of an earlier attempt, fallback in the middle of a negotiation | open means open, every attempt settles |
| Session continuity (`features/session-continuity`) | pending entries, the snapshot of a flush, recent payloads | publish, flush, unmount | BroadcastChannel | publishes during a flush, unmounting under it | a publish is answered, and truly |
| Conflict resolver (`lib/conflict-resolver.ts`) | a versioned record, a log of applied operations | resolveEdit | the store, an authorizer | commits between read and swap, lost responses, double submissions | edits take effect atomically and once, in any order |
| Staking engine (`lib/staking`) | a pool and its positions | stake, unstake, emergencyUnstake, claimUnbonded, claimRewards | callers, who pass the time | rewards settled late through an accumulator, three paths that delete positions | shares of the emission, principal owed |
| Protocol guard (`lib/protocol`) | pauses, their audit log, receipts | pause, resume, executeGuardedOperation, receipt transitions | route handlers, the preflight rules | pauses of an operation and of single wallets that overlap | the gate follows the audit log |
| Invitations (`lib/invitations.ts`) | invitations, a window of counts per inviter | create, accept, reject, revoke, get, clear | the clock | expiry that no call announces, a fixed window | decisions that stand |
| Backfill tool (`scripts/backfill.ts`) | a checkpoint file | run, resume, dry run, limit | adapters | death between apply and the checkpoint | what is on file was done, and nothing is done twice unless nobody knows |

Everything else is listed in `PROJECT.json` with the reason why it is not
modelled, and under "Not modelled" below.

## Modules

| Module | What it is |
|---|---|
| `CheckpointStore`, `Recovery` | the checkpoint store as one operation sees it; `OperationManager`, its properties and inductive invariants |
| `RecoveryProofs`, `RecoveryQuickProofs` | types and "completed means done" in every environment; the guarantees of quick executors and a reliable storage |
| `KeyContract`, `Idempotency`, `IdempotencyProofs` | what an idempotency key promises; `executeIdempotent` for one key, several calls in several tabs; that it implements the contract |
| `SideEffects` | the dispatcher and its dead letters, which implement `KeyContract` too |
| `EventSync`, `Payouts`, `OfflineQueue`, `ValueCache` | the components that talk to a server |
| `MaintainerApprovals`, `ExportCancellation`, `DomainEvents`, `TelemetryTransport`, `SessionSync` | the components whose work must come to an end |
| `ThreeWayMerge`, `AtomicEdits`, `ConflictResolver`, `ConflictResolverProofs` | the merge, what the resolver promises, the resolver, and that it keeps the promise |
| `StakingEngine`, `StakingProofs` | the pool and its positions; that rewards are shares of the emission and the principal is owed |
| `OperationsProofs` | that receipts tell the truth and rollbacks are final, exports end as they report, the transport is as open as it says, publishes are answered truly, an event nobody accepted is in one place |
| `NetworkProofs` | that nothing is paid twice; that what was cleared stays away; that a queued submission is accounted for; that a failure is shown and a dispatched key keeps its contract; that no event is passed over or delivered twice and the resume point only moves on |
| `Backfill`, `ProtocolGuard`, `Invitations`, `ClientProofs` | runs over a checkpoint file; pauses and receipts; invitations; that a backfill resumes, the gate follows the log, and decisions stand |
| `MCOperations`, `MCNetwork`, `MCClient` | instances for TLC of several components each |
| `MCRecovery`, `MCIdempotency`, `MCPayoutsReport`, `MCSessionSync` | instances for TLC of one component |

The last three composed modules put components side by side that share no
state. Their variable `part` is chosen in the initial state and says which
component a behaviour is about; the others stay in their initial state. The
state spaces add up and do not multiply, and a formula about one part is checked
on the behaviours of that part.

Components that do interact are modelled together: the click, the attempt, the
record of the key, the retry loop, the network and the server's ledger in
`Payouts` (with the records behaving as `KeyContract` says, which
`IdempotencyProofs` shows of the real ones); the registry, the route and the
stream in `ExportCancellation`; the subscription manager, the catch-up worker
and the cursor store in `EventSync`.

Most modules fix an environment in the initial state (`env`, `setting`, `web`,
`offline`, `cache`, `link`, `store`, `previews`, `observerThrows`, `storageFull`,
`sameId`): a record of the things that may go wrong in the behaviour. A property
that the code can only give without one of them names it; the configuration
covers every environment a property speaks of.

### Recovery

State. `disk` is the operation's record and the set of its checkpointed steps
in `localStorage`; `mem[t]` is the fallback store of tab `t`; `quota` says
whether the storage takes writes, drops large ones silently (`writeJson`
swallows the QuotaExceededError, while the getter's one-character write test
still passes) or is denied. `run[t]` holds the locals of the `execute()` call of
tab `t`: its copy of the operation, the step it awaits, the checkpoints it read
at the start, the outputs it has, and whether the executor has acted. `created`,
`starts`, `effects` and `unfenced` are history.

Times are abstracted to the age of a record: fresh, past `abandonAfterMs`, past
`retentionMs`. Outputs are reduced to which steps' outputs are known. `cur` is
`currentStepIndex`. Step definitions, labels, correlation ids and messages are
left out.

Actions. `Start` is `execute()` up to its first await (or its end, when every
step is skipped), `Effect` is what the executor does outside, `Resolve` and
`Reject` are the code after the await: checkpoint, step, index and the loop up
to the next await. `Crash` ends a tab at an await, `CrashInResolve` after any of
the writes of `Resolve`: the checkpoint, the step's status, the index. `create`, `sweepAbandoned`, `pruneExpired` and
`abortOperation` carry the names of the code. `TimePasses` and `StorageChanges`
are the environment.

Assumption on partial failure: the writes of one handler to the same key are
refused by the storage together or not at all; the record and the checkpoint,
being two keys, may part, and a crash may come between any two writes.

### Idempotency

State. `record` is the stored record of the key; its `win` stands for
`expiresAt` (the n-th distinct one) and `stale` for the comparison with
`staleInProgressMs`; windows `1..expired` are over. `calls[c]` is one call:
idle, sharing an in-flight promise, waiting for the Web Lock, or awaiting the
operation. The n-th request has number n, which also stands for its result.
`winner[w]` is the request that a caller was told succeeded in window w. `env`
is fixed in a behaviour and says whether the browser has `navigator.locks` and
whether operations may outlive their record's freshness or window.

Actions. `executeIdempotent` runs up to the first await, in a browser without
locks through `runLogic`; `LockAnswers` is the lock callback, with or without
the lock; `Succeed`, `Fail` and `SucceedUnsaved` are the code after the
operation, the last one where `store.set` throws inside the `try` block;
`evictStale` is the worker; `GoStale` and `Expire` are the clock; `Crash` closes
a tab with its in-flight map and its lock.

Left out: a page without `localStorage` (its fallback store is private to the
page) and corrupt records. The attempt keys are in `Payouts`.

### SideEffects

A dispatch awaits its handler and sleeps between retries; `runs[d]` is the
promise of one of them. `letters[t]` is the array of dead letters tab `t` loaded
once and writes back whole, `stored` the array in `localStorage`, so tabs
overwrite each other's letters as the code does. `Succeed`, `Retry`, `GiveUp`
and `GiveUpUnrecorded` follow the `try` block and its `catch`, including a write
that throws inside it; `ReplayCached` and `ReplayUnrecorded` are replays that
find the record already succeeded, or cannot record the result.

The dispatcher has no lock and no heartbeat: a dispatch that retries for longer
than `DEFAULT_STALE_LOCK_MS` is taken over by another tab. The contract of the
key (`KeysKeepContract`, a refinement of `KeyContract` per key) is therefore
stated where dispatches are quicker than that and writes succeed;
`FailureIsShown` is stated everywhere.

### EventSync

Events are numbered in ledger order, and a cursor is the number of the last
event passed. `disk` is the stored cursor, `mem[s]` the copy of the worker of
subscription `s`; `subs[s]` is what that subscription does: asking for the
latest ledger or for a page, opening a stream, open, waiting to reconnect.
`EventsPage` stores ids and cursor and then delivers, as the code does;
`DiesInPage` cuts between the two. `CloseSubscription` leaves a catch-up that is
under way running, and `Subscribe` may start another beside it (`overlap`).

The environments are the reasons why the comment "never processed twice" cannot
be had in full: catch-ups that overlap, a Horizon behind the RPC (`lag`), an
older event than the ids remember (`small`), a `localStorage` that refuses
writes (`full`), a death between the two writes (`abrupt`). `NeverTwice`,
`NeverBackwards` and `NothingPassedOver` each name the ones that break them;
every one of these exceptions was found by TLC, not assumed beforehand.

The order of events is the chain's: transactions are numbered in it, and the
events of one transaction are in one ledger (`SyncEventsAssumption`). The stream
delivers whole transactions, so its place `at` is always between two of them.

### Payouts

From the click to the ledger of the server. `attempt` is the stored attempt of
an amount's scope, whose key is made in two steps because the digest is awaited
(`Begin`, `Mint`); `net` are requests under way, which may be served late, after
their caller has given up and sent another; `index` is `idempotencyIndex`. The
server's handler runs to its end in one turn (`ServeReplay`, `ServeNew`,
`ServeDown`, `ServeRefusal`). `OnePayoutPerIntent` is stated without expiry of
the attempt and without a second click for the amount before the first one is
done; `NeverPaysTwice` is stated for all of them.

### OfflineQueue

A flush works on the list it read when it started; `flush[f]` is what is left of
it. An answer (`Settles`, `Conflicts`, `ServerError`, `Abandons` for a lost
connection) does all that the code does to the stored queue, with the attempt
count of the flush's own copy, so overlapping flushes write stale counts back.
`SubmissionsAccounted` is stated while `localStorage` takes the writes. It lets
a submission go after `MaxSubmits` server errors, as the code (`pwa-utils.ts:448`)
and its test (`tests/pwa-utils.test.ts:342`) do, and as `docs/offline-queue.md:108`
says the queue does not; see "Met while modelling" below.

### ValueCache

`memory` is the map of `lib/cache-manager.ts`, `indexed` the store in IndexedDB
behind it, for one key. `requests` are the page's requests to the database in
their order: each call opens the database for itself, opens are served in order,
and the code after a request runs before the next one ends (`GetEnds`,
`DeleteEnds`, `PutEnds`, `ClearEnds`, `RequestFails`). The ages a call accepts
are its options, so any call may find any value fresh, stale or expired (`Found`).
`cache` says whether other pages use the database and whether requests may fail.

`NothingComesBack` is what holds after `clearCachedValues`, for example when a
user's answers are dropped: a write under way is cleared with the rest, but a
fetch that has not been answered stores its value afterwards, and a read that
was waiting for the database puts the old value back into memory. Both are
named in the property as its exceptions, with the value that the database
refused; TLC finds a violation without any one of the three.

### MaintainerApprovals

`receipt`, `offline` and `audit` are the service's maps for each intent;
`work[x]` is an execution, alone or as an item of a sync that goes through a
snapshot of the queue. `Settle` is the code after the executor, which writes the
receipt without reading it again. `observerThrows` makes a telemetry observer
throw inside the `try` block, where it turns an action that was carried out into
a failed receipt.

### ExportCancellation

`entry` is the registry's map, `op[x]` the record of an export together with the
worker that streams it: fetching a batch, sleeping before a retry, or ended.
`SignalAborts` and `StreamCancelled` are the two signals of a client that goes
away, in either order. `sameId` lets a client reuse an id: the cleanup timer of
the first operation then deletes the second's entry, which the properties
exclude by name.

`FetchFails` is a fetcher that throws: a retry, or a failed export.
`FetchGivesUp` is one that throws an error named AbortError although nobody has
aborted the export: `fetchWithRetry` takes it for an abort and returns no
records, the loop ends as after the last batch, and the handler reports the
export as completed. `cutShort` remembers these exports, and `CompletedIsWhole`
names them as its exception.

### DomainEvents

One subscriber: `delivery[e]` counts the attempts of `runWithRetry`, `entries`
is the queue in memory and `saved` its copy in `localStorage`. A replay takes
its entry out before the handler runs; `excused` remembers the events that a
removal, the cap or a reload took away, and `InOnePlace` says that there is no
other way to lose one, nor any way to double one.

### TelemetryTransport

`conn` is the reported state with the socket, its purpose (`mode`: signalling or
fallback), the data channel, the timers that are set and the reconnect counter.
An action is one callback; the reducer is folded into the actions that dispatch
to it. `OpenIsReal` is stated for sockets that do not open after their connect
timeout and for signalling that lasts as long as the channel.

### SessionSync

Publishes of one mounted hook. `pending` are the queued entries, `joined[c]` the
entry a coalesced call waits for, `toSend` what is left of the snapshot of the
flush in flight. `Kick` is the flush a publish schedules, which returns at once
while another is in flight; `UserFlush` is the one the hook exposes. `channel`
says whether the browser has a BroadcastChannel: without one `Send` resolves its
entry and posts nothing. `Deduped` is a publish that repeats one made within
`dedupeWindowMs`: it is resolved at once, whatever becomes of the one it repeats;
`deduped` remembers it. `AnswersAreTrue` names both: the first is answered for
nothing, and of the second it says that another call has an entry, and is told
what became of it.

### ConflictResolver

`value` and `commits` are the stored record and, as its version, the calls that
committed; `draft[e]` is the edit with the version and document it was made
from; `call[c]` is a call of `resolveEdit` at one of its four awaits. `Commit`
may lose its response, `StorageFails` is a request that never arrived. `store`
says whether the store implements `findAppliedVersion`, whether requests fail,
and whether access may be withdrawn.

`ThreeWayMerge` is the merge leaf by leaf, with the maximum as the
deterministic rule for leaves both sides changed; nested documents are their
leaves. `AtomicEdits` is the promise: an edit is merged at one instant into the
value of that instant, not twice in a store that remembers what it applied, and
not twice in a row in one that knows only its last writer.

### StakingEngine

`pool` and `position` are the engine's; `owed` and `earned` say, as history,
what a user is entitled to. `earned` is computed from the stakes while time
passes and never from the accumulator, so `RewardsAreShares` compares two
accounts of the same thing. Rewards are whole units because the emission per
second is divisible by every stake the pool may hold; the engine's rounding is
left out with its floating point. Callers pass the time, which may stand still;
an earlier one is refused before anything is changed.

### ProtocolGuard

`pauses`, `audit` and `receipts` are the stores of `emergency-pause.ts` and
`operation-receipts.ts`. A target stands for an operation in an environment,
which the code always compares together; a scope is a target with one wallet or
with anyone; a request is its fingerprint. `pause`, `DenyResume` and `Resume`
are the branches of `PauseManager`, `executeGuardedOperation` is the guard with
its receipt. The other preflight rules and the abuse score are pure functions of
a request that may refuse it, which changes nothing.

### Invitations

`invitations` in the order they were made, `window` the counts of
`rateLimitByInviter`, and the clock. `Looked` is what `getInvitation` does on the
way of every other call. `limits` are the two settings, the daily maximum and
the expiry, which `setMaxInvitesPerDay` and `setInviteExpiryHours` change at any
time: a window may then have more than the maximum, and an invitation keeps the
expiry it was made with. Invitees, roles and resources are left out: the code
checks them when an invitation is made and never compares them afterwards.
The windows are fixed and not sliding, so that an inviter may send more than the
allowance within 24 hours that lie across two of them.

### Backfill

`file` is the checkpoint file, `memory` the checkpoint of the run, `run` its
options and the await it is at. `Kill` ends the process before `apply` has an
effect, after it, or before a write; the file is replaced by a rename and is
whole. `unsure` counts changes that no checkpoint tells of.

`ResumesCorrectly` is what holds of the documentation's "a CTRL-C resumes
correctly". Four other sentences of `docs/operations/backfill-tool.md` do not
hold of the code, which is why no property states them: a dry run does move the
cursor and writes it (line 82, against `scripts/backfill.ts:161` and `:193`); a
record that failed lies behind the cursor, and `--resume` does not try it again
(line 77); `--limit` counts from the first record and not from the cursor
(line 52, against `records.slice(checkpoint.cursor, limit)`); and no record is
skipped for its number of attempts (line 83), because `maxAttempts` is parsed
(`scripts/backfill.ts:225`) and never read.

## Runs

| Run | Expect | Question | Size |
|---|---|---|---|
| `operations` | pass | do recovery, approvals, exports, domain events, the transport and tab sync report the truth, and do they come to an end? | 309,146 states |
| `recovery_faults` | pass | does anything ever claim a step nobody carried out, with slow executors and failing storage? | about 920,000 states |
| `recovery_abort` | violation | does an aborted operation stay failed? | stops at the counterexample |
| `recovery_outputs` | violation | is a step given all earlier outputs after a resume? | stops at the counterexample |
| `recovery_slow` | violation | does the status keep a second tab out of a slow run? | stops at the counterexample |
| `idempotency` | pass | does a key keep its contract and answer every call? | about 1,100,000 states |
| `idem_shared_payload` | violation | is a caller only given results of its own payload? | stops at the counterexample |
| `idem_expired_rerun` | violation | is an expired key refused? | stops at the counterexample |
| `network` | pass | is anything passed over, paid or run twice, forgotten after a failure, or back after it was cleared, over a network that loses, delays and repeats? | 1,294,514 states |
| `payouts_report` | violation | is success reported only for a payout that was accepted? | stops at the counterexample |
| `client` | pass | do edits take effect once and atomically, do the staking books add up, does an interrupted backfill resume, do pauses and decisions on invitations stand? | 2,130,479 states |
| `session_publish` | violation | is a publish made during a flush answered? | stops at the counterexample |

Bounds, and why they are enough:

- Recovery in `operations`: two tabs, three steps, of which the first and third
  have effects: a pure step between two effects is the least that tells the two
  rules for skipping apart. `MaxStarts = 4` is a first run, two resumes after
  different interruptions and one more by the other tab. `recovery_faults` uses
  two steps and two starts: a claim without an effect needs one run whose copy
  outlives another's.
- Approvals: two intents, two executions or syncs, one rollback each: an
  execution, a sync and a rollback of one receipt side by side, with another
  item in the queue. Exports: two, of one batch with one retry, over two ids;
  the first export takes `o1`, which loses nothing because ids are
  interchangeable. Domain events: two events, one retry, a queue of one entry
  and one replay, so that the cap drops an entry. Transport: two reconnects and
  one click, every link. Session: three publishes, the first and the last of the
  same payload, one retry, with and without a BroadcastChannel.
- Idempotency: three requests allow a failure, its retry and a request in a
  second window; three calls in two tabs allow a leader, one that shares its
  promise and one in another tab.
- Event sync: five events in three ledgers, three of them in one ledger and two
  in one transaction, one that cannot be decoded; two subscriptions, pages of
  two (a catch-up of several pages, cut off by `MaxPages`), two reconnects, and
  three remembered ids where they are too few.
- Payouts: two clicks, two keys, one network retry, one amount of 3 out of 4 or
  6 earned, so that a second payout is, or is not, covered.
- Side effects: three dispatches in two tabs, two keys of which one may be
  retried, dead-letter capacity 1 and 2; the budgets of handler calls go deep on
  one key (4) or wide over both.
- Offline queue: three submissions, two flushes, two attempts. Cached values: two
  calls, three values, three requests to the database at once: a value of an
  earlier visit, the one that replaces it, and one asked for after a clear.
- Conflict resolver: three edits and four calls, one edit being submitted twice;
  two attempts; one leaf with three values. With failing requests or withdrawn
  access two edits are drafted instead of three, which is still a rival, a retry
  and a double submission. The theorems have no such bounds.
- Staking: two users, amounts 1 and 2, a principal of at most 3, times 0 to 3,
  emission 6 per second. Backfill: three records of which two have one id,
  limits 1 and 3, three runs.
- Guard: two targets, two wallets, four audited calls, one receipt: two pauses
  of one target, one of everyone and one of a wallet, and the lifting of both.
  Invitations: an allowance of up to 2 in days of two ticks, three invitations
  within three ticks, expiry after one or two ticks, and both settings changed at
  any time: a full window, a window above a lowered maximum, the next window.
  The code compares nothing between inviters, so one is enough.

Symmetry is used in `recovery_faults` (tabs), `network` (two clicks, flushes or
dispatches of one tab) and `client` (the two calls of the repeated edit, the two
other edits with their calls), none of which checks liveness.

Checking for deadlock is off where the bounds stop a behaviour: a finished
operation, or a key with its last request sent, may have nothing left to do.

### What the properties say

Recovery: `SingleRunner`, `FencesHold` (`AtMostOncePerFence` and
`CompletedIsFenced`) and `ForwardOnly` (current step and steps go forward, and
completed operations stay so) state the header's guarantees as far as the
code can give them; in particular an effect may be repeated, once for every run
that was cut off after it and before its checkpoint, and never otherwise.
`CompletedMeansDone` needs no assumption on speed or storage. `OrphanIsReleased`:
an operation whose tab died becomes resumable.

Idempotency: `OneRequest`, `AnswersAgree` and `KeepsContract`, where calls are
kept apart, by locks (operations may then be as slow as they like) or, without
locks, by operations quicker than their record's staleness and window. Without
locks and with slow operations the stale record is taken over while its request
is under way; that environment is excluded from the run and from the theorems,
and listed as a hazard. `CallsAnswered`: leaders, sharers and callers without
the lock all settle.

The other components: `ReceiptsAreTrue`, `RollbackIsFinal`, `QueuedIsTried`
(approvals); `CompletedIsWhole`, `StoppedStaysStopped`, `CancelEnds` (exports);
`InOnePlace` (events); `OpenIsReal`, `ConnectionSettles` (transport);
`AnswersAreTrue` (session); `NothingPassedOver`, `NeverTwice`, `NeverBackwards`
(event sync); `NeverPaysTwice`, `OnePayoutPerIntent` (payouts);
`FailureIsShown`, `KeysKeepContract` (side effects); `SubmissionsAccounted`
(offline queue); `OrderIndependent`, `TruthfulAnswer`, `ExhaustionNeedsRivals`,
`EditsAreAtomic` (resolver); `RewardsAreShares`, `PrincipalIsOwed` (staking);
`ResumesCorrectly` (backfill); `GateFollowsAudit` (guard);
`DecisionStands` (invitations); `NothingComesBack` (cached values). Each is stated in words in its module.

### Fairness

Executors, requests and fetches settle, because callers pass promises with
timeouts or network errors: `Effect`, `Resolve or Reject`, `Succeed or Fail`,
`Settle` of an approval's executor and `ExportSteps` are weakly fair, as are the
answer of the lock manager, timers that are set, microtasks, a socket that has
failed and reports its close, and the passing of time. `sweepAbandoned` is
weakly fair because its comment asks callers to run it on page load or on a
timer (`operation-manager.ts:284`); no code outside the tests does so yet, so
`OrphanIsReleased` is what a caller who follows the comment gets. `Sync` is
weakly fair for `QueuedIsTried`, whose documentation speaks of syncs "once
connectivity is restored". Nothing is assumed about crashes, the storage, users,
peers that do not answer, or eviction.

## Findings

1. An operation aborted while it is executed does not stay failed: the run
   writes its own copy over the record (`recovery_abort`).
2. After a resume, steps miss the outputs of completed pure steps, which are
   skipped although the header says they always run again (`recovery_outputs`).
3. A sweep of a slow live run lets a second tab execute the operation beside it
   (`recovery_slow`).
4. A call with another payload under a key in flight is given the first call's
   result instead of the conflict error (`idem_shared_payload`).
5. The eviction worker makes an expired key unknown, so that it is sent again
   rather than refused (`idem_expired_rerun`).
6. A payout whose submission failed stays in the index of its key: the network
   retry with that key is answered as a replay with status 200, and the client
   reports the payout as queued (`payouts_report`).
7. A publish made while a flush is in flight is left in the queue when the flush
   ends, and its promise stays unsettled until some other publish comes
   (`session_publish`).

Met while modelling and recorded here and as exceptions of the properties, with
no run of their own: the four sentences about the backfill tool quoted above;
a submission is dropped after `OFFLINE_SUBMISSION_MAX_ATTEMPTS` server errors
(`pwa-utils.ts:448`), against `docs/offline-queue.md:108` ("eventually stop
retrying without dropping the entry"), while `tests/pwa-utils.test.ts:342` asserts
the drop; two drains may send one entry twice, against line 109, and there is no
exponential backoff, against line 55;
an AbortError that the fetcher throws of its own ends an export as completed with
batches missing (`streaming-export.ts:466`), against
`lib/export/OPERATIONAL_GUIDE.md:103` (retries, then `metadata.error`; the
fetchers of this commit are stubs that throw nothing);
a publish is resolved though nothing is sent for it where it repeats a recent one
(`useSessionTabSync.ts:158`), which may yet be rejected, and where there is no
BroadcastChannel (`tab-sync.ts:108`, `emit.ts:171`);
a flush of the offline queue that overlaps another sends past a conflict the
other one has met meanwhile, against `docs/offline-queue.md:7`;
`enterFallback` returns early for a transport that reports `websocket`, which it
may do while the socket is back in signalling, because a reconnect timer left
over from a signalling socket reopens it without reporting a state
(`telemetryTransport.ts:400` and `:636`); and the search effect of
`useSemanticSearch.ts` sets the status it depends on (line 173), so that its
cleanup clears the debounce timer it has just set (line 191) and the search it
announces does not start; invitations are limited by their manager only, because
the rule of `policy-engine.ts` reads the counter `invites:<actor>` (line 192)
and `recordRateLimitedAction` writes `invite_collaborator:<actor>` (line 356);
accepting a rejected invitation too late turns it into an expired one
(`invitations.ts:306`); and every repair or rollback of
`lib/reconciliation/engine.ts` ends in a ReferenceError before it changes
anything, because `requireRepairAuthorization` is declared inside another
function (line 170) than those that call it (lines 300, 669, 735, 761).

## Proofs

From the named assumptions of the modules only, for any set of tabs, calls,
edits and payloads and any bounds. Everything is proved of the specification of
one component; the lemmas `OperationsIsItsParts`, `NetworkIsItsParts` and
`ClientIsItsParts` say that a behaviour of the specification a run checks, with
several components side by side, is one of each of them, so that it holds there
too. `OperationsTypesAlways`, `NetworkTypesAlways` and `ClientTypesAlways` are
the types of those specifications.

- `RecoveryProofs`: `TypeCorrect`, and `CompletedIsDone`. The invariant is
  `SoundInv`: besides the stored slots, the copy of each live run claims only
  what was done, and a run at step i has had all steps before i carried out. It
  is needed because a run writes its copy back without reading the record again.
- `RecoveryQuickProofs`, under `~SlowSteps` and `~StorageFaults`:
  `OneRunnerAtATime`, `EffectsAreFenced` and `RecoveryMovesForward`. The
  invariant `QuickInv` says that a live run's copy is the stored record (but for
  an abort), that checkpoints the run did not read at its start belong to steps
  behind it, and that each effect not yet fenced is accounted for: it is in
  flight, it was cut off, or its record was pruned.
- `IdempotencyProofs`: `IdempotencyTypeCorrect`, and where calls are kept apart
  (`KeptApart`) `OneRequestAtATime`, `AnswersDoAgree` and `ContractKept`. The
  invariant `KeyInv` ties the record to the windows: a window that is open and
  has a winner has a succeeded record with that winner's value; pending and
  failed records have none; the running call is the latest request, in the
  latest window; without locks its fresh record keeps others out. Steps are
  sorted into quiet ones, requests and ends of requests, and each kind is shown
  to keep the invariant once.
- `ConflictResolverProofs`, for every store, with any number of clients, edits,
  leaves and attempts: `ArrivalOrderIsIrrelevant`, `AnswersAreTruthful`,
  `ExhaustionIsContention`, and `ResolverImplementsAtomicEdits`, the refinement
  of `AtomicEdits`. The invariant `ResolverInv` adds to the types that what a
  call has read is the record of the version it read while nobody has committed
  since (`ReadInv`: this is what makes a merge before the swap a merge at the
  swap), what each answer implies about the commits (`AnswerInv`), that every
  attempt spent has a commit made during the call (`RivalInv`), and that all
  drafts of the first version are drafts of the first document (`StartInv`).
  Only `Commit` and `MakeDraft` change the abstract state; `CommitKeeps` shows
  that a commit keeps `OrderIndependent`, and the other actions stutter.
  `MergesCommute` is the fact about the merge alone: two edits of one document
  may be merged into any third in either order.
- `ClientProofs`, one section for each component:
  - backfill: `BackfillResumesCorrectly`. `BackfillInv` says the same of the
    checkpoint in memory as of the file (`TellsTrue`, `Counts`), and that the one
    record of which the file may be behind is the one whose write is next
    (`Unwritten`). Without it the invariant is lost between apply and write.
  - guard: `GateAlwaysFollowsAudit`. `GuardInv`: at most one pause of a scope is
    active, and one is exactly if the last entry about the scope that is not a
    refusal is a pause; `EntryLogged` is what an appended entry does to that.
  - invitations: `InvitationsTyped` and `DecisionsAreFinal`. The types are
    inductive, with the settings among them, and `Follows` says what one call may make of one invitation; each
    call leaves one invitation as `Follows` says and the others alone.
- `StakingProofs`: `RewardsAreAlwaysShares` and `PrincipalIsAlwaysOwed`. `Balanced`
  says of one position what it owes and has earned, that no debt outlives the
  stake, and that a position that is gone left nothing; `StakingInv` adds that the
  pool holds the sum of the stakes, which is what makes the division by it exact,
  and that no more is owed than fits. Sums over users and over unlock times come
  first. `MapThenSumSet` is a recursive function over subsets, and the library's
  induction takes an operator; the lemmas are proved by a least counterexample
  instead: `SmallestSubset` gives, by the well-foundedness of strict inclusion
  below a finite set, a subset where a claim fails and none smaller.
- `OperationsProofs`, for any number of executions, exports, reconnects and
  publishes, one section for each component:
  - approvals: `ReceiptsTellTheTruth` and `RollbacksAreFinal`. `ApprovalInv` says
    that the receipt keeps executions apart: while it is executable nobody has
    the intent in hand, it was never started and not carried out; whoever has it
    in hand is the only one, has started it once, and it is not yet carried out,
    even if a rollback has overwritten the receipt meanwhile. `QueueInv` adds that
    no intent is queued twice, because none is queued without a receipt.
  - exports: `CompletedIsWholeAlways` and `StoppedExportsStayStopped`.
    `ExportInv` ties the registry to the records (`Registered`: an entry is a
    record in use with that id), says that without reuse no two records have one
    id, and what has become of a record (`Fate`): only the end of the worker
    completes it, with all its batches written or cut short by its fetcher, and
    one that was stopped is cancelled, or failed after its client had gone. An id is what keeps a late `complete` from another record.
  - transport: `OpenIsAlwaysReal`. `HoldsWhatItReports` is what the timers and
    handlers of an earlier attempt leave true: a channel needs the open socket of
    the signalling, only a fallback has a reconnect timer, and not together with
    the connect timer of a socket that is being opened. Without the last two the
    invariant is not inductive: a timer left over would replace an open socket.
  - session: `AnswersAreAlwaysTrue`. `Told` says of each publish that whoever
    waits for it waits for an entry still in the queue, that such an entry was
    not sent, and that a rejected one is no longer there to be sent by a later
    flush; `Remembered`, that a payload within the window has a publish with an
    entry of its own, which a repetition is resolved on. That an entry is queued once (`Apart`) makes removing it final; the
    lemmas on `RemoveFirst` state what removal leaves of a queue.
  - domain events: `EventsAreInOnePlace`. `Whereabouts` says of each event that
    while it is tried neither the queue nor its saved copy has it, and that while
    it is replayed the queue has not: only what is over can be queued. The saved
    copy is part of it because a reload makes it the queue, and after a write
    that failed it is an old one. `OneEach`: no queue has two entries of an
    event, which taking out one entry, and the cap, preserve.
- `NetworkProofs`: of payouts, `PayoutTypesAlways`, `NeverPaysTwiceEver` and
  `OnePayoutPerIntentEver`, over a network that loses, delays and repeats.
  `IndexOK`: every payout is the one its key's index entry names, so that a
  second request under the key is a replay; `OneAttempt`: the calls at work for
  an amount have the key of its attempt, and a request still under way has that
  key or one that is known to the server, which is why a late request cannot make
  a second payout after its attempt was finished.
  Of cached values, `CacheTypesAlways` and `NothingComesBackEver`. The invariant
  orders the requests to the database: a write is newer than the clears before
  it, a read that no change of the memory has overtaken has only reads after it
  (`OrderClean`), and the memory is newer than every clear still to come
  (`NoOldValues`) and will be what the database has (`MemoryAgrees`).
  Of the offline queue, `SubmissionsAlwaysAccounted`: a flush works on a copy it
  read before the answers came, and another flush may have counted more since.
  `CountsReal` says that no entry, in the queue or in any flush's copy, counts more
  attempts than there were server errors, so that an entry a stale count drops
  has had them.
  Of side effects, `FailuresAreAlwaysShown`, in every environment, and
  `KeysAlwaysKeepContract`, the refinement of `KeyContract` for each key where
  dispatches are quick and writes succeed. `KeyKept` says of a key that a
  dispatch under way is the only one, that the record then says in progress (not
  stale, not over, which keeps every other tab out), that no window is open, and
  that it can afford its retries. `OneLetterEach`, that no queue has two letters
  of a key, is what makes an open letter survive the replacing and the evicting
  of others. Each action is one of a few kinds of step (`StartStep`,
  `RecordStep`, `LetterStep`, `RunStep`, `ReloadStep`), and each kind is shown
  once to keep the invariant and to be a step of the contract or a stutter.

  Of event sync, `SyncTypesAlways`, `NothingIsEverPassedOver`,
  `NeverDeliveredTwice` and `ResumePointNeverGoesBack`. `SyncBase` says in every
  environment that no copy of the cursor is ahead of the ledger and that only the
  current subscription streams. `Alone`: without overlap one subscription is at
  work, its copy is not behind the stored one, and is the stored one while writes
  succeed. `NoneTwice`: whatever was delivered can be told from the stored ids
  (by its rpc id, or by the key of its transaction), and an open stream is past
  it. `NonePassedOver`: every copy, also of a subscription that has ended, is
  `Truthful`: all that it has passed, and all that it has ids of, was delivered.
  Without the second half the invariant is not inductive: a catch-up does not
  deliver what it has an id of. The `push` loop of `markProcessed` is a recursive
  function; what it leaves in the list (`AllPushedIn`) is proved by a least
  counterexample.

The assumptions say that bounds are numbers, that the sets the code chooses a
member of (`Ids`, `Amounts`, `Limits`) have one, and that `Users` is finite.

Every invariant and every action property the passing runs check is proved.
Only model-checked is what is out of the prover's reach, liveness under fairness:
`OrphanIsReleased`, `CallsAnswered`, `QueuedIsTried`, `CancelEnds` and
`ConnectionSettles`. Statements about filtered sequences (`SelectSeq`) are out of
reach as well, because the library defines it by an operator parameter and
recursion; no proof depends on what a filter keeps.

## Not modelled

The repository has about 107,000 lines in 560 files, most of them React pages
and components, route handlers that validate input and call a library, fixtures,
and modules that evaluate rules or format data. The models cover the parts where
an order of events decides. Left out, with the reasons:

- User interface, sandbox, notifications, governance, permissions and policies,
  reconciliation (its repairs throw, see above), change history, reports of
  partial failures: rules over given data, or rendering. One run of a function
  has one result, and a unit test reaches it.
- Wallets, transactions and the RPC node: thin wrappers of external services.
  What the client does with lost and late answers is in `Payouts` and
  `EventSync`.
- The service worker's caches: their strategies are behaviour of the browser's
  Cache API; the queue the worker wakes up is in `OfflineQueue`.
- `CacheManager` over the browser's caches: least-recently-used bookkeeping and
  statistics around the Cache API. The cached values of the same file are in
  `ValueCache`.
- Rate limits, quotas, impersonation: synchronous counters and status machines
  of one process, without awaits between a read and its write.
- Import pipeline: validation of rows, then one synchronous loop; its snapshot
  is used by tests only.
- Semantic search (`features/agent-discovery`): embedders and the index compute
  scores. Its hook is two effects whose order is React's; what is wrong with it
  is stated above and needs no interleaving.
- Migration runner and schema versioning: see the plan.
- Scripts other than the backfill tool: run once, by hand, without a checkpoint.

Within the modelled components, the notes in `PROJECT.json` say what is left
out: signatures and roles, schema versions, telemetry and logging, redaction and
formats, multipliers and APY figures, the command line.

## Plan

`MigrationRunner` (`lib/migration/runner.ts`), once something but tests calls it:
two overlapping runs read the pending list before they await `up()`, and a later
failure overwrites the record of a success; a run over one store from two
processes, previews on a fresh clone, "safe to call on every deploy" as the
property.
