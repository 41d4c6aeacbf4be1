---------------------------- MODULE SideEffects ----------------------------
(***************************************************************************)
(* SideEffectDispatcher of lib/side-effects/dispatcher.ts and its dead-      *)
(* letter queue (dead-letter.ts): dispatches from several tabs over the      *)
(* idempotency records in localStorage, without a lock, with retries inside  *)
(* a dispatch, and one array of dead letters that every tab loads once and   *)
(* writes back whole.                                                        *)
(*                                                                           *)
(* A dispatch yields while it awaits the handler and while it sleeps before  *)
(* a retry; an action covers the code between.  One payload per key.  A      *)
(* dispatch that is answered at once (a cached result, a refusal) or by      *)
(* sharing the in-flight promise changes nothing and is not an action.       *)
(***************************************************************************)
EXTENDS Integers, Sequences, SequencesExt, FiniteSets

CONSTANTS
    Keys,
    Dispatches,     \* dispatches that may be in flight at once
    TabOf,          \* [Dispatches -> tabs]
    MaxRetries,     \* [Keys -> policy.maxRetries of the operation's class]
    Capacities,     \* the values considered for MAX_DLQ_ENTRIES
    Nobody,         \* no tab
    Envs,           \* the environments considered: a subset of Env
    MaxSent         \* bound on the handler calls under a key

\* slow: a dispatch may take longer than DEFAULT_STALE_LOCK_MS or its ttl.
\* full: localStorage.setItem may throw.  cap: MAX_DLQ_ENTRIES.  budget: bounds
\* on the handler calls made under each key.
Env == [slow : BOOLEAN, full : BOOLEAN, cap : Capacities, budget : [Keys -> 0..MaxSent]]

ASSUME SideEffectEnvsAssumption == Envs \subseteq Env
ASSUME NobodyAssumption == \A d \in Dispatches : TabOf[d] # Nobody
ASSUME SideEffectBoundsAssumption ==
    /\ Keys # {}
    /\ MaxRetries \in [Keys -> Nat]
    /\ Capacities \subseteq Nat \ {0}
    /\ MaxSent \in Nat

VARIABLES
    env,        \* fixed for a behaviour
    record,     \* [Keys -> the stored IdempotencyRecord]
    runs,       \* [Dispatches -> the promise it made]
    inFlight,   \* inFlightPromises: the <<tab, key>> pairs that have one
    letters,    \* [Tabs -> entries of the tab's LocalStorageSideEffectDLQStore]
    stored,     \* the array in localStorage
    (* history *)
    sent,       \* [Keys -> handler calls made]
    winner,     \* [Keys -> [window -> the handler call recorded as its success]]
    gen,        \* [Keys -> success windows opened]
    holder      \* [Keys -> the tab whose memory should hold the open letter]

effectsVars == <<env, record, runs, inFlight, letters, stored, sent, winner, gen, holder>>

Tabs == {TabOf[d] : d \in Dispatches}
Window == 0..MaxSent

\* stale: DEFAULT_STALE_LOCK_MS since updatedAt.  over: expiresAt has passed.
Record == [status : {"none", "in_progress", "succeeded", "failed"},
           stale : BOOLEAN, over : BOOLEAN]
Written(status) == [status |-> status, stale |-> FALSE, over |-> FALSE]
NoRecord == Written("none")

\* attempt: the handler calls of this dispatch so far.
Run == [pc : {"idle", "running", "sleeping"}, key : Keys, attempt : Nat]
NoRun == [pc |-> "idle", key |-> CHOOSE k \in Keys : TRUE, attempt |-> 0]

\* An entry's id is named by its key: save never keeps two entries of one key.
Letter == [key : Keys, resolved : BOOLEAN]

EffectsTypeOK ==
    /\ env \in Envs
    /\ record \in [Keys -> Record]
    /\ runs \in [Dispatches -> Run]
    /\ \A d \in Dispatches : runs[d].attempt <= MaxRetries[runs[d].key] + 1
    /\ inFlight \subseteq Tabs \X Keys
    /\ letters \in [Tabs -> Seq(Letter)]
    /\ stored \in Seq(Letter)
    /\ sent \in [Keys -> Nat]
    /\ winner \in [Keys -> [Window -> Nat]]
    /\ gen \in [Keys -> Nat]
    /\ holder \in [Keys -> Tabs \cup {Nobody}]

EffectsInit ==
    /\ env \in Envs
    /\ record = [k \in Keys |-> NoRecord]
    /\ runs = [d \in Dispatches |-> NoRun]
    /\ inFlight = {}
    /\ letters = [t \in Tabs |-> <<>>]
    /\ stored = <<>>
    /\ sent = [k \in Keys |-> 0]
    /\ winner = [k \in Keys |-> [w \in Window |-> 0]]
    /\ gen = [k \in Keys |-> 0]
    /\ holder = [k \in Keys |-> Nobody]

------------------------------------------------------------------------------
(* The dead-letter queue.                                                    *)

IsOpen(seq, k) == \E i \in DOMAIN seq : seq[i].key = k /\ ~seq[i].resolved
Holds(seq, k) == \E i \in DOMAIN seq : seq[i].key = k

\* Evict resolved first, then oldest.
ResolvedIdx(seq) == SelectInSeq(seq, LAMBDA e : e.resolved)
Trimmed(seq) ==
    IF Len(seq) <= env.cap THEN seq
    ELSE IF ResolvedIdx(seq) > 0 THEN RemoveAt(seq, ResolvedIdx(seq)) ELSE Tail(seq)

\* MemorySideEffectDLQStore.save: an entry with the same key is replaced.
Saved(seq, e) ==
    IF Holds(seq, e.key)
    THEN [i \in DOMAIN seq |-> IF seq[i].key = e.key THEN e ELSE seq[i]]
    ELSE Trimmed(Append(seq, e))

\* The tab's array becomes seq and is persisted; a failing write is swallowed.
Keeps(t, seq) ==
    /\ letters' = [letters EXCEPT ![t] = seq]
    /\ \/ stored' = seq
       \/ env.full /\ stored' = stored

\* Letters that are discarded, cleared or evicted are not missed any more.
Excused(lost) == [k \in Keys |-> IF k \in lost THEN Nobody ELSE holder[k]]

\* remove: the filter drops the one entry of the key.
Dropped(seq, k) == RemoveFirstMatch(seq, LAMBDA e : e.key = k)

Discard(t, k) ==
    /\ Holds(letters[t], k)
    /\ Keeps(t, Dropped(letters[t], k))
    /\ holder' = Excused({k})
    /\ UNCHANGED <<env, record, runs, inFlight, sent, winner, gen>>

Clear(t) ==
    /\ Keeps(t, <<>>)
    /\ holder' = Excused(Keys)
    /\ UNCHANGED <<env, record, runs, inFlight, sent, winner, gen>>

------------------------------------------------------------------------------
(* dispatch                                                                  *)

OnKey(d, k) == runs[d].pc # "idle" /\ runs[d].key = k
Live(k) == \E d \in Dispatches : OnKey(d, k)

MayRunWhenFresh(t, k) ==    \* mutant: the freshness of the lock not checked
    /\ record[k].status # "none" => ~record[k].over
    /\ record[k].status # "succeeded"
    /\ record[k].status = "in_progress" => <<t, k>> \notin inFlight

\* dispatch neither answers from the record nor refuses nor shares.
MayRun(t, k) ==
    /\ record[k].status # "none" => ~record[k].over
    /\ record[k].status # "succeeded"
    /\ record[k].status = "in_progress" =>
            <<t, k>> \notin inFlight /\ record[k].stale

\* Every run under the key, one more too, can use up its attempts within the budget.
Affordable(k) ==
    sent[k] + Cardinality({d \in Dispatches : OnKey(d, k)}) * MaxRetries[k]
        + MaxRetries[k] + 1 <= env.budget[k]

\* Mark in progress, call the handler, remember the promise.
Start(d, k) ==
    /\ runs[d].pc = "idle"
    /\ Affordable(k)
    /\ record' = [record EXCEPT ![k] = Written("in_progress")]
    /\ runs' = [runs EXCEPT ![d] = [pc |-> "running", key |-> k, attempt |-> 1]]
    /\ inFlight' = inFlight \cup {<<TabOf[d], k>>}
    /\ sent' = [sent EXCEPT ![k] = @ + 1]

Dispatch(d, k) ==
    /\ MayRun(TabOf[d], k)
    /\ Start(d, k)
    /\ UNCHANGED <<env, letters, stored, winner, gen, holder>>

\* An operation class without a policy ('api_write', the default of dispatch and
\* of the letters it writes): the pending record is written, then resolvePolicy
\* throws and the promise is rejected.
RefusePolicy(t, k) ==
    /\ \/ MayRun(t, k)
       \/ Holds(letters[t], k) /\ record[k].status = "failed"   \* as a replay
    /\ record' = [record EXCEPT ![k] = Written("in_progress")]
    /\ inFlight' = inFlight \ {<<t, k>>}
    /\ UNCHANGED <<env, runs, letters, stored, sent, winner, gen, holder>>

\* The promise of d settles; finally deletes whatever promise the key has.
Settled(d) ==
    /\ runs' = [runs EXCEPT ![d] = NoRun]
    /\ inFlight' = inFlight \ {<<TabOf[d], runs[d].key>>}

\* resolve(id, 'replayed'): the entry is saved again, resolved before or not.
Resolve(t, k) ==
    /\ Holds(letters[t], k)
    /\ Keeps(t, Saved(letters[t], [key |-> k, resolved |-> TRUE]))
    /\ holder' = Excused({k})

\* A success resolves the tab's open letter; a replay also one resolved before.
ResolveLetter(t, k) ==
    \/ Resolve(t, k)
    \/ ~IsOpen(letters[t], k) /\ UNCHANGED <<letters, stored, holder>>

Succeed(d) ==
    LET k == runs[d].key
    IN /\ runs[d].pc = "running"
       /\ Settled(d)
       /\ record' = [record EXCEPT ![k] = Written("succeeded")]
       /\ ResolveLetter(TabOf[d], k)
       /\ gen' = [gen EXCEPT ![k] = @ + 1]
       /\ winner' = [winner EXCEPT ![k][gen[k] + 1] = sent[k]]
       /\ UNCHANGED <<env, sent>>

HasBudgetAndOne(d) == runs[d].attempt <= MaxRetries[runs[d].key] + 1    \* mutant
HasBudget(d) == runs[d].attempt <= MaxRetries[runs[d].key]

\* The handler rejects, or its success cannot be stored; the error is worth a
\* retry and the budget allows one.
Retry(d) ==
    /\ runs[d].pc = "running"
    /\ HasBudget(d)
    /\ runs' = [runs EXCEPT ![d].pc = "sleeping"]
    /\ UNCHANGED <<env, record, inFlight, letters, stored, sent, winner, gen, holder>>

Wake(d) ==
    LET k == runs[d].key
    IN /\ runs[d].pc = "sleeping"
       /\ runs' = [runs EXCEPT ![d].pc = "running", ![d].attempt = @ + 1]
       /\ sent' = [sent EXCEPT ![k] = @ + 1]
       /\ UNCHANGED <<env, record, inFlight, letters, stored, winner, gen, holder>>

GiveUpUnlettered(d) ==      \* mutant: the failure is recorded, not dead-lettered
    LET k == runs[d].key
    IN /\ runs[d].pc = "running"
       /\ Settled(d)
       /\ record' = [record EXCEPT ![k] = Written("failed")]
       /\ holder' = [holder EXCEPT ![k] = TabOf[d]]
       /\ UNCHANGED <<env, letters, stored, sent, winner, gen>>

\* Terminal failure: a permanent error, or no budget left.
GiveUp(d) ==
    LET k == runs[d].key
        t == TabOf[d]
        queue == Saved(letters[t], [key |-> k, resolved |-> FALSE])
    IN /\ runs[d].pc = "running"
       /\ Settled(d)
       /\ record' = [record EXCEPT ![k] = Written("failed")]
       /\ Keeps(t, queue)
       /\ holder' = [Excused({j \in Keys : Holds(letters[t], j) /\ ~Holds(queue, j)})
                        EXCEPT ![k] = t]
       /\ UNCHANGED <<env, sent, winner, gen>>

\* The same with a store.set that throws: the promise is rejected.
GiveUpUnrecorded(d) ==
    /\ env.full
    /\ runs[d].pc = "running"
    /\ Settled(d)
    /\ UNCHANGED <<env, record, letters, stored, sent, winner, gen, holder>>

------------------------------------------------------------------------------
(* replayDeadLetter                                                          *)

\* The record once the failure status has been reset.
Reset(t, k) == IF record[k].status = "failed" THEN NoRecord ELSE record[k]

Replay(d, k) ==
    LET t == TabOf[d]
        reset == Reset(t, k)
    IN /\ Holds(letters[t], k)
       /\ \/ reset.status = "none"
          \/ reset = record[k] /\ MayRun(t, k)
       /\ Start(d, k)
       /\ UNCHANGED <<env, letters, stored, winner, gen, holder>>

\* dispatch answers the replay with the stored result.
ReplayCached(t, k) ==
    /\ Reset(t, k).status = "succeeded" /\ ~record[k].over
    /\ Resolve(t, k)
    /\ UNCHANGED <<env, record, runs, inFlight, sent, winner, gen>>

\* The failure is reset, and then the pending record cannot be written.
ReplayUnrecorded(t, k) ==
    /\ env.full
    /\ Holds(letters[t], k)
    /\ record[k].status = "failed"
    /\ record' = [record EXCEPT ![k] = NoRecord]
    /\ UNCHANGED <<env, runs, inFlight, letters, stored, sent, winner, gen, holder>>

------------------------------------------------------------------------------
(* Time, the eviction worker, reloads                                        *)

Pass(k) == env.slow \/ ~Live(k)

GoStale(k) ==
    /\ record[k].status = "in_progress" /\ ~record[k].stale
    /\ Pass(k)
    /\ record' = [record EXCEPT ![k].stale = TRUE]
    /\ UNCHANGED <<env, runs, inFlight, letters, stored, sent, winner, gen, holder>>

Expire(k) ==
    /\ record[k].status # "none" /\ ~record[k].over
    /\ Pass(k)
    /\ record' = [record EXCEPT ![k].over = TRUE]
    /\ UNCHANGED <<env, runs, inFlight, letters, stored, sent, winner, gen, holder>>

Evict(k) ==
    /\ record[k].over
    /\ record' = [record EXCEPT ![k] = NoRecord]
    /\ UNCHANGED <<env, runs, inFlight, letters, stored, sent, winner, gen, holder>>

\* Tab t goes away and is opened again: the queue is loaded from localStorage.
Reload(t) ==
    /\ runs' = [d \in Dispatches |-> IF TabOf[d] = t THEN NoRun ELSE runs[d]]
    /\ inFlight' = {p \in inFlight : p[1] # t}
    /\ letters' = [letters EXCEPT ![t] = stored]
    /\ holder' = Excused({k \in Keys : holder[k] = t})
    /\ UNCHANGED <<env, record, stored, sent, winner, gen>>

EffectsNext ==
    \/ \E d \in Dispatches :
        \/ \E k \in Keys : Dispatch(d, k) \/ Replay(d, k)
        \/ Succeed(d) \/ Retry(d) \/ Wake(d) \/ GiveUp(d) \/ GiveUpUnrecorded(d)
    \/ \E t \in Tabs :
        \/ \E k \in Keys : RefusePolicy(t, k) \/ Discard(t, k) \/ ReplayCached(t, k) \/ ReplayUnrecorded(t, k)
        \/ Clear(t) \/ Reload(t)
    \/ \E k \in Keys : GoStale(k) \/ Expire(k) \/ Evict(k)

EffectsSpec == EffectsInit /\ [][EffectsNext]_effectsVars

------------------------------------------------------------------------------
(* Properties                                                                *)

\* A terminal failure is never silent: while its record says failed, the tab that
\* captured it still shows an open letter, unless somebody discarded it, the
\* queue was full, or the tab was reloaded.
FailureIsShown ==
    \A k \in Keys : record[k].status = "failed" /\ holder[k] # Nobody
                        => IsOpen(letters[holder[k]], k)

\* With dispatches quicker than the stale lock and writes that succeed, the
\* handler calls under a key keep the contract of an idempotency key, retries
\* and replays from every tab included: one at a time, and none while an
\* earlier success is remembered.
Kind == ~env.slow /\ ~env.full
Contract(k) == INSTANCE KeyContract WITH
    busy <- Kind /\ \E d \in Dispatches : runs[d].pc = "running" /\ runs[d].key = k,
    sent <- IF Kind THEN sent[k] ELSE 0,
    winner <- IF Kind THEN winner[k] ELSE [w \in Window |-> 0],
    expired <- IF ~Kind THEN 0
               ELSE IF record[k].status = "succeeded" /\ ~record[k].over
                    THEN gen[k] - 1 ELSE gen[k]
KeysKeepContract ==
    /\ \A k \in Keys : Contract(k)!Init
    /\ [][\A k \in Keys : Contract(k)!Next \/ UNCHANGED Contract(k)!contractVars]_effectsVars
==============================================================================
