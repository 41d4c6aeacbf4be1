------------------------------ MODULE Payouts ------------------------------
(***************************************************************************)
(* A payout from the click to the affiliate store of the server:             *)
(* requestPayout of useAffiliateStore.ts, the attempt that keeps one         *)
(* idempotency key over retries and reloads (lib/idempotency.ts),            *)
(* postIdempotent with its network retries (lib/api.ts, lib/retry), and      *)
(* requestPayout of lib/affiliate-store.ts.  One wallet; the browser's       *)
(* records of a key behave as KeyContract says.                              *)
(*                                                                           *)
(* The network may lose a request or its answer, and may serve a request     *)
(* after its caller has given up.  The server runs a request at once.        *)
(***************************************************************************)
EXTENDS Integers, Sequences, SequencesExt, FiniteSets

CONSTANTS
    Clicks,         \* calls of the store's requestPayout that may overlap
    Amounts,        \* amounts that may be asked for
    MaxKeys,        \* bound on the attempts made
    HttpRetries,     \* policy.maxRetries of http_request
    Webs            \* the environments considered: a subset of Web

\* double: the same amount may be asked for while an earlier call is not done.
\* expires: DEFAULT_ATTEMPT_TTL_MS may pass.  down: submitPayoutToNetwork may fail.
\* earned: what the wallet has earned.
Web == [double : BOOLEAN, expires : BOOLEAN, down : BOOLEAN, earned : Nat]

ASSUME PayoutBoundsAssumption ==
    /\ Amounts \subseteq Nat /\ Amounts # {}
    /\ MaxKeys \in Nat /\ HttpRetries \in Nat
    /\ Webs \subseteq Web

VARIABLES
    web,        \* fixed for a behaviour
    click,      \* [Clicks -> what the call is doing]
    attempt,    \* [Amounts -> the stored attempt of the scope]
    minted,     \* keys made so far
    outcome,    \* [AttemptKeys -> what the browser remembers of the key]
    net,        \* requests that are under way
    payouts,    \* the server's payouts
    index,      \* [AttemptKeys -> idempotencyIndex: the payout of the key, or 0]
    (* history *)
    told,       \* payouts a call was told were queued
    fresh       \* [Amounts -> payouts accepted since one of the amount was reported]

payoutVars == <<web, click, attempt, minted, outcome, net, payouts, index, told, fresh>>

AttemptKeys == 1..MaxKeys

Click == [pc : {"idle", "minting", "posting", "waiting", "backoff"},
          amount : Amounts, key : 0..MaxKeys, tries : 0..(HttpRetries + 1)]
Becoming(pc, a, key, tries) == [pc |-> pc, amount |-> a, key |-> key, tries |-> tries]
NoClick == Becoming("idle", CHOOSE a \in Amounts : TRUE, 0, 0)

Request == [by : Clicks, amount : Amounts, key : AttemptKeys, try : 1..(HttpRetries + 1)]
Payout == [amount : Amounts, key : AttemptKeys, accepted : BOOLEAN,
           status : {"pending", "processing", "completed", "failed"}]

PayoutTypeOK ==
    /\ web \in Webs
    /\ click \in [Clicks -> Click]
    /\ attempt \in [Amounts -> [key : 0..MaxKeys, over : BOOLEAN]]
    /\ minted \in 0..MaxKeys
    /\ outcome \in [AttemptKeys -> {"none", "busy", "ok"}]
    /\ net \subseteq Request
    /\ payouts \in Seq(Payout)
    /\ index \in [AttemptKeys -> 0..Len(payouts)]
    /\ told \subseteq DOMAIN payouts
    /\ fresh \in [Amounts -> SUBSET DOMAIN payouts]

NoAttempt == [key |-> 0, over |-> FALSE]

PayoutInit ==
    /\ web \in Webs
    /\ click = [c \in Clicks |-> NoClick]
    /\ attempt = [a \in Amounts |-> NoAttempt]
    /\ minted = 0
    /\ outcome = [k \in AttemptKeys |-> "none"]
    /\ net = {}
    /\ payouts = <<>>
    /\ index = [k \in AttemptKeys |-> 0]
    /\ told = {}
    /\ fresh = [a \in Amounts |-> {}]

------------------------------------------------------------------------------
(* The browser: beginIdempotentAttempt, postIdempotent, finish               *)

UNCHANGED_Server == UNCHANGED <<web, payouts, index>>

FreshKey(a) == 0     \* mutant: a key for every click
\* The key of the attempt that is open for the scope.
OpenKey(a) == IF attempt[a].over THEN 0 ELSE attempt[a].key

\* beginIdempotentAttempt reads the attempt; a new key is made after an await.
Begin(c, a) ==
    /\ click[c].pc = "idle"
    /\ web.double \/ \A d \in Clicks : click[d].pc # "idle" => click[d].amount # a
    /\ click' = [click EXCEPT ![c] =
            Becoming(IF OpenKey(a) = 0 THEN "minting" ELSE "posting", a, OpenKey(a), 0)]
    /\ UNCHANGED <<attempt, minted, outcome, net, told, fresh>> /\ UNCHANGED_Server

\* The digest is there: the new attempt is stored over whatever is stored now.
Mint(c) ==
    /\ click[c].pc = "minting"
    /\ minted < MaxKeys
    /\ minted' = minted + 1
    /\ attempt' = [attempt EXCEPT ![click[c].amount] = [key |-> minted + 1, over |-> FALSE]]
    /\ click' = [click EXCEPT ![c] = Becoming("posting", click[c].amount, minted + 1, 0)]
    /\ UNCHANGED <<outcome, net, told, fresh>> /\ UNCHANGED_Server

AttemptExpires(a) ==
    /\ web.expires
    /\ attempt[a].key # 0 /\ ~attempt[a].over
    /\ attempt' = [attempt EXCEPT ![a].over = TRUE]
    /\ UNCHANGED <<click, minted, outcome, net, told, fresh>> /\ UNCHANGED_Server

RequestOf(c, try) ==
    [by |-> c, amount |-> click[c].amount, key |-> click[c].key, try |-> try]

\* A request is sent; the first time the key becomes busy.
Send(c) ==
    /\ \/ click[c].pc = "posting" /\ outcome[click[c].key] = "none"
       \/ click[c].pc = "backoff"
    /\ outcome' = [outcome EXCEPT ![click[c].key] = "busy"]
    /\ click' = [click EXCEPT ![c] =
            Becoming("waiting", click[c].amount, click[c].key, click[c].tries + 1)]
    /\ net' = net \cup {RequestOf(c, click[c].tries + 1)}
    /\ UNCHANGED <<attempt, minted, told, fresh>> /\ UNCHANGED_Server

\* The call is told that payout p is queued: finishIdempotentAttempt removes the
\* attempt of the scope, whichever key it holds.
ReportsQueued(c, p) ==
    /\ click' = [click EXCEPT ![c] = NoClick]
    /\ attempt' = [attempt EXCEPT ![click[c].amount] = NoAttempt]
    /\ told' = told \cup {p}

\* The stored outcome of the key is replayed.
AnswerFromRecord(c) ==
    /\ click[c].pc = "posting"
    /\ outcome[click[c].key] = "ok"
    /\ ReportsQueued(c, index[click[c].key])
    /\ fresh' = [fresh EXCEPT ![click[c].amount] = {}]
    /\ UNCHANGED <<minted, outcome, net>> /\ UNCHANGED_Server

\* The call ends with an error; the record of the key is failed, which lets the
\* next call under the key send it again.  The attempt stays open.
EndsFailed(c) ==
    /\ click' = [click EXCEPT ![c] = NoClick]
    /\ outcome' = [outcome EXCEPT ![click[c].key] = "none"]

\* A failure worth a retry (no answer, 5xx) while the budget lasts.
RetriesOrFails(c) ==
    IF click[c].tries <= HttpRetries
    THEN /\ click' = [click EXCEPT ![c].pc = "backoff"]
         /\ UNCHANGED outcome
    ELSE EndsFailed(c)

NoAnswer(c) ==
    /\ click[c].pc = "waiting"
    /\ RetriesOrFails(c)
    /\ UNCHANGED <<attempt, minted, net, told, fresh>> /\ UNCHANGED_Server

\* The page is reloaded; the attempt and the requests on the wire stay.
ReloadTab(c) ==
    /\ click[c].pc # "idle"
    /\ click' = [click EXCEPT ![c] = NoClick]
    /\ outcome' = IF click[c].key # 0 /\ click[c].pc \in {"waiting", "backoff"}
                  THEN [outcome EXCEPT ![click[c].key] = "none"] ELSE outcome
    /\ UNCHANGED <<attempt, minted, net, told, fresh>> /\ UNCHANGED_Server

------------------------------------------------------------------------------
(* The server: requestPayout of lib/affiliate-store.ts                       *)

Sum(ps) == FoldLeft(LAMBDA total, p : total + p.amount, 0, ps)
Reserved == Sum(SelectSeq(payouts, LAMBDA p : p.status # "failed"))
InFlight(a) ==
    \E p \in DOMAIN payouts : payouts[p].amount = a /\ payouts[p].status \in {"pending", "processing"}

IndexedIfAccepted(k) ==     \* mutant: a key is known once its payout was not refused
    index[k] # 0 /\ payouts[index[k]].status # "failed"
\* The key has produced a payout before.
Known(k) == index[k] # 0

Admitted(a) == ~InFlight(a) /\ a <= web.earned - Reserved

\* The answer for r reaches its caller, if that still waits for it.
Awaited(r) == click[r.by].pc = "waiting" /\ RequestOf(r.by, click[r.by].tries) = r
Lost == UNCHANGED <<click, attempt, outcome, told>>

\* A 2xx answer with payout p.
AnswersOk(r, p, before) ==
    \/ /\ Awaited(r)
       /\ ReportsQueued(r.by, p)
       /\ outcome' = [outcome EXCEPT ![r.key] = "ok"]
       /\ fresh' = [before EXCEPT ![r.amount] = {}]
    \/ Lost /\ fresh' = before

\* The key is known: its payout is returned whatever became of it.
ServeReplay(r) ==
    /\ r \in net /\ net' = net \ {r}
    /\ Known(r.key)
    /\ AnswersOk(r, index[r.key], fresh)
    /\ UNCHANGED <<minted, web, payouts, index>>

ServeNew(r) ==
    LET p == Len(payouts) + 1
    IN /\ r \in net /\ net' = net \ {r}
       /\ ~Known(r.key) /\ Admitted(r.amount)
       /\ payouts' = Append(payouts, [amount |-> r.amount, key |-> r.key, accepted |-> TRUE,
                                      status |-> "pending"])
       /\ index' = [index EXCEPT ![r.key] = p]
       /\ AnswersOk(r, p, [fresh EXCEPT ![r.amount] = fresh[r.amount] \cup {p}])
       /\ UNCHANGED <<minted, web>>

\* submitPayoutToNetwork returns false: the payout stays, failed, and so does the
\* entry of its key; the answer is a 502.
ServeDown(r) ==
    /\ web.down
    /\ r \in net /\ net' = net \ {r}
    /\ ~Known(r.key) /\ Admitted(r.amount)
    /\ payouts' = Append(payouts, [amount |-> r.amount, key |-> r.key, accepted |-> FALSE,
                                   status |-> "failed"])
    /\ index' = [index EXCEPT ![r.key] = Len(payouts) + 1]
    /\ \/ Awaited(r) /\ RetriesOrFails(r.by) /\ UNCHANGED <<attempt, told>>
       \/ Lost
    /\ UNCHANGED <<minted, web, fresh>>

\* A refusal: in flight, not enough earned, or (a 4xx of the route) at any time.
ServeRefusal(r) ==
    /\ r \in net /\ net' = net \ {r}
    /\ \/ Awaited(r) /\ EndsFailed(r.by) /\ UNCHANGED <<attempt, told>>
       \/ Lost
    /\ UNCHANGED <<minted, web, payouts, index, fresh>>

\* The settler, which is not part of the repository.
Advance(p) ==
    /\ \/ payouts[p].status = "pending" /\ payouts' = [payouts EXCEPT ![p].status = "processing"]
       \/ /\ payouts[p].status = "processing"
          /\ \E s \in {"completed", "failed"} : payouts' = [payouts EXCEPT ![p].status = s]
    /\ UNCHANGED <<web, click, attempt, minted, outcome, net, index, told, fresh>>

PayoutNext ==
    \/ \E c \in Clicks :
        \/ \E a \in Amounts : Begin(c, a)
        \/ Mint(c) \/ Send(c) \/ AnswerFromRecord(c) \/ NoAnswer(c) \/ ReloadTab(c)
    \/ \E a \in Amounts : AttemptExpires(a)
    \/ \E r \in net : ServeReplay(r) \/ ServeNew(r) \/ ServeDown(r) \/ ServeRefusal(r)
    \/ \E p \in DOMAIN payouts : Advance(p)

PayoutSpec == PayoutInit /\ [][PayoutNext]_payoutVars

------------------------------------------------------------------------------
(* Properties                                                                *)

\* "a retry (same Idempotency-Key, or a duplicate in-flight request) can never
\* pay twice" (payouts/route.ts:55): at most one payout was ever made under a key,
\* late, lost and repeated requests included, and never are two of the same
\* amount on their way.
NeverPaysTwice ==
    \A p, q \in DOMAIN payouts : p # q =>
        /\ payouts[p].key # payouts[q].key
        /\ \/ payouts[p].amount # payouts[q].amount
           \/ \E o \in {p, q} : payouts[o].status \notin {"pending", "processing"}

\* From one report of a queued payout to the next, at most one payout of the
\* amount is accepted, over errors, reloads and clicks in between, if the
\* attempt does not expire and calls for the amount do not overlap.
OnePayoutPerIntent ==
    ~web.expires /\ ~web.double => \A a \in Amounts : Cardinality(fresh[a]) <= 1

\* "success is never reported without the backend submission path accepting it"
\* (affiliate-store.ts:386).
SuccessMeansAccepted == \A p \in told : payouts[p].accepted
==============================================================================
