----------------------------- MODULE MCNetwork -----------------------------
(***************************************************************************)
(* Instances for TLC of the components that talk to servers over a network   *)
(* that fails: EventSync, Payouts, SideEffects, OfflineQueue and ValueCache.  *)
(* They share nothing, so a behaviour is one of a single part: the state     *)
(* spaces add up and do not multiply.                                        *)
(***************************************************************************)
EXTENDS EventSync, Payouts, SideEffects, OfflineQueue, ValueCache

VARIABLE part

\* a1 and a2 stand for two clicks, two flushes, and two dispatches of one tab.
CONSTANTS a1, a2, a3, k1, k2

\* Three events in the second ledger, two of them of one transaction.
MCLedgerOf == <<1, 2, 2, 2, 3>>
MCTxOf == <<1, 2, 2, 3, 4>>

CalmSync == [resumed |-> FALSE, rpcFails |-> FALSE, bare |-> FALSE, lag |-> FALSE,
             full |-> FALSE, abrupt |-> FALSE, overlap |-> FALSE, small |-> FALSE]
MCSettings ==
    {CalmSync, [CalmSync EXCEPT !.resumed = TRUE, !.rpcFails = TRUE, !.bare = TRUE],
     [CalmSync EXCEPT !.bare = TRUE, !.rpcFails = TRUE],
     [CalmSync EXCEPT !.lag = TRUE], [CalmSync EXCEPT !.full = TRUE],
     [CalmSync EXCEPT !.abrupt = TRUE], [CalmSync EXCEPT !.overlap = TRUE],
     [CalmSync EXCEPT !.small = TRUE]}

CalmWeb == [double |-> FALSE, expires |-> FALSE, down |-> FALSE, earned |-> 6]
MCWebs ==
    {CalmWeb, [CalmWeb EXCEPT !.earned = 4], [CalmWeb EXCEPT !.double = TRUE],
     [CalmWeb EXCEPT !.expires = TRUE], [CalmWeb EXCEPT !.down = TRUE, !.earned = 4]}

\* Two dispatches in one tab and one in another; k1 may be retried, k2 may not.
MCTabOf == (a1 :> 1) @@ (a2 :> 1) @@ (a3 :> 2)
MCMaxRetries == (k1 :> 1) @@ (k2 :> 0)
Deep == (k1 :> 4) @@ (k2 :> 0)      \* two dispatches of a key with their retries
Wide == (k1 :> 2) @@ (k2 :> 1)      \* both keys
CalmEnv == [slow |-> FALSE, full |-> FALSE, cap |-> 2, budget |-> Wide]
MCEnvs == {[CalmEnv EXCEPT !.budget = (k1 :> 2) @@ (k2 :> 2)]} \cup
    UNION {{[CalmEnv EXCEPT !.budget = b], [CalmEnv EXCEPT !.cap = 1, !.budget = b],
            [CalmEnv EXCEPT !.slow = TRUE, !.cap = 1, !.budget = b],
            [CalmEnv EXCEPT !.full = TRUE, !.budget = b]} : b \in {Deep, Wide}}

CalmOffline == [overlap |-> FALSE, quota |-> FALSE]
MCOfflines == {CalmOffline, [CalmOffline EXCEPT !.overlap = TRUE], [CalmOffline EXCEPT !.quota = TRUE]}

CalmCache == [others |-> FALSE, fails |-> FALSE]
MCCaches == [others : BOOLEAN, fails : BOOLEAN]

MCVars == <<part, syncVars, payoutVars, effectsVars, offlineVars, cacheVars>>

MCInit ==
    /\ part \in {"sync", "payouts", "effects", "offline", "cache"}
    /\ SyncInit /\ PayoutInit /\ EffectsInit /\ OfflineInit /\ CacheInit
    /\ part # "sync" => setting = CalmSync
    /\ part # "payouts" => web = CalmWeb
    /\ part # "effects" => env = CalmEnv
    /\ part # "offline" => offline = CalmOffline
    /\ part # "cache" => cache = CalmCache /\ asked = 0

MCNext ==
    /\ \/ part = "sync" /\ SyncNext
            /\ UNCHANGED <<payoutVars, effectsVars, offlineVars, cacheVars>>
       \/ part = "payouts" /\ PayoutNext
            /\ UNCHANGED <<syncVars, effectsVars, offlineVars, cacheVars>>
       \/ part = "effects" /\ EffectsNext
            /\ UNCHANGED <<syncVars, payoutVars, offlineVars, cacheVars>>
       \/ part = "offline" /\ OfflineNext
            /\ UNCHANGED <<syncVars, payoutVars, effectsVars, cacheVars>>
       \/ part = "cache" /\ CacheNext
            /\ UNCHANGED <<syncVars, payoutVars, effectsVars, offlineVars>>
    /\ UNCHANGED part

MCSpec == MCInit /\ [][MCNext]_MCVars
MCSymmetry == Permutations({a1, a2})

\* The parts' variables have the types their comments say.
NetworkTypeOK ==
    SyncTypeOK /\ PayoutTypeOK /\ EffectsTypeOK /\ OfflineTypeOK /\ CacheTypeOK
==============================================================================
