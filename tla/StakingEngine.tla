---------------------------- MODULE StakingEngine ----------------------------
(***************************************************************************)
(* lib/staking/engine.ts: the positions of one asset's pool.  The engine     *)
(* runs synchronously; what is hard is that rewards are settled late, out of *)
(* an accumulator, by whatever later call touches the position.              *)
(*                                                                           *)
(* Callers pass the time of a call, here in seconds.  Rewards are counted in *)
(* units of which the pool emits Scale in a second, so that every stake the  *)
(* pool may hold divides it; the engine uses floating point.  The multiplier *)
(* of an asset scales a position and its pool alike and is left out.         *)
(***************************************************************************)
EXTENDS Integers, FiniteSets, FiniteSetsExt

CONSTANTS
    Users,
    StakeAmounts,   \* amounts that are staked and unstaked
    MaxStaked,      \* bound on the principal in the engine
    MaxTime,        \* bound on the times passed
    Unbonding,      \* unbondingPeriodMs
    Scale           \* emissionPerSecond

ASSUME StakingAssumption ==
    /\ IsFiniteSet(Users)
    /\ StakeAmounts \subseteq Nat \ {0}
    /\ MaxStaked \in Nat /\ MaxTime \in Nat /\ Unbonding \in Nat /\ Scale \in Nat
    /\ \A total \in 1..MaxStaked : Scale % total = 0

VARIABLES
    pool,       \* AssetPoolState: totalEffectiveStake, accRewardPerShare, lastUpdatedAt
    position,   \* [Users -> StakePosition], which exists while it is open
    (* history *)
    owed,       \* [Users -> principal staked and not paid back]
    earned      \* [Users -> share of the emission up to the pool's time, not paid]

stakingVars == <<pool, position, owed, earned>>

Times == 0..MaxTime
UnlockTimes == 0..(MaxTime + Unbonding)
Amount == 0..MaxStaked

\* requests: by unlock time, the amount of all requests that unlock then.
Position == [open : BOOLEAN, staked : Amount, debt : Nat, pending : Nat,
             requests : [UnlockTimes -> Nat]]
NoPosition == [open |-> FALSE, staked |-> 0, debt |-> 0, pending |-> 0,
               requests |-> [t \in UnlockTimes |-> 0]]

StakingTypeOK ==
    /\ pool \in [total : Amount, acc : Nat, at : Times]
    /\ position \in [Users -> Position]
    /\ owed \in [Users -> Nat]
    /\ earned \in [Users -> Nat]

StakingInit ==
    /\ pool = [total |-> 0, acc |-> 0, at |-> 0]
    /\ position = [u \in Users |-> NoPosition]
    /\ owed = [u \in Users |-> 0]
    /\ earned = [u \in Users |-> 0]

------------------------------------------------------------------------------
(* syncPool and accruePosition                                               *)

\* The reward of a unit of stake since the last update.
PerShare(t) == IF pool.total = 0 THEN 0 ELSE (t - pool.at) * (Scale \div pool.total)

Acc(t) == pool.acc + PerShare(t)

PendingRewards(p, acc) == p.pending + p.staked * acc - p.debt

Rebased(u, t) ==            \* mutant: what accrued so far is forgotten
    [position[u] EXCEPT !.debt = position[u].staked * Acc(t)]

Accrued(u, t) ==
    [position[u] EXCEPT !.pending = Max({0, PendingRewards(position[u], Acc(t))}),
                        !.debt = position[u].staked * Acc(t)]

\* The position settled, then changed by a stake or an unstake.
Resized(u, delta, t) ==
    LET staked == position[u].staked + delta
    IN [Accrued(u, t) EXCEPT !.open = TRUE, !.staked = staked, !.debt = staked * Acc(t)]

\* What the stakes of the pool earned since its last update, as shares of the emission.
EarnedBy(t) == [u \in Users |->
    IF pool.total = 0 THEN earned[u]
    ELSE earned[u] + ((t - pool.at) * Scale * position[u].staked) \div pool.total]

\* A call syncs the pool, or throws when its time is in the past.
Syncs(t, delta) ==
    /\ t >= pool.at
    /\ pool' = [total |-> pool.total + delta, acc |-> Acc(t), at |-> t]

------------------------------------------------------------------------------
(* The engine's operations                                                   *)

Total(f, S) == MapThenSumSet(LAMBDA x : f[x], S)

HasRequests(p) == \E t \in UnlockTimes : p.requests[t] > 0
DropsRequests(p) == IF p.staked = 0 THEN NoPosition ELSE p     \* mutant: requests are no reason to stay
\* A position with nothing left is deleted; claimRewards has just paid what was pending.
Kept(p) == IF p.staked = 0 /\ p.pending = 0 /\ ~HasRequests(p) THEN NoPosition ELSE p

Stake(u, amount, t) ==
    /\ Total(owed, Users) + amount <= MaxStaked
    /\ Syncs(t, amount)
    /\ position' = [position EXCEPT ![u] = Resized(u, amount, t)]
    /\ owed' = [owed EXCEPT ![u] = owed[u] + amount]
    /\ earned' = EarnedBy(t)

TakesOut(u, amount, t) ==
    /\ position[u].open /\ amount <= position[u].staked
    /\ Syncs(t, -amount)
    /\ earned' = EarnedBy(t)

\* One more request, that unlocks at the time given.
Asking(p, amount, at) ==
    [p EXCEPT !.requests = [p.requests EXCEPT ![at] = p.requests[at] + amount]]

Unstake(u, amount, t) ==
    /\ TakesOut(u, amount, t)
    /\ position' = [position EXCEPT ![u] = Asking(Resized(u, -amount, t), amount, t + Unbonding)]
    /\ UNCHANGED owed

\* Pays the amount back at once, less the penalty.
EmergencyUnstake(u, amount, t) ==
    /\ TakesOut(u, amount, t)
    /\ position' = [position EXCEPT ![u] = Kept(Resized(u, -amount, t))]
    /\ owed' = [owed EXCEPT ![u] = owed[u] - amount]

\* Taking out more than is staked throws when the position has been settled.
TakesOutTooMuch(u, amount, t) ==
    /\ position[u].open /\ amount > position[u].staked
    /\ Syncs(t, 0)
    /\ position' = [position EXCEPT ![u] = Accrued(u, t)]
    /\ earned' = EarnedBy(t)
    /\ UNCHANGED owed

\* Without a position every call but stake throws, claimUnbonded before the sync.
FindsNoPosition(u, t) ==
    /\ ~position[u].open
    /\ Syncs(t, 0)
    /\ earned' = EarnedBy(t)
    /\ UNCHANGED <<position, owed>>

Unlocked(t) == {x \in UnlockTimes : x <= t}
Unbonded(p, t) ==
    [p EXCEPT !.requests = [x \in UnlockTimes |-> IF x \in Unlocked(t) THEN 0 ELSE p.requests[x]]]

\* Neither syncs the pool nor compares the time with it.
ClaimUnbonded(u, t) ==
    /\ position[u].open
    /\ position' = [position EXCEPT ![u] = Kept(Unbonded(position[u], t))]
    /\ owed' = [owed EXCEPT ![u] = owed[u] - Total(position[u].requests, Unlocked(t))]
    /\ UNCHANGED <<pool, earned>>

ClaimRewards(u, t) ==
    /\ position[u].open
    /\ Syncs(t, 0)
    /\ position' = [position EXCEPT ![u] = Kept([Accrued(u, t) EXCEPT !.pending = 0])]
    /\ earned' = [EarnedBy(t) EXCEPT ![u] = EarnedBy(t)[u] - Accrued(u, t).pending]
    /\ UNCHANGED owed

StakingNext ==
    \E u \in Users, t \in Times :
        \/ \E amount \in StakeAmounts :
            \/ Stake(u, amount, t) \/ Unstake(u, amount, t)
            \/ EmergencyUnstake(u, amount, t) \/ TakesOutTooMuch(u, amount, t)
        \/ FindsNoPosition(u, t) \/ ClaimUnbonded(u, t) \/ ClaimRewards(u, t)

StakingSpec == StakingInit /\ [][StakingNext]_stakingVars

------------------------------------------------------------------------------
(* Properties                                                                *)

\* Every user is paid, now or at the next call that settles the position, exactly
\* the share of the emission that the stake had in the pool while time passed:
\* whoever staked, left, failed or claimed in between, nothing is earned for time
\* without stake, and no reward goes with a deleted position.
RewardsAreShares ==
    \A u \in Users : earned[u] = PendingRewards(position[u], pool.acc)

\* What a user staked and did not get back is staked or unbonding, over refused
\* calls, partial claims and positions that are deleted and opened again; and the stake
\* that divides the emission is the sum of the stakes that share it.
PrincipalIsOwed ==
    /\ \A u \in Users :
          owed[u] = position[u].staked + Total(position[u].requests, UnlockTimes)
    /\ pool.total = Total([u \in Users |-> position[u].staked], Users)
==============================================================================
