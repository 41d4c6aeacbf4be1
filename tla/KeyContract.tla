----------------------------- MODULE KeyContract -----------------------------
(***************************************************************************)
(* What lib/idempotency.ts promises for one key ("runs operation at most    *)
(* once per key", lib/idempotency.ts:475): requests go out one at a time,   *)
(* and none while the success of an earlier one may still be replayed.  A   *)
(* key is used through a sequence of windows, each open until it expires.   *)
(***************************************************************************)
EXTENDS Integers

CONSTANT MaxSent    \* bound on the requests sent

VARIABLES
    busy,       \* a request is being waited for
    sent,       \* requests sent so far; the latest one has this number
    winner,     \* [window -> the request reported as its success, or 0]
    expired     \* windows 1..expired are over

contractVars == <<busy, sent, winner, expired>>

Window == 0..MaxSent
Settled == \E w \in Window : w > expired /\ winner[w] # 0

Init ==
    /\ busy = FALSE
    /\ sent = 0
    /\ winner = [w \in Window |-> 0]
    /\ expired = 0

Request ==
    /\ ~busy
    /\ ~Settled
    /\ busy' = TRUE
    /\ sent' = sent + 1
    /\ UNCHANGED <<winner, expired>>

\* Only the latest request can be the one that is reported.
Report ==
    /\ busy
    /\ \E w \in Window :
        /\ winner[w] = 0
        /\ winner' = [winner EXCEPT ![w] = sent]
    /\ busy' = FALSE
    /\ UNCHANGED <<sent, expired>>

\* A failure, or the loss of the tab.
GiveUp == busy /\ busy' = FALSE /\ UNCHANGED <<sent, winner, expired>>

Expire == expired' > expired /\ UNCHANGED <<busy, sent, winner>>

Next == Request \/ Report \/ GiveUp \/ Expire

Spec == Init /\ [][Next]_contractVars
==============================================================================
