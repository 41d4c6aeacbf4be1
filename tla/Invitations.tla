----------------------------- MODULE Invitations -----------------------------
(***************************************************************************)
(* lib/invitations.ts: the invitations of one manager, with the clock.  All  *)
(* calls are synchronous; an invitation expires without a call, and its      *)
(* status says so only once some call has looked at it.                      *)
(*                                                                           *)
(* The policy of policy-engine.ts never refuses an invitation: its rule      *)
(* reads the key invites:<actor>, and recordRateLimitedAction counts under   *)
(* invite_collaborator:<actor>.  Times are in days of Day ticks.             *)
(***************************************************************************)
EXTENDS Naturals, Sequences

CONSTANTS
    Inviters,
    Day,            \* the 24 hours of a rate window
    MaxExpiry,      \* bound on inviteExpiryHours
    MaxPerDay,      \* bound on maxInvitesPerDay
    MaxClock,       \* bound on the clock
    MaxInvitations  \* bound on the invitations made

ASSUME InvitationAssumption ==
    /\ Day \in Nat \ {0} /\ MaxExpiry \in Nat \ {0} /\ MaxPerDay \in Nat \ {0} /\ MaxClock \in Nat

VARIABLES
    clock,
    limits,         \* maxInvitesPerDay and inviteExpiryHours, which may be set at any time
    invitations,    \* in the order they were made: inviter, expiresAt, status
    window          \* rateLimitByInviter: count and resetTime; a resetTime of 0 is none

inviteVars == <<clock, limits, invitations, window>>

InvitationStatus == {"pending", "accepted", "rejected", "revoked", "expired"}

InvitationsTypeOK ==
    /\ clock \in 0..MaxClock
    /\ limits \in [perDay : 1..MaxPerDay, expiry : 1..MaxExpiry]
    /\ invitations \in Seq([inviter : Inviters, expiresAt : 0..(MaxClock + MaxExpiry),
                            status : InvitationStatus])
    /\ window \in [Inviters -> [count : 0..MaxPerDay, resetTime : 0..(MaxClock + Day)]]

InvitationsInit ==
    /\ clock = 0
    /\ limits = [perDay |-> MaxPerDay, expiry |-> MaxExpiry]
    /\ invitations = <<>>
    /\ window = [a \in Inviters |-> [count |-> 0, resetTime |-> 0]]

------------------------------------------------------------------------------
(* The settings                                                              *)

Sets(setting) ==
    /\ setting # limits
    /\ limits' = setting
    /\ UNCHANGED <<clock, invitations, window>>

\* Neither touches the counts nor the invitations there are: a day may have more of
\* them than a lowered maximum, and an invitation keeps the expiry it was made with.
setMaxInvitesPerDay(max) == Sets([limits EXCEPT !.perDay = max])
setInviteExpiryHours(hours) == Sets([limits EXCEPT !.expiry = hours])

------------------------------------------------------------------------------
(* createInvitation                                                          *)

InWindow(a) == clock < window[a].resetTime
MayInvite(a) == InWindow(a) => window[a].count < limits.perDay

createInvitation(a) ==
    /\ Len(invitations) < MaxInvitations
    /\ MayInvite(a)
    /\ invitations' = Append(invitations,
            [inviter |-> a, expiresAt |-> clock + limits.expiry, status |-> "pending"])
    /\ window' = [window EXCEPT ![a] =
            IF InWindow(a)
            THEN [count |-> window[a].count + 1, resetTime |-> window[a].resetTime]
            ELSE [count |-> 1, resetTime |-> clock + Day]]
    /\ UNCHANGED <<clock, limits>>

------------------------------------------------------------------------------
(* The life of an invitation                                                 *)

isExpired(invitation) == clock > invitation.expiresAt

LookedAtAny(invitation) ==      \* mutant: whatever has been decided expires as well
    IF isExpired(invitation) THEN [invitation EXCEPT !.status = "expired"] ELSE invitation
\* getInvitation, with which every call on an invitation begins.
Looked(invitation) ==
    IF isExpired(invitation) /\ invitation.status = "pending"
    THEN [invitation EXCEPT !.status = "expired"] ELSE invitation

Becomes(i, invitation) ==
    /\ invitations' = [invitations EXCEPT ![i] = invitation]
    /\ UNCHANGED <<clock, limits, window>>

getInvitation(i) == Becomes(i, Looked(invitations[i]))

\* The calls that need a pending invitation throw for any other, once it was looked at.
Decides(i, decision) ==
    LET found == Looked(invitations[i])
    IN Becomes(i, IF found.status = "pending" THEN [found EXCEPT !.status = decision] ELSE found)

rejectInvitation(i) == Decides(i, "rejected")

\* Only its inviter revokes an invitation; for anyone else it is only looked at.
revokeInvitation(i) == Decides(i, "revoked")

\* Of what is neither accepted nor revoked, all that is too old is marked expired,
\* a rejected invitation too.
acceptInvitation(i) ==
    \/ /\ invitations[i].status \notin {"accepted", "revoked"} /\ isExpired(invitations[i])
       /\ Becomes(i, [invitations[i] EXCEPT !.status = "expired"])
    \/ /\ invitations[i].status \in {"accepted", "revoked"} \/ ~isExpired(invitations[i])
       /\ Decides(i, "accepted")

clearExpiredInvitations ==
    /\ invitations' = [i \in DOMAIN invitations |-> Looked(invitations[i])]
    /\ UNCHANGED <<clock, limits, window>>

Tick == clock < MaxClock /\ clock' = clock + 1 /\ UNCHANGED <<limits, invitations, window>>

InvitationsNext ==
    \/ \E a \in Inviters : createInvitation(a)
    \/ \E i \in DOMAIN invitations :
          getInvitation(i) \/ acceptInvitation(i) \/ rejectInvitation(i) \/ revokeInvitation(i)
    \/ \E max \in 1..MaxPerDay : setMaxInvitesPerDay(max)
    \/ \E hours \in 1..MaxExpiry : setInviteExpiryHours(hours)
    \/ clearExpiredInvitations
    \/ Tick

InvitationsSpec == InvitationsInit /\ [][InvitationsNext]_inviteVars

------------------------------------------------------------------------------
(* Properties                                                                *)

\* Only a pending invitation is decided, and accepted only in time, whatever calls,
\* queries, clean-ups and changes of the settings come in between; no decision is undone,
\* except that a rejected invitation someone tries to accept too late counts as expired.
DecisionStands ==
    [][\A i \in DOMAIN invitations :
        LET before == invitations[i].status  after == invitations'[i].status
        IN before # after =>
            \/ before = "pending" /\ (after = "accepted" => ~isExpired(invitations[i]))
            \/ before = "rejected" /\ after = "expired" /\ isExpired(invitations[i])]_inviteVars
==============================================================================
