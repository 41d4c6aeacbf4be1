---------------------------- MODULE MCSessionSync ----------------------------
(* Three publishes for TLC, two of them of the same payload.                 *)
EXTENDS SessionSync

MCPayloadOf == <<1, 2, 1>>

\* Where there is a BroadcastChannel.
MCInit == SessionInit /\ channel
MCSpec == MCInit /\ [][SessionNext]_sessionVars /\ SessionFairness
==============================================================================
