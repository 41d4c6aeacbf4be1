----------------------------- MODULE SessionSync -----------------------------
(***************************************************************************)
(* features/session-continuity/hooks/useSessionTabSync.ts: publishes of one   *)
(* mounted hook, queued, coalesced, and sent to the other tabs by a flush    *)
(* that retries each with a delay.  postMessage may throw, and throws once   *)
(* the unmounted hook has closed its channel; without one nothing is sent.   *)
(***************************************************************************)
EXTENDS Integers, Sequences, SequencesExt

CONSTANTS
    Publishes,      \* calls of publish
    PayloadOf,      \* [Publishes -> the event and payload of the call]
    SendRetries     \* maxRetries

ASSUME SessionAssumption == SendRetries \in Nat

VARIABLES
    channel,    \* there is a BroadcastChannel; fixed for a behaviour
    mounted,    \* the hook is mounted and its channel, if any, open
    pending,    \* pendingRef: the entries, each named by the call that made it
    joined,     \* [Publishes -> the entry the call waits for; its own before the call]
    attempts,   \* [Publishes -> attempts of the entry]
    recent,     \* lastPublishedRef: payloads published within dedupeWindowMs
    toSend,     \* what is left of the snapshot of the flush in flight
    kicked,     \* a publish has scheduled a flush
    answer,     \* [Publishes -> the state of the promise]
    (* history *)
    sent,       \* entries posted to the other tabs
    deduped     \* calls answered without an entry, another being recent

sessionVars ==
    <<channel, mounted, pending, joined, attempts, recent, toSend, kicked, answer, sent, deduped>>

Payloads == {PayloadOf[c] : c \in Publishes}
Answer == {"none", "waiting", "resolved", "rejected"}

SessionTypeOK ==
    /\ channel \in BOOLEAN /\ mounted \in BOOLEAN /\ kicked \in BOOLEAN
    /\ pending \in Seq(Publishes) /\ toSend \in Seq(Publishes)
    /\ joined \in [Publishes -> Publishes]
    /\ attempts \in [Publishes -> 0..(SendRetries + 1)]
    /\ recent \subseteq Payloads /\ sent \subseteq Publishes /\ deduped \subseteq Publishes
    /\ answer \in [Publishes -> Answer]

SessionInit ==
    /\ channel \in BOOLEAN /\ mounted = TRUE /\ kicked = FALSE
    /\ pending = <<>> /\ toSend = <<>>
    /\ joined = [c \in Publishes |-> c]
    /\ attempts = [c \in Publishes |-> 0]
    /\ recent = {} /\ sent = {} /\ deduped = {}
    /\ answer = [c \in Publishes |-> "none"]

------------------------------------------------------------------------------
(* publish                                                                   *)

\* One at most: the second publish of an event and payload joins the first.
SameEntry(c) == {e \in ToSet(pending) : PayloadOf[e] = PayloadOf[c]}

\* A promise that is resolved at once, whatever becomes of the call it repeats.
Deduped(c) ==
    /\ answer[c] = "none" /\ PayloadOf[c] \in recent
    /\ answer' = [answer EXCEPT ![c] = "resolved"]
    /\ deduped' = deduped \cup {c}
    /\ UNCHANGED <<channel, mounted, pending, joined, attempts, recent, toSend, kicked, sent>>

Publish(c) ==
    /\ answer[c] = "none" /\ PayloadOf[c] \notin recent
    /\ recent' = recent \cup {PayloadOf[c]}
    /\ answer' = [answer EXCEPT ![c] = "waiting"]
    /\ \/ /\ \E e \in SameEntry(c) : joined' = [joined EXCEPT ![c] = e]
          /\ UNCHANGED <<pending, kicked>>
       \/ /\ SameEntry(c) = {}
          /\ pending' = Append(pending, c)
          /\ kicked' = TRUE
          /\ UNCHANGED joined
    /\ UNCHANGED <<channel, mounted, attempts, toSend, sent, deduped>>

WindowEnds(p) ==
    /\ p \in recent
    /\ recent' = recent \ {p}
    /\ UNCHANGED <<channel, mounted, pending, joined, attempts, toSend, kicked, answer, sent, deduped>>

------------------------------------------------------------------------------
(* flush                                                                     *)

\* inflightRef: a flush ends in the same task as its last entry.
Inflight == toSend # <<>>

\* The flush a publish has scheduled returns at once while another is in flight.
Kick ==
    /\ kicked
    /\ kicked' = FALSE
    /\ toSend' = IF Inflight THEN toSend ELSE pending
    /\ UNCHANGED <<channel, mounted, pending, joined, attempts, recent, answer, sent, deduped>>

\* The flush the hook returns.
UserFlush ==
    /\ ~Inflight /\ pending # <<>>
    /\ toSend' = pending
    /\ UNCHANGED <<channel, mounted, pending, joined, attempts, recent, kicked, answer, sent, deduped>>

\* resolvePending: every call that waits for the entry, if it is still there.
Resolves(e, outcome) ==
    /\ pending' = RemoveFirst(pending, e)
    /\ answer' = [c \in Publishes |->
        IF Contains(pending, e) /\ joined[c] = e /\ answer[c] = "waiting" THEN outcome ELSE answer[c]]

\* Where there is no BroadcastChannel, publish does nothing and does not throw.
Send ==
    LET e == Head(toSend)
    IN /\ Inflight /\ (mounted \/ ~channel)
       /\ sent' = IF channel THEN sent \cup {e} ELSE sent
       /\ Resolves(e, "resolved")
       /\ toSend' = Tail(toSend)
       /\ UNCHANGED <<channel, mounted, joined, attempts, recent, kicked, deduped>>

\* sync.publish throws: the next attempt follows after a delay, or the entry fails.
SendThrows ==
    LET e == Head(toSend)
    IN /\ Inflight
       /\ attempts' = [attempts EXCEPT ![e] = attempts[e] + 1]
       /\ IF attempts[e] < SendRetries
          THEN UNCHANGED <<pending, answer, toSend>>
          ELSE Resolves(e, "rejected") /\ toSend' = Tail(toSend)
       /\ UNCHANGED <<channel, mounted, joined, recent, kicked, sent, deduped>>

LeavesOpen ==               \* mutant: the channel is not closed
    /\ mounted
    /\ pending' = <<>>
    /\ answer' = [c \in Publishes |-> IF answer[c] = "waiting" THEN "rejected" ELSE answer[c]]
    /\ UNCHANGED <<channel, mounted, joined, attempts, recent, toSend, kicked, sent, deduped>>

Unmount ==
    /\ mounted
    /\ mounted' = FALSE
    /\ pending' = <<>>
    /\ answer' = [c \in Publishes |-> IF answer[c] = "waiting" THEN "rejected" ELSE answer[c]]
    /\ UNCHANGED <<channel, joined, attempts, recent, toSend, kicked, sent, deduped>>

FlushSteps == Send \/ SendThrows

SessionNext ==
    \/ \E c \in Publishes : Deduped(c) \/ Publish(c)
    \/ \E p \in Payloads : WindowEnds(p)
    \/ Kick \/ UserFlush \/ FlushSteps \/ Unmount

\* Microtasks run, and a flush in flight goes on.
SessionFairness == WF_sessionVars(Kick) /\ WF_sessionVars(FlushSteps)

SessionSpec == SessionInit /\ [][SessionNext]_sessionVars /\ SessionFairness

------------------------------------------------------------------------------
(* Properties                                                                *)

\* A publish is answered for what happened to its entry: it waits for one that is still
\* queued, is rejected only for one that was not posted, and is resolved only for one that
\* was, whatever was coalesced, retried, or cut off by the end of the hook.  Two kinds of
\* publish are resolved for nothing: every one where there is no BroadcastChannel
\* (emit.ts:171), and one that repeats another within dedupeWindowMs.  The other is a
\* call with an entry, so that its caller is told what this one is not.
AnswersAreTrue ==
    \A c \in Publishes :
        /\ answer[c] = "waiting" => Contains(pending, joined[c])
        /\ answer[c] = "rejected" => joined[c] \notin sent
        /\ answer[c] = "resolved" /\ c \notin deduped /\ channel => joined[c] \in sent
        /\ c \in deduped => \E d \in Publishes \ deduped :
                                PayloadOf[d] = PayloadOf[c] /\ answer[d] # "none"

\* "new publishes arriving during flush are not silently dropped; they are picked up by
\* the next flush cycle" (useSessionTabSync.ts:113): as long as the hook is mounted, a
\* publish is answered in the end.
PublishIsAnswered ==
    \A c \in Publishes : answer[c] = "waiting" ~> answer[c] # "waiting" \/ ~mounted
==============================================================================
