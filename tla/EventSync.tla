----------------------------- MODULE EventSync -----------------------------
(***************************************************************************)
(* Subscriptions to the events of one Soroban contract: SorobanEventManager  *)
(* (lib/soroban/events.ts) and the catch-up worker with its cursor in        *)
(* localStorage (lib/soroban/event-sync.ts).  A subscription first asks the  *)
(* RPC for the events after its cursor, page by page, and then opens a       *)
(* Horizon stream at "now"; when the stream breaks it waits and does both    *)
(* again.                                                                    *)
(*                                                                           *)
(* Events are numbered in ledger order, and a cursor is the number of the    *)
(* last event it has passed.  Requests are answered in steps of their own;   *)
(* nobody but the worker writes its copy of the cursor while it waits.       *)
(***************************************************************************)
EXTENDS Integers, Sequences, SequencesExt, FiniteSets

CONSTANTS
    LedgerOf,       \* sequence: the ledger of every event there will ever be
    TxOf,           \* sequence: its transaction
    Malformed,      \* events the catch-up cannot decode
    MaxLedger,      \* the last ledger considered
    MaxSubs,        \* subscriptions made
    PageSize,       \* pagination.limit
    MaxPages,       \* DEFAULT_MAX_PAGES
    MaxAttempts,    \* reconnect.maxAttempts
    SmallCap,       \* MAX_PROCESSED_IDS where events outnumber it
    Settings        \* the environments considered: a subset of Setting

\* resumed: an earlier session has left a cursor.  rpcFails: a request may fail.
\* bare: an empty page comes without a cursor.  lag: Horizon may be behind the
\* RPC.  full: localStorage.setItem may throw.  abrupt: the process may die
\* inside a step.  overlap: the contract may be subscribed again while the
\* catch-up of an earlier subscription runs.  small: MAX_PROCESSED_IDS is SmallCap.
Setting == [resumed : BOOLEAN, rpcFails : BOOLEAN, bare : BOOLEAN, lag : BOOLEAN,
            full : BOOLEAN, abrupt : BOOLEAN, overlap : BOOLEAN, small : BOOLEAN]

Events == DOMAIN LedgerOf
Subs == 1..MaxSubs
Null == -1

ASSUME SyncEventsAssumption ==
    /\ LedgerOf \in Seq(1..MaxLedger)
    /\ \A e, f \in Events : e <= f => LedgerOf[e] <= LedgerOf[f]
    /\ TxOf \in Seq(Nat) /\ DOMAIN TxOf = Events
    /\ \A e, f \in Events : e <= f => TxOf[e] <= TxOf[f]
    /\ \A e, f \in Events : TxOf[e] = TxOf[f] => LedgerOf[e] = LedgerOf[f]
    /\ Malformed \subseteq Events
ASSUME SyncBoundsAssumption ==
    /\ MaxLedger \in Nat \ {0, 1} /\ MaxSubs \in Nat /\ MaxAttempts \in Nat
    /\ PageSize \in Nat \ {0} /\ MaxPages \in Nat \ {0} /\ SmallCap \in Nat \ {0}
    /\ Settings \subseteq Setting

VARIABLES
    setting,    \* fixed for a behaviour
    ledger,     \* the latest closed ledger
    disk,       \* the cursor in localStorage
    mem,        \* [Subs -> the worker's copy]
    subs,       \* [Subs -> what the subscription is doing]
    current,    \* the subscription that is not stopped, or 0
    (* history *)
    delivered,  \* events given to onEvent
    twice,      \* events given to onEvent again
    since       \* the latest ledger a catch-up without a cursor began at

syncVars == <<setting, ledger, disk, mem, subs, current, delivered, twice, since>>

\* The events of the ledgers up to l are 1..Top(l).
Top(l) == Cardinality({e \in Events : LedgerOf[e] <= l})

\* rpc: id of an event from getEvents.  key: liveEventKey of a transaction.
\* live: id given to an event of the stream.
Id == [kind : {"rpc", "key", "live"}, of : Nat]
Cursor == [cursor : {Null} \cup Nat, last : Nat, ids : Seq(Id)]
NoCursor == [cursor |-> Null, last |-> 0, ids |-> <<>>]

\* start: resolvedStartLedger.  pages: pages read in this pass.  at: the last
\* event the stream has passed.
Sub == [pc : {"unused", "asking", "catching", "opening", "open", "waiting", "gone"},
        start : 0..MaxLedger, pages : 0..(MaxPages - 1), attempts : 0..MaxAttempts,
        at : 0..Len(LedgerOf)]
Unused == [pc |-> "unused", start |-> 0, pages |-> 0, attempts |-> 0, at |-> 0]

SyncTypeOK ==
    /\ setting \in Settings
    /\ ledger \in 1..MaxLedger
    /\ disk \in Cursor
    /\ mem \in [Subs -> Cursor]
    /\ setting.small => \A s \in Subs : Len(mem[s].ids) <= SmallCap
    /\ subs \in [Subs -> Sub]
    /\ current \in 0..MaxSubs
    /\ delivered \subseteq Events /\ twice \subseteq Events
    /\ since \in 0..MaxLedger

\* A cursor that is resumed stands at the events of the first ledger.
SyncInit ==
    /\ setting \in Settings
    /\ ledger = 1
    /\ disk = IF setting.resumed
              THEN [cursor |-> Top(1), last |-> 1, ids |-> <<>>] ELSE NoCursor
    /\ mem = [s \in Subs |-> NoCursor]
    /\ subs = [s \in Subs |-> Unused]
    /\ current = 0
    /\ delivered = {} /\ twice = {}
    /\ since = IF setting.resumed THEN 2 ELSE 0

CloseLedger ==
    /\ ledger < MaxLedger
    /\ ledger' = ledger + 1
    /\ UNCHANGED <<setting, disk, mem, subs, current, delivered, twice, since>>

------------------------------------------------------------------------------
(* The cursor                                                                *)

\* markProcessed: new ids go to the end, one after the other, the oldest fall out.
Pushed(ids, id) == IF Contains(ids, id) THEN ids ELSE Append(ids, id)
AllPushed(ids, new) ==
    LET all[i \in 0..Len(new)] == IF i = 0 THEN ids ELSE Pushed(all[i - 1], new[i])
    IN all[Len(new)]
Remember(ids, new) ==
    LET all == AllPushed(ids, new)
        over == IF setting.small /\ Len(all) > SmallCap THEN Len(all) - SmallCap ELSE 0
    IN SubSeq(all, over + 1, Len(all))

AdvancedBlindly(c, position, l) ==  \* mutant: advance takes a null cursor too
    [c EXCEPT !.cursor = position, !.last = IF l > @ THEN l ELSE @]

\* advance, and advanceLedger.
Advanced(c, position, l) ==
    [c EXCEPT !.cursor = IF position = Null THEN @ ELSE position,
              !.last = IF l > @ THEN l ELSE @]

\* The worker's copy becomes c and is persisted; a failing write is swallowed.
Persist(s, c) ==
    /\ mem' = [mem EXCEPT ![s] = c]
    /\ \/ disk' = c
       \/ setting.full /\ disk' = disk

Deliver(events) ==
    /\ delivered' = delivered \cup events
    /\ twice' = twice \cup (events \cap delivered)

------------------------------------------------------------------------------
(* The subscription                                                          *)

Goes(s, pc) == subs' = [subs EXCEPT ![s].pc = pc]

\* Where a catch-up pass begins: the current ledger is asked for once, when
\* there is neither a cursor nor a last ledger.
FirstStep(s, c) ==
    IF c.cursor = Null /\ c.last = 0 /\ subs[s].start = 0 THEN "asking" ELSE "catching"

\* After catchUp: start returns if the subscription was stopped meanwhile.
AfterCatchUp(s) == IF s = current THEN "opening" ELSE "gone"

\* A catch-up that waits for the RPC is not stopped by closeSubscription.
Busy(s) == subs[s].pc \in {"asking", "catching"}
ClosedKeeping(s) == IF s = current /\ ~Busy(s) THEN [subs[s] EXCEPT !.pc = "gone"] ELSE subs[s]

Subscribe(s) ==
    /\ subs[s].pc = "unused" /\ \A r \in Subs : r < s => subs[r].pc # "unused"
    /\ setting.overlap \/ \A r \in Subs : ~Busy(r)
    /\ current' = s
    /\ mem' = [mem EXCEPT ![s] = disk]
    /\ subs' = [r \in Subs |-> IF r = s THEN [Unused EXCEPT !.pc = FirstStep(s, disk)]
                                        ELSE ClosedKeeping(r)]
    /\ UNCHANGED <<setting, ledger, disk, delivered, twice, since>>

CloseSubscription ==
    /\ current # 0
    /\ current' = 0
    /\ subs' = [r \in Subs |-> ClosedKeeping(r)]
    /\ UNCHANGED <<setting, ledger, disk, mem, delivered, twice, since>>

\* The page is reloaded.
ReloadPage ==
    /\ current' = 0
    /\ subs' = [s \in Subs |-> IF subs[s].pc = "unused" THEN subs[s]
                               ELSE [subs[s] EXCEPT !.pc = "gone"]]
    /\ UNCHANGED <<setting, ledger, disk, mem, delivered, twice, since>>

\* getLatestLedger answers.
LatestLedger(s) ==
    /\ subs[s].pc = "asking"
    /\ subs' = [subs EXCEPT ![s].pc = "catching", ![s].start = ledger]
    /\ UNCHANGED <<setting, ledger, disk, mem, current, delivered, twice, since>>

\* Where getEvents looks: after the cursor, or from a start ledger.
From(s) ==
    IF mem[s].cursor # Null THEN mem[s].cursor
    ELSE Top(IF mem[s].last > 0 THEN mem[s].last ELSE subs[s].start - 1)

Least(a, b) == IF a < b THEN a ELSE b
Page(s) == (From(s) + 1)..Least(From(s) + PageSize, Top(ledger))

ReportedTip(s) == Top(ledger)   \* mutant: the chain tip, whatever the page holds

\* The cursor that comes with the page.
Reported(s) ==
    IF Page(s) # {} THEN From(s) + Cardinality(Page(s))
    ELSE IF setting.bare THEN Null ELSE Top(ledger)

FreshByIdOnly(s) ==     \* mutant: the live key is not looked up
    {e \in Page(s) : ~Contains(mem[s].ids, [kind |-> "rpc", of |-> e])} \ Malformed

Fresh(s) ==
    {e \in Page(s) : /\ ~Contains(mem[s].ids, [kind |-> "rpc", of |-> e])
                     /\ ~Contains(mem[s].ids, [kind |-> "key", of |-> TxOf[e]])} \ Malformed

Began(s) ==
    since' = IF mem[s].cursor = Null /\ mem[s].last = 0 /\ subs[s].start > since
             THEN subs[s].start ELSE since

PageIds(s) == [i \in 1..Cardinality(Page(s)) |-> [kind |-> "rpc", of |-> From(s) + i]]
LastPage(s) == Cardinality(Page(s)) < PageSize \/ subs[s].pages + 1 = MaxPages

Processed(s) ==
    Advanced([mem[s] EXCEPT !.ids = Remember(@, PageIds(s))], Reported(s), ledger)

\* getEvents answers: ids and cursor are stored, then the events are delivered.
EventsPage(s) ==
    /\ subs[s].pc = "catching"
    /\ Persist(s, Processed(s))
    /\ Deliver(Fresh(s))
    /\ subs' = [subs EXCEPT ![s].pc = IF LastPage(s) THEN AfterCatchUp(s) ELSE @,
                            ![s].pages = IF LastPage(s) THEN 0 ELSE @ + 1]
    /\ Began(s)
    /\ UNCHANGED <<setting, ledger, current>>

\* The process dies between the two; some of the events were delivered.
DiesInPage(s) ==
    /\ setting.abrupt
    /\ subs[s].pc = "catching"
    /\ Persist(s, Processed(s))
    /\ \E e \in Fresh(s) : Deliver({f \in Fresh(s) : f < e})
    /\ subs' = [r \in Subs |-> IF subs[r].pc = "unused" THEN subs[r]
                               ELSE [subs[r] EXCEPT !.pc = "gone"]]
    /\ current' = 0
    /\ Began(s)
    /\ UNCHANGED <<setting, ledger>>

\* "Catch-up is best-effort: a failing RPC must not stop live events."
CatchUpFails(s) ==
    /\ setting.rpcFails
    /\ Busy(s)
    /\ subs' = [subs EXCEPT ![s].pc = AfterCatchUp(s), ![s].pages = 0]
    /\ UNCHANGED <<setting, ledger, disk, mem, current, delivered, twice, since>>

\* The stream connects, from what is "now" to Horizon.
Connect(s) ==
    /\ subs[s].pc = "opening"
    /\ \E now \in (IF setting.lag THEN 1..ledger ELSE {ledger}) :
            subs' = [subs EXCEPT ![s].pc = "open", ![s].at = Top(now)]
    /\ UNCHANGED <<setting, ledger, disk, mem, current, delivered, twice, since>>

OfTx(e) == {f \in Events : TxOf[f] = TxOf[e]}
TxIds(e) ==
    <<[kind |-> "key", of |-> TxOf[e]]>>
        \o [i \in 1..Cardinality(OfTx(e)) |-> [kind |-> "live", of |-> e + i - 1]]

\* handleTransactionMessage for the next transaction of the contract.
Message(s) ==
    LET e == subs[s].at + 1
    IN /\ subs[s].pc = "open"
       /\ e <= Top(ledger)
       /\ Persist(s, Advanced([mem[s] EXCEPT !.ids = Remember(@, TxIds(e))], Null, LedgerOf[e]))
       /\ Deliver(OfTx(e))
       /\ subs' = [subs EXCEPT ![s].at = @ + Cardinality(OfTx(e))]
       /\ UNCHANGED <<setting, ledger, current, since>>

\* The stream breaks or cannot be opened: scheduleReconnect.
StreamError(s) ==
    LET attempts == subs[s].attempts + 1
    IN /\ subs[s].pc \in {"opening", "open"}
       /\ IF attempts > MaxAttempts
          THEN /\ Goes(s, "gone")
               /\ current' = 0
          ELSE /\ subs' = [subs EXCEPT ![s].pc = "waiting", ![s].attempts = attempts]
               /\ UNCHANGED current
       /\ UNCHANGED <<setting, ledger, disk, mem, delivered, twice, since>>

Reconnect(s) ==
    /\ subs[s].pc = "waiting"
    /\ Goes(s, FirstStep(s, mem[s]))
    /\ UNCHANGED <<setting, ledger, disk, mem, current, delivered, twice, since>>

SyncNext ==
    \/ CloseLedger \/ CloseSubscription \/ ReloadPage
    \/ \E s \in Subs :
        \/ Subscribe(s) \/ LatestLedger(s) \/ EventsPage(s) \/ DiesInPage(s) \/ CatchUpFails(s)
        \/ Connect(s) \/ Message(s) \/ StreamError(s) \/ Reconnect(s)

SyncSpec == SyncInit /\ [][SyncNext]_syncVars

------------------------------------------------------------------------------
(* Properties                                                                *)

\* Nothing falls between the stream and the catch-up: every event before the
\* stored resume point was delivered, by whichever of them, provided the process
\* does not die inside a step, and either the RPC never fails and reports the
\* cursor with empty pages, or there was a cursor to begin with.
Passed == 1..(IF disk.cursor # Null THEN disk.cursor ELSE Top(disk.last))
NothingPassedOver ==
    ~setting.abrupt /\ (setting.resumed \/ ~(setting.rpcFails \/ setting.bare))
        => \A e \in Passed \ Malformed : LedgerOf[e] >= since => e \in delivered

\* "so the same event is never processed twice" (event-sync.ts:16).
ProcessedOnce == twice = {}

\* It is so while catch-ups do not overlap, Horizon is not behind the RPC,
\* localStorage takes the writes and the ids fit.
NeverTwice ==
    ~(setting.overlap \/ setting.lag \/ setting.full \/ setting.small) => ProcessedOnce

\* "Move the resume point forward. Never moves it backwards." (event-sync.ts:140):
\* neither the cursor nor the last ledger in localStorage does, across reconnects
\* and reloads, if catch-ups do not overlap.
NeverBackwards ==
    [][~setting.overlap
            => disk'.cursor >= disk.cursor /\ disk'.last >= disk.last]_syncVars
==============================================================================
