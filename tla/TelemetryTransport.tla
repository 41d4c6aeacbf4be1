------------------------- MODULE TelemetryTransport -------------------------
(***************************************************************************)
(* TelemetryTransport of agent-telemetry/services/telemetryTransport.ts with *)
(* the reducer of telemetry-connection-machine.ts: a stream over a WebRTC    *)
(* data channel that is negotiated through a WebSocket, the same WebSocket   *)
(* as a fallback, and three timers.  An action is one callback.              *)
(*                                                                           *)
(* The reducer is folded into the operators that emit its events: "negotiate"*)
(* counts only while connecting, "error" keeps the transport, and nothing    *)
(* follows "dispose".                                                        *)
(***************************************************************************)
EXTENDS Integers, FiniteSets

CONSTANTS
    MaxReconnects,  \* maxReconnectAttempts
    MaxClicks,      \* bound on the user's clicks on Reconnect
    Links           \* the environments considered: a subset of Link

\* rtc: what WebRTC does in this browser.  sockets: the WebSocket can be made.
\* slow: a socket may open although its connect timeout has passed.
\* loss: the signalling socket may close while the data channel is open.
Link == [rtc : {"unsupported", "broken", "works"}, sockets : BOOLEAN,
         slow : BOOLEAN, loss : BOOLEAN]

ASSUME TransportAssumption ==
    MaxReconnects \in Nat /\ MaxClicks \in Nat /\ Links \subseteq Link

VARIABLES
    link,       \* fixed for a behaviour
    conn,       \* the transport: the state it reports and what it holds
    clicks      \* clicks on Reconnect so far

transportVars == <<link, conn, clicks>>

\* status, transport: TelemetryConnectionState.  mode: socketMode.  failing: a socket
\* that has reported an error and not yet its close.  dead: a closed channel.
Conn == [status : {"idle", "connecting", "negotiating", "open", "reconnecting", "closed", "error"},
         transport : {"none", "webrtc", "websocket"},
         mode : {"none", "signaling", "fallback"},
         socket : {"none", "connecting", "open", "failing"},
         channel : {"none", "opening", "open", "dead"},
         timers : SUBSET {"connect", "ice", "reconnect"},
         tries : 0..MaxReconnects]

TransportTypeOK ==
    /\ link \in Links
    /\ conn \in Conn
    /\ clicks \in 0..MaxClicks

TransportInit ==
    /\ link \in Links
    /\ conn = [status |-> "idle", transport |-> "none", mode |-> "none", socket |-> "none",
               channel |-> "none", timers |-> {}, tries |-> 0]
    /\ clicks = 0

Disposed == conn.status = "closed"

------------------------------------------------------------------------------
(* What the callbacks are made of                                            *)

Armed(c, t) == [c EXCEPT !.timers = c.timers \cup {t}]
Cleared(c, t) == [c EXCEPT !.timers = c.timers \ {t}]
KeepsReconnect(c) ==        \* mutant: the reconnect timer is left running
    [c EXCEPT !.timers = @ \ {"connect", "ice"}]
ClearTimers(c) == [c EXCEPT !.timers = {}]
Reports(c, status) == [c EXCEPT !.status = status, !.transport = "none"]

\* teardownWebRtc
TornDown(c) == Cleared([c EXCEPT !.channel = "none"], "ice")

\* teardownWebRtc, closeSocket, socketMode = null
AllClosed(c) == [TornDown(c) EXCEPT !.socket = "none", !.mode = "none"]

GivesUp(c) == [c EXCEPT !.status = "error"]

MarkWebSocketOpen(c) ==
    [c EXCEPT !.status = "open", !.transport = "websocket", !.tries = 0]

\* ensureSocket, with what follows when the socket it returns is not open.
AwaitSocket(c) ==
    IF c.socket # "none" THEN Armed(c, "connect")
    ELSE IF link.sockets THEN Armed([c EXCEPT !.socket = "connecting"], "connect")
    ELSE GivesUp(c)

OpenFallbackSocket(c) ==
    LET f == [c EXCEPT !.mode = "fallback"]
    IN IF f.socket = "open" THEN MarkWebSocketOpen(f) ELSE AwaitSocket(f)

EnterFallback(c) ==
    IF c.mode = "fallback" \/ c.transport = "websocket" THEN c
    ELSE OpenFallbackSocket(TornDown(Reports(c, "connecting")))

NegotiateUntimed(c) ==      \* mutant: no ICE timeout
    IF link.rtc = "broken" THEN EnterFallback(c)
    ELSE [c EXCEPT !.channel = "opening",
            !.status = IF @ \in {"connecting", "negotiating"} THEN "negotiating" ELSE @]

\* beginNegotiation
Negotiate(c) ==
    LET n == IF c.status \in {"connecting", "negotiating"} THEN Reports(c, "negotiating") ELSE c
    IN IF link.rtc = "broken" THEN EnterFallback(n)
       ELSE Armed([n EXCEPT !.channel = "opening"], "ice")

\* openInitialTransport; the socket of an earlier attempt has been closed.
OpenInitial(c) ==
    IF link.rtc = "unsupported" THEN EnterFallback(c)
    ELSE AwaitSocket([c EXCEPT !.mode = "signaling"])

ScheduleReconnect(c) ==
    IF c.tries >= MaxReconnects THEN GivesUp(c)
    ELSE Armed(Reports([c EXCEPT !.tries = c.tries + 1], "reconnecting"), "reconnect")

Becomes(c) == conn' = c /\ UNCHANGED <<link, clicks>>

------------------------------------------------------------------------------
(* The user: start, reconnect, dispose                                       *)

StartTransport ==
    /\ conn.status = "idle"
    /\ Becomes(OpenInitial(Reports(conn, "connecting")))

Reconnect ==
    /\ ~Disposed
    /\ clicks < MaxClicks
    /\ clicks' = clicks + 1
    /\ conn' = OpenInitial(Reports([AllClosed(ClearTimers(conn)) EXCEPT !.tries = 0], "reconnecting"))
    /\ UNCHANGED link

Dispose ==
    /\ ~Disposed
    /\ Becomes(Reports(AllClosed(ClearTimers(conn)), "closed"))

------------------------------------------------------------------------------
(* The socket                                                                *)

SocketOpens ==
    LET c == Cleared([conn EXCEPT !.socket = "open"], "connect")
    IN /\ conn.socket = "connecting"
       /\ link.slow \/ "connect" \in conn.timers
       /\ Becomes(IF c.mode = "fallback" THEN MarkWebSocketOpen(c) ELSE Negotiate(c))

\* The signalling socket stays up while the channel is open, unless link.loss.
MayDrop == conn.transport = "webrtc" => link.loss

SocketErrors ==
    LET c == [conn EXCEPT !.socket = "failing"]
    IN /\ conn.socket \in {"connecting", "open"}
       /\ MayDrop
       /\ Becomes(IF c.mode = "signaling" /\ c.transport # "webrtc" THEN EnterFallback(c) ELSE c)

SocketCloses ==
    LET c == [conn EXCEPT !.socket = "none"]
    IN /\ conn.socket \in {"open", "failing"}
       /\ MayDrop
       /\ Becomes(IF c.status # "open" /\ c.mode = "signaling"
                  THEN EnterFallback(c) ELSE ScheduleReconnect(c))

\* The server answers that there is no peer.
NoPeer ==
    /\ conn.socket = "open"
    /\ Becomes(EnterFallback(conn))

------------------------------------------------------------------------------
(* The peer and its channel                                                  *)

ChannelOpens ==
    /\ conn.channel = "opening"
    /\ Becomes([Cleared(conn, "ice") EXCEPT !.channel = "open", !.tries = 0,
                                            !.status = "open", !.transport = "webrtc"])

\* The channel closes or fails, or the peer connection does.
ChannelDies ==
    /\ conn.channel \in {"opening", "open"}
    /\ Becomes(EnterFallback([conn EXCEPT !.channel = "dead"]))

\* The offer or the answer is refused, or the peer is disconnected.
SignalingFails ==
    /\ conn.channel \in {"opening", "open"}
    /\ Becomes(EnterFallback(conn))

------------------------------------------------------------------------------
(* The timers                                                                *)

Fires(t) == t \in conn.timers

ConnectTimeout ==
    LET c == Cleared(conn, "connect")
    IN /\ Fires("connect")
       /\ Becomes(IF c.status = "open" THEN c
                  ELSE IF c.mode = "signaling" THEN EnterFallback(c)
                  ELSE ScheduleReconnect(c))

IceTimeout ==
    LET c == Cleared(conn, "ice")
    IN /\ Fires("ice")
       /\ Becomes(IF c.transport = "webrtc" THEN c ELSE EnterFallback(c))

ReconnectTimer ==
    /\ Fires("reconnect")
    /\ Becomes(OpenInitial(AllClosed(Cleared(conn, "reconnect"))))

TransportNext ==
    \/ StartTransport \/ Reconnect \/ Dispose
    \/ SocketOpens \/ SocketErrors \/ SocketCloses \/ NoPeer
    \/ ChannelOpens \/ ChannelDies \/ SignalingFails
    \/ ConnectTimeout \/ IceTimeout \/ ReconnectTimer

\* A socket that has failed reports its close, and timers that are set fire.
TransportFairness ==
    /\ WF_transportVars(conn.socket = "failing" /\ SocketCloses)
    /\ WF_transportVars(ConnectTimeout)
    /\ WF_transportVars(IceTimeout)
    /\ WF_transportVars(ReconnectTimer)

TransportSpec == TransportInit /\ [][TransportNext]_transportVars /\ TransportFairness

------------------------------------------------------------------------------
(* Properties                                                                *)

\* A transport that reports itself open has the connection it names, over
\* fallbacks, reconnects and timers left over from earlier attempts, if sockets do
\* not open after their timeout and signalling lasts as long as the channel.
OpenIsReal ==
    conn.status = "open" /\ ~link.slow /\ ~link.loss =>
        \/ conn.transport = "webrtc" /\ conn.channel = "open"
        \/ conn.transport = "websocket" /\ conn.mode = "fallback"
           /\ conn.socket \in {"open", "failing"}

\* A connection attempt comes to an end, whatever the network does: the transport
\* is open, gives up with an error, or is disposed.
ConnectionSettles ==
    conn.status \in {"connecting", "negotiating", "reconnecting"}
        ~> conn.status \in {"open", "error", "closed"}

==============================================================================
