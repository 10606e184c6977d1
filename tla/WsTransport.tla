----------------------------- MODULE WsTransport -----------------------------
(***************************************************************************)
(* One MCP connection over a WebSocket: the upgrade handler of index.ts    *)
(* admits it, WebSocketServerTransport of transport/websocket.ts carries   *)
(* the frames, pings, and reports the end once.                            *)
(***************************************************************************)
EXTENDS Naturals, Sequences

CONSTANTS
    PingInterval, PingTimeout,
    Requests,       \* upgrades: path, token (None, "known" or "bad"), and whether over the rate limit
    Configured,     \* credentials are configured
    None,
    MaxTime, MaxFrames      \* bounds of the model

VARIABLES
    now, conn,      \* conn: "new", "open", "closing" or "closed": the socket
    code,           \* the close code the server sent, or None
    closed,         \* WebSocketServerTransport.closed
    pingTimer,      \* when the next ping is due, or None
    lastPongAt, pinged,     \* pinged: the client has a ping to answer
    alive,          \* the client still answers
    ends,           \* history: how often onclose was called
    heard,          \* history: when the client last answered, or came
    frames          \* history: frames received

vars == <<now, conn, code, closed, pingTimer, lastPongAt, pinged, alive, ends, heard, frames>>

Init ==
    /\ now = 0 /\ conn = "new" /\ code = None /\ closed = FALSE /\ pingTimer = None
    /\ lastPongAt = 0 /\ pinged = FALSE /\ alive = TRUE /\ ends = 0 /\ heard = 0 /\ frames = 0

\* gateWsCtx: the close code a refused upgrade gets; None when it is let in.
Refusal(q) ==
    CASE ~Configured -> None
      [] Configured /\ q.token # "known" -> 1008
      [] Configured /\ q.token = "known" /\ q.limited -> 1013
      [] OTHER -> None

\* The upgrade handler: another path is cut off; a refused client is let in to be told why;
\* the transport starts with the socket.
Upgrade(q) ==
    /\ conn = "new"
    /\ IF q.path # "/mcp/ws" THEN conn' = "closed" /\ UNCHANGED <<code, pingTimer, lastPongAt>>
       ELSE IF Refusal(q) # None THEN conn' = "closing" /\ code' = Refusal(q) /\ UNCHANGED <<pingTimer, lastPongAt>>
       ELSE conn' = "open" /\ pingTimer' = now + PingInterval /\ lastPongAt' = now /\ UNCHANGED code
    /\ heard' = now
    /\ UNCHANGED <<now, closed, pinged, alive, ends, frames>>

Started == pingTimer # None \/ closed

\* The message listener: whatever a frame holds, the connection stays as it is.
Frame ==
    /\ conn \in {"open", "closing"} /\ Started /\ alive /\ frames < MaxFrames
    /\ frames' = frames + 1
    /\ UNCHANGED <<now, conn, code, closed, pingTimer, lastPongAt, pinged, alive, ends, heard>>

Pong ==
    /\ alive /\ pinged /\ conn = "open" /\ pinged' = FALSE /\ lastPongAt' = now /\ heard' = now
    /\ UNCHANGED <<now, conn, code, closed, pingTimer, alive, ends, frames>>

\* A slip: a ping counts as an answer.
HeardAtPing == now

\* When the client was last heard, after a ping went out.
Heard == lastPongAt

\* The interval: a client that has been silent for too long is closed on, the others pinged.
Heartbeat ==
    /\ pingTimer # None /\ now >= pingTimer /\ pingTimer' = now + PingInterval
    /\ IF now - lastPongAt > PingTimeout
       THEN conn' = (IF conn = "open" THEN "closing" ELSE conn) /\ code' = 1001 /\ UNCHANGED <<pinged, lastPongAt>>
       ELSE pinged' = TRUE /\ lastPongAt' = Heard /\ UNCHANGED <<conn, code>>
    /\ UNCHANGED <<now, closed, alive, ends, heard, frames>>

\* close, called by the MCP server.
Close ==
    /\ Started /\ ~closed
    /\ closed' = TRUE /\ pingTimer' = None /\ ends' = ends + 1
    /\ conn' = IF conn = "open" THEN "closing" ELSE conn
    /\ code' = IF conn = "open" THEN 1000 ELSE code
    /\ UNCHANGED <<now, lastPongAt, pinged, alive, heard, frames>>

\* handleClose, on the socket's end: the client closes, the handshake ends or times out.
Ended ==
    /\ (conn = "open" /\ alive) \/ conn = "closing"
    /\ conn' = "closed" /\ closed' = Started
    /\ pingTimer' = None /\ ends' = IF Started /\ ~closed THEN ends + 1 ELSE ends
    /\ UNCHANGED <<now, code, lastPongAt, pinged, alive, heard, frames>>

\* The client is cut off without a word.
Dies == alive /\ conn = "open" /\ alive' = FALSE
        /\ UNCHANGED <<now, conn, code, closed, pingTimer, lastPongAt, pinged, ends, heard, frames>>

Tick == /\ now < MaxTime /\ (pingTimer # None => now < pingTimer) /\ now' = now + 1
        /\ UNCHANGED <<conn, code, closed, pingTimer, lastPongAt, pinged, alive, ends, heard, frames>>

Next == \/ \E q \in Requests : Upgrade(q)
        \/ Frame \/ Pong \/ Heartbeat \/ Close \/ Ended \/ Dies \/ Tick

Spec == Init /\ [][Next]_vars
----------------------------------------------------------------------------
(* A client that is not heard of any more is closed on by the first ping     *)
(* after the timeout, one that has answered every ping is not, and onclose   *)
(* is called once, whether the server, the client or the heartbeat is first. *)
SilentIsClosed ==
    /\ conn = "open" => now - heard <= PingTimeout + PingInterval
    /\ code = 1001 => pinged
    /\ ends <= 1
=============================================================================
