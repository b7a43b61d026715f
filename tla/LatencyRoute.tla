---------------------------- MODULE LatencyRoute ----------------------------
(***************************************************************************)
(* The latency probe endpoint of the dashboard, POST /api/latency          *)
(* (src/unnamed/part_005, lines 25-59): one request, from the parsing of   *)
(* its body to the one answer the handler sends.                           *)
(*                                                                         *)
(* The body is a record of abstract field values: NaN stands for whatever  *)
(* Number() turns into NaN (a missing field, a non-numeric string), Blank  *)
(* for a host that is missing or empty once trimmed. The TCP peer is a     *)
(* nondeterministic "outcome" fixed when the socket opens: it accepts the  *)
(* connection after some milliseconds, refuses it, or never answers. The   *)
(* socket's three callbacks (connect, timeout, error) are actions; each    *)
(* destroys the socket and resolves the promise, so only the first runs.   *)
(***************************************************************************)
EXTENDS Naturals

CONSTANTS
    PortValues,      \* what Number(payload.port) can be
    TimeoutValues,   \* what Number(payload.timeout) can be
    ConnectTimes,    \* delays after which the peer may accept, in ms
    NaN,             \* the number NaN
    Blank,           \* a missing or whitespace-only host
    HostName,        \* a non-empty host
    Refused,         \* the peer refuses (or DNS fails): an 'error' event
    Silent,          \* the peer never answers
    Null             \* JavaScript null

ASSUME ValuesAssumption ==
    /\ PortValues \subseteq Nat \cup {NaN}
    /\ TimeoutValues \subseteq Nat \cup {NaN}
    /\ ConnectTimes \subseteq Nat
    /\ NaN \notin Nat /\ Null \notin Nat
    /\ Refused \notin Nat /\ Silent \notin Nat /\ Refused # Silent

VARIABLES
    phase,      \* "idle", "connecting" (awaiting the promise) or "responded"
    request,    \* the parsed body
    timeout,    \* the idle timeout given to socket.setTimeout
    outcome,    \* how the peer will behave
    socketOpen, \* the socket has not been destroyed
    response    \* the answer: an HTTP status and the body's fields

vars == <<phase, request, timeout, outcome, socketOpen, response>>

Requests ==
    [json: BOOLEAN, host: {Blank, HostName}, port: PortValues,
     timeout: TimeoutValues]

Outcomes == ConnectTimes \cup {Refused, Silent}

Responses ==
    [status: {200, 400, 500}, latency: Nat \cup {Null},
     error: {"none", "invalid-json", "host-port", "timeout", "connect-error",
             "unhandled"}]

NoResponse == [status |-> 200, latency |-> Null, error |-> "none"]

\* Number(x) || d: NaN and 0 are falsy and give the default.
OrDefault(x, d) == IF x = NaN \/ x = 0 THEN d ELSE x

\* Mutant of TimeoutMs: the upper clamp Math.min(..., 10_000) dropped.
TimeoutMsNoUpperClamp(t) ==
    LET v == OrDefault(t, 3000) IN IF v < 500 THEN 500 ELSE v

\* Math.min(Math.max(Number(payload.timeout) || 3000, 500), 10_000)
TimeoutMs(t) ==
    LET v == OrDefault(t, 3000)
        lo == IF v < 500 THEN 500 ELSE v
    IN  IF lo > 10000 THEN 10000 ELSE lo

\* !host || Number.isNaN(port) || port <= 0
Rejected(req) == req.host = Blank \/ req.port = NaN \/ req.port = 0

\* net.createConnection validates the port and throws ERR_SOCKET_BAD_PORT
\* synchronously, inside the promise executor, for a port above 65535.
BadSocketPort(p) == p > 65535

Answer(status, lat, err) ==
    /\ response' = [status |-> status, latency |-> lat, error |-> err]
    /\ phase' = "responded"

Init ==
    /\ phase = "idle"
    /\ request \in Requests
    /\ timeout = 0
    /\ outcome = Silent
    /\ socketOpen = FALSE
    /\ response = NoResponse

\* The handler up to the await: parse, validate, open the socket.
Receive ==
    /\ phase = "idle"
    /\ \/ /\ ~request.json
          /\ Answer(400, Null, "invalid-json")
          /\ UNCHANGED <<timeout, outcome, socketOpen>>
       \/ /\ request.json /\ Rejected(request)
          /\ Answer(400, Null, "host-port")
          /\ UNCHANGED <<timeout, outcome, socketOpen>>
       \/ /\ request.json /\ ~Rejected(request)
          /\ BadSocketPort(request.port)
          /\ Answer(500, Null, "unhandled")
          /\ UNCHANGED <<timeout, outcome, socketOpen>>
       \/ /\ request.json /\ ~Rejected(request)
          /\ ~BadSocketPort(request.port)
          /\ phase' = "connecting"
          /\ timeout' = TimeoutMs(request.timeout)
          /\ outcome' \in Outcomes
          /\ socketOpen' = TRUE
          /\ UNCHANGED response
    /\ UNCHANGED request

\* The connect callback: the peer accepted after `outcome` ms, no later
\* than the idle timeout (at equal times either callback may run first).
OnConnect ==
    /\ phase = "connecting" /\ socketOpen
    /\ outcome \in Nat /\ outcome <= timeout
    /\ socketOpen' = FALSE
    /\ Answer(200, outcome, "none")
    /\ UNCHANGED <<request, timeout, outcome>>

\* Mutant of OnTimeout: the timeout fires only when the peer does answer.
OnTimeoutOnlyIfAnswering ==
    /\ phase = "connecting" /\ socketOpen
    /\ outcome \in Nat /\ outcome >= timeout
    /\ socketOpen' = FALSE
    /\ Answer(200, Null, "timeout")
    /\ UNCHANGED <<request, timeout, outcome>>

\* handleFailure("timeout"): no connection within the idle timeout.
OnTimeout ==
    /\ phase = "connecting" /\ socketOpen
    /\ outcome = Silent \/ (outcome \in Nat /\ outcome >= timeout)
    /\ socketOpen' = FALSE
    /\ Answer(200, Null, "timeout")
    /\ UNCHANGED <<request, timeout, outcome>>

\* handleFailure("connect-error"): the socket's 'error' event.
OnError ==
    /\ phase = "connecting" /\ socketOpen
    /\ outcome = Refused
    /\ socketOpen' = FALSE
    /\ Answer(200, Null, "connect-error")
    /\ UNCHANGED <<request, timeout, outcome>>

Next == Receive \/ OnConnect \/ OnTimeout \/ OnError

\* The handler runs as soon as the request arrives; Node's event loop runs
\* the socket's callbacks once their event has happened.
Spec == Init /\ [][Next]_vars /\ WF_vars(Receive) /\ WF_vars(Next)

-----------------------------------------------------------------------------
(* Properties.                                                            *)

\* Type invariant; the socket's idle timeout is always within [500, 10000].
TypeOK ==
    /\ phase \in {"idle", "connecting", "responded"}
    /\ request \in Requests
    /\ timeout \in {0} \cup 500..10000
    /\ outcome \in Outcomes
    /\ socketOpen \in BOOLEAN
    /\ response \in Responses

\* Every request that gets past validation is answered: the socket's idle
\* timeout bounds the wait even for a peer that never answers.
RequestAnswered == (phase = "connecting") ~> (phase = "responded")

=============================================================================
