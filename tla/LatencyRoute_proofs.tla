------------------------- MODULE LatencyRoute_proofs -------------------------
(***************************************************************************)
(* Proofs about POST /api/latency, for every set of port, timeout and      *)
(* connect-time values.                                                    *)
(*                                                                         *)
(* TypeOK is inductive: the handler's validation answers, the clamped    *)
(* idle timeout and the answers of the three socket callbacks all keep    *)
(* their types.                                                           *)
(***************************************************************************)
EXTENDS LatencyRoute, TLAPS

IInv == TypeOK

LEMMA InitIInv == Init => IInv
<1> SUFFICES ASSUME Init PROVE IInv
  OBVIOUS
<1>1. response \in Responses
  BY DEF Init, NoResponse, Responses
<1>2. outcome \in Outcomes
  BY DEF Init, Outcomes
<1>3. QED
  BY <1>1, <1>2 DEF Init, IInv, TypeOK

\* A step that answers keeps the request, the timeout and the outcome.
LEMMA RespondIInv ==
    ASSUME TypeOK, phase' = "responded", UNCHANGED <<request, timeout, outcome>>,
           socketOpen' \in BOOLEAN, response' \in Responses
    PROVE  IInv'
BY DEF IInv, TypeOK

\* The handler's validation answers are not 200 answers.
LEMMA RejectIInv ==
    ASSUME TypeOK, NEW st \in {400, 500}, NEW err \in {"invalid-json", "host-port", "unhandled"},
           Answer(st, Null, err), UNCHANGED <<request, timeout, outcome, socketOpen>>
    PROVE  IInv'
<1>1. phase' = "responded" /\ response' = [status |-> st, latency |-> Null, error |-> err]
  BY DEF Answer
<1>2. response' \in Responses
  BY <1>1 DEF Responses
<1>3. socketOpen' \in BOOLEAN
  BY DEF TypeOK
<1>4. QED
  BY <1>1, <1>2, <1>3, RespondIInv

LEMMA ReceiveIInv == IInv /\ Receive => IInv'
<1> SUFFICES ASSUME IInv, Receive PROVE IInv'
  OBVIOUS
<1>0. TypeOK
  BY DEF IInv
<1>1. request \in Requests /\ request' = request /\ request.json \in BOOLEAN
  BY DEF IInv, TypeOK, Receive, Requests
<1>2. CASE ~request.json
  <2>1. Answer(400, Null, "invalid-json") /\ UNCHANGED <<timeout, outcome, socketOpen>>
    BY <1>2 DEF Receive
  <2>2. QED
    BY <1>0, <1>1, <2>1, RejectIInv
<1>3. CASE request.json /\ Rejected(request)
  <2>1. Answer(400, Null, "host-port") /\ UNCHANGED <<timeout, outcome, socketOpen>>
    BY <1>3 DEF Receive
  <2>2. QED
    BY <1>0, <1>1, <2>1, RejectIInv
<1>4. CASE request.json /\ ~Rejected(request) /\ BadSocketPort(request.port)
  <2>1. Answer(500, Null, "unhandled") /\ UNCHANGED <<timeout, outcome, socketOpen>>
    BY <1>4 DEF Receive
  <2>2. QED
    BY <1>0, <1>1, <2>1, RejectIInv
<1>5. CASE request.json /\ ~Rejected(request) /\ ~BadSocketPort(request.port)
  <2>1. /\ phase' = "connecting" /\ timeout' = TimeoutMs(request.timeout)
        /\ outcome' \in Outcomes /\ socketOpen' = TRUE /\ response' = response
    BY <1>5 DEF Receive, Answer
  <2>2. request.timeout \in Nat \cup {NaN}
    BY <1>1, ValuesAssumption DEF Requests
  <2>3. timeout' \in 500..10000
    <3>0. PICK x \in Nat : x = OrDefault(request.timeout, 3000)
      BY ONLY <2>2 DEF OrDefault
    <3> DEFINE lo == IF x < 500 THEN 500 ELSE x
    <3>1. timeout' = IF lo > 10000 THEN 10000 ELSE lo
      BY ONLY <2>1, <3>0 DEF TimeoutMs
    <3>2. lo \in Nat /\ lo >= 500
      BY ONLY <3>0, SMT
    <3>3. QED
      BY ONLY <3>1, <3>2, SMT
  <2>4. TypeOK'
    <3>1. phase' \in {"idle", "connecting", "responded"} /\ socketOpen' \in BOOLEAN
      BY ONLY <2>1
    <3>2. request' \in Requests /\ outcome' \in Outcomes
      BY ONLY <1>1, <2>1
    <3>3. timeout' \in {0} \cup 500..10000
      BY ONLY <2>3
    <3>4. response' \in Responses
      BY ONLY <1>0, <2>1 DEF TypeOK
    <3>5. QED
      BY ONLY <3>1, <3>2, <3>3, <3>4 DEF TypeOK
  <2>5. QED
    BY <2>4 DEF IInv
<1>6. QED
  BY <1>1, <1>2, <1>3, <1>4, <1>5

\* The three socket callbacks write a 200 answer and close the socket.
LEMMA CallbackIInv ==
    ASSUME IInv, OnConnect \/ OnTimeout \/ OnError
    PROVE  IInv'
<1>0. TypeOK /\ outcome \in Outcomes /\ timeout \in Nat
  BY DEF IInv, TypeOK
<1>1. /\ UNCHANGED <<request, timeout, outcome>> /\ socketOpen' = FALSE
      /\ phase' = "responded"
  BY DEF OnConnect, OnTimeout, OnError, Answer
<1>2. CASE OnConnect
  <2>1. outcome \in Nat /\ outcome <= timeout
        /\ response' = [status |-> 200, latency |-> outcome, error |-> "none"]
    BY <1>2 DEF OnConnect, Answer
  <2>2. response' \in Responses
    BY <2>1 DEF Responses
  <2>3. QED
    BY <1>0, <1>1, <2>2, RespondIInv
<1>3. CASE OnTimeout
  <2>1. (outcome = Silent \/ (outcome \in Nat /\ outcome >= timeout))
        /\ response' = [status |-> 200, latency |-> Null, error |-> "timeout"]
    BY <1>3 DEF OnTimeout, Answer
  <2>2. response' \in Responses
    BY <2>1 DEF Responses
  <2>3. QED
    BY <1>0, <1>1, <2>2, RespondIInv
<1>4. CASE OnError
  <2>1. outcome = Refused
        /\ response' = [status |-> 200, latency |-> Null, error |-> "connect-error"]
    BY <1>4 DEF OnError, Answer
  <2>2. response' \in Responses
    BY <2>1 DEF Responses
  <2>3. QED
    BY <1>0, <1>1, <2>2, RespondIInv
<1>5. QED
  BY <1>2, <1>3, <1>4

LEMMA IInvStep == IInv /\ [Next]_vars => IInv'
<1> SUFFICES ASSUME IInv, [Next]_vars PROVE IInv'
  OBVIOUS
<1>1. CASE Receive
  BY <1>1, ReceiveIInv
<1>2. CASE OnConnect \/ OnTimeout \/ OnError
  BY <1>2, CallbackIInv
<1>3. CASE UNCHANGED vars
  BY <1>3 DEF vars, IInv, TypeOK
<1>4. QED
  BY <1>1, <1>2, <1>3 DEF Next

\* Type correctness of the handler: in particular the idle timeout given
\* to socket.setTimeout is within [500, 10000] for every request body.
THEOREM TypeCorrect == Spec => []TypeOK
BY InitIInv, IInvStep, PTL DEF Spec, IInv

=============================================================================
