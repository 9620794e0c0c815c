------------------------------- MODULE IrLearn ------------------------------
(***************************************************************************)
(* The IR learn path of InfraredService (src/lib/service_ir/service_ir.cpp)*)
(*                                                                         *)
(*  - API clients and GlobalCache sockets call startIrLearn() and          *)
(*    stopIrLearn(), which set and clear IR_LEARNING_BIT;                  *)
(*  - the IR receiver captures a signal while it is enabled and holds it   *)
(*    until decode() reads it;                                             *)
(*  - the "IR learn" task learn_ir_f waits for the bit, enables the        *)
(*    receiver, then loops: check the bit, sleep 100 ms, decode, classify  *)
(*    and broadcast a learned code on m_apiResponseQueue;                  *)
(*  - the API main loop pops m_apiResponseQueue and broadcasts it;         *)
(*  - WebSocket clients of the API (src/lib/service_api/service_api.cpp)   *)
(*    connect under a client number, authenticate with the token and send  *)
(*    ir_receive_on / ir_receive_off; the API keeps the authenticated      *)
(*    numbers in m_authWsClients;                                          *)
(*  - ir_send requests of WebSocket, serial and Bluetooth clients take the *)
(*    one-slot send path, abstracted to SendSlot (IrSend has the           *)
(*    details); the send task's completion shares m_apiResponseQueue with  *)
(*    the learned codes, and API::loop routes it by its clientId.          *)
(*                                                                         *)
(* The bit is checked once per iteration, before the sleep; what happens   *)
(* to the bit during the sleep is not seen until the next iteration.       *)
(***************************************************************************)
EXTENDS Integers, Sequences, Functions

CONSTANTS
    Signals,      \* what a capture decodes to (model values)
    GoodSignals,  \* captures that decode to a known protocol and value
    MaxSessions,  \* bound on the learning sessions (0 -> 1 bit changes)
    MaxSignals,   \* bound on the IR signals that reach the receiver
    RespCap,      \* capacity of m_apiResponseQueue (5 in the code)
    ClientNums,   \* WebSocket client numbers of the API server
    MaxConnects   \* bound on the WebSocket connections opened

ASSUME /\ GoodSignals \subseteq Signals
       /\ MaxSessions \in Nat \ {0}
       /\ MaxSignals \in Nat \ {0}
       /\ RespCap \in Nat \ {0}
       /\ MaxConnects \in Nat

\* A capture held by the receiver: its number and what it decodes to.
Captures == [id : 1..MaxSignals, sig : Signals]
NoCapture == [id |-> 0, sig |-> CHOOSE s \in Signals : TRUE]

\* An ir_send message in m_queue: its clientId (the WebSocket client number,
\* -1 for a serial or Bluetooth request) and, as history, the connection
\* that sent it (0 for none).
SendReqs == [num : ClientNums \cup {-1}, conn : 0..MaxConnects]
NoSend == [num |-> -1, conn |-> -1]

\* An IrResponse in m_apiResponseQueue: clientId, the requesting connection
\* and the learned capture (NoCapture for an ir_send completion).
ApiResponses ==
    [num : ClientNums \cup {-1}, conn : 0..MaxConnects,
     cap : Captures \cup {NoCapture}]

VARIABLES
    learning,   \* IR_LEARNING_BIT of m_eventgroup
    lpc,        \* learn task: "wait", "check" or "decode"
    rxEnabled,  \* irrecv enabled (enableIRIn / disableIRIn)
    buffer,     \* the capture irrecv holds for decode(), or NoCapture
    result,     \* last setState() of the task: "none", "ok" or "failed"
    responses,  \* m_apiResponseQueue: learned codes and ir_send results
    slot,       \* m_queue: the ir_send message being sent, or NoSend
    wsConn,     \* per client number: the connection using it, 0 if free
    authWs,     \* m_authWsClients
    \* history variables, not state of the program
    session,    \* number of learning sessions started so far
    signals,    \* number of IR signals that reached the receiver
    reported,   \* the captures broadcast, in order
    connects,   \* number of WebSocket connections opened (their ids)
    authed,     \* connections that sent the right token
    commanded,  \* connections whose ir_receive_on/off was executed
    delivered   \* ir_send results written to a connection other than the
                \* requesting one: requesting and receiving connection

wsVars == <<wsConn, authWs, connects, authed, commanded>>
sendVars == <<slot, delivered>>
vars == <<learning, lpc, rxEnabled, buffer, result, responses,
          session, signals, reported, wsVars, sendVars>>

TypeOK ==
    /\ learning \in BOOLEAN
    /\ lpc \in {"wait", "check", "decode"}
    /\ rxEnabled \in BOOLEAN
    /\ buffer \in Captures \cup {NoCapture}
    /\ result \in {"none", "ok", "failed"}
    /\ responses \in Seq(ApiResponses) /\ Len(responses) <= RespCap
    /\ slot \in SendReqs \cup {NoSend}
    /\ delivered \subseteq [req : 0..MaxConnects, to : 1..MaxConnects]
    /\ session \in 0..MaxSessions
    /\ signals \in 0..MaxSignals
    /\ reported \in Seq(Captures)
    /\ wsConn \in [ClientNums -> 0..MaxConnects]
    /\ authWs \subseteq ClientNums
    /\ connects \in 0..MaxConnects
    /\ authed \subseteq 1..MaxConnects /\ commanded \subseteq 1..MaxConnects

Init ==
    /\ learning = FALSE
    /\ lpc = "wait"
    /\ rxEnabled = FALSE
    /\ buffer = NoCapture
    /\ result = "none"
    /\ responses = <<>>
    /\ session = 0 /\ signals = 0 /\ reported = <<>>
    /\ wsConn = [n \in ClientNums |-> 0]
    /\ authWs = {}
    /\ connects = 0 /\ authed = {} /\ commanded = {}
    /\ slot = NoSend /\ delivered = {}

\* The send path as the one-slot sender it implements.
Send == INSTANCE SendSlot WITH Msgs <- SendReqs, None <- NoSend

-----------------------------------------------------------------------------
(***************************************************************************)
(* Callers.                                                                *)
(***************************************************************************)

\* startIrLearn(): xEventGroupSetBits(IR_LEARNING_BIT).  A set while the bit
\* is already set does not start a new session.  (Its setState(IR_LEARNING)
\* is modelled in DockState.)
StartIrLearn ==
    /\ learning \/ session < MaxSessions
    /\ learning' = TRUE
    /\ session' = IF learning THEN session ELSE session + 1

\* stopIrLearn(): xEventGroupClearBits(IR_LEARNING_BIT).
StopIrLearn ==
    /\ learning' = FALSE
    /\ UNCHANGED session

learnVars == <<lpc, rxEnabled, buffer, result, responses, signals, reported>>

\* A GlobalCache socket task handling get_IRL or stop_IRL: no
\* authentication.
GcLearnCommand ==
    /\ StartIrLearn \/ StopIrLearn
    /\ UNCHANGED <<wsVars, learnVars, sendVars>>

-----------------------------------------------------------------------------
(***************************************************************************)
(* The API's WebSocket clients (API::init's onEvent, processWsRequest,    *)
(* processRequest).  Text requests that change no modelled state (JSON    *)
(* errors, get_sysinfo, ping, the 401 reply of an unauthenticated command)*)
(* are left out.                                                           *)
(***************************************************************************)

\* WStype_CONNECTED: the server gives a free client number to a new
\* connection and sends it auth_required.
WsConnect(n) ==
    /\ wsConn[n] = 0
    /\ connects < MaxConnects
    /\ connects' = connects + 1
    /\ wsConn' = [wsConn EXCEPT ![n] = connects + 1]
    /\ UNCHANGED <<authWs, authed, commanded, learning, session, learnVars,
                   sendVars>>

\* Mutant: the disconnect handler does not forget the client number.
AuthAfterDisconnectKept(n) == authWs

\* WStype_DISCONNECTED: m_authWsClients.erase(num).
AuthAfterDisconnect(n) == authWs \ {n}

\* The connection of client n ends: the peer closes it, or the server
\* disconnects it (a fragment or binary frame, an invalid token).  The
\* library raises WStype_DISCONNECTED, which erases the number.
WsDisconnect(n) ==
    /\ wsConn[n] # 0
    /\ wsConn' = [wsConn EXCEPT ![n] = 0]
    /\ authWs' = AuthAfterDisconnect(n)
    /\ UNCHANGED <<connects, authed, commanded, learning, session, learnVars,
                   sendVars>>

\* {"type":"auth","token":..}: the right token adds the client number to
\* m_authWsClients; a wrong one is answered 401 and the client is
\* disconnected.
WsAuth(n, tokenOk) ==
    /\ wsConn[n] # 0
    /\ IF tokenOk
         THEN /\ authWs' = authWs \cup {n}
              /\ authed' = authed \cup {wsConn[n]}
              /\ UNCHANGED wsConn
         ELSE /\ wsConn' = [wsConn EXCEPT ![n] = 0]
              /\ authWs' = AuthAfterDisconnect(n)
              /\ UNCHANGED authed
    /\ UNCHANGED <<connects, commanded, learning, session, learnVars,
                   sendVars>>

\* processWsRequest: authenticated iff the number is in m_authWsClients.
Authenticated(n) == n \in authWs

\* {"type":"dock","command":"ir_receive_on" / "ir_receive_off"} of an
\* authenticated client calls startIrLearn() / stopIrLearn().
WsLearnCommand(n) ==
    /\ wsConn[n] # 0
    /\ Authenticated(n)
    /\ StartIrLearn \/ StopIrLearn
    /\ commanded' = commanded \cup {wsConn[n]}
    /\ UNCHANGED <<wsConn, authWs, connects, authed, learnVars, sendVars>>

\* An IR signal reaches the receiver.  irrecv captures it only while it is
\* enabled and its buffer is free (decode() resumes the capture).
IrSignal(s) ==
    /\ signals < MaxSignals
    /\ signals' = signals + 1
    /\ buffer' = IF rxEnabled /\ buffer = NoCapture
                   THEN [id |-> signals + 1, sig |-> s]
                   ELSE buffer
    /\ UNCHANGED <<wsVars, learning, lpc, rxEnabled, result, responses, session,
                   reported, sendVars>>

-----------------------------------------------------------------------------
(***************************************************************************)
(* The IR learn task learn_ir_f.                                           *)
(***************************************************************************)

\* #62: the decode() right after enableIRIn() drops what irrecv still held.
EnableClearBuffer == NoCapture

\* xEventGroupWaitBits returns once IR_LEARNING_BIT is set; enableIRIn()
\* and a decode() that discards an old capture.
LearnStart ==
    /\ lpc = "wait"
    /\ learning
    /\ rxEnabled' = TRUE
    /\ buffer' = EnableClearBuffer
    /\ lpc' = "check"
    /\ UNCHANGED <<wsVars, learning, result, responses, session, signals, reported,
                   sendVars>>

\* Mutant: the loop ends without disabling the receiver.
LoopEndKeepReceiver == rxEnabled

\* disableIRIn() when the loop ends.
LoopEndDisable == FALSE

\* The while condition: with the bit set, sleep 100 ms and go on to decode;
\* with the bit clear, leave the loop and disableIRIn().
LearnCheck ==
    /\ lpc = "check"
    /\ IF learning
         THEN /\ lpc' = "decode"
              /\ UNCHANGED rxEnabled
         ELSE /\ lpc' = "wait"
              /\ rxEnabled' = LoopEndDisable
    /\ UNCHANGED <<wsVars, learning, buffer, result, responses, session, signals,
                   reported, sendVars>>

\* decode() hands over the capture and resumes capturing.
DecodeTake == NoCapture

\* Mutant: the broadcast does not wait for room (an unbounded queue).
ResponseQueueUnbounded == TRUE

\* xQueueSendToBack with a 10 ms timeout succeeds only while there is room.
ResponseQueueHasRoom == Len(responses) < RespCap

\* After the sleep: decode(); nothing captured -> next iteration.  A
\* capture that fails the checks (overflow, unknown protocol, value 0 or
\* all ones) is setState(IR_LEARN_FAILED); a good one is setState(
\* IR_LEARN_OK) and broadcast, the broadcast dropped when m_apiResponseQueue
\* stays full for 10 ms.  The bit is not looked at.
LearnDecode ==
    /\ lpc = "decode"
    /\ lpc' = "check"
    /\ IF buffer = NoCapture
         THEN UNCHANGED <<buffer, result, responses, reported>>
         ELSE /\ buffer' = DecodeTake
              /\ IF buffer.sig \in GoodSignals
                   THEN /\ result' = "ok"
                        /\ responses' = IF ResponseQueueHasRoom
                                          THEN Append(responses,
                                                 [num |-> -1, conn |-> 0, cap |-> buffer])
                                          ELSE responses
                        /\ reported' = Append(reported, buffer)
                   ELSE /\ result' = "failed"
                        /\ UNCHANGED <<responses, reported>>
    /\ UNCHANGED <<wsVars, learning, rxEnabled, session, signals, sendVars>>

\* {"type":"dock","command":"ir_send"} of an authenticated client: send()
\* with clientId = the client number takes the free send slot and the reply
\* comes later.  While learning (503) or while m_queue holds a message
\* (429) the reply is given at once to the same connection: no change.
WsIrSend(n) ==
    /\ wsConn[n] # 0
    /\ Authenticated(n)
    /\ ~learning
    /\ Send!Take([num |-> n, conn |-> wsConn[n]])
    /\ UNCHANGED <<wsVars, learning, session, learnVars, delivered>>

\* ir_send over the serial port or Bluetooth: processRequest with the
\* default id -1, which becomes the message's clientId.
SerialIrSend ==
    /\ ~learning
    /\ Send!Take([num |-> -1, conn |-> 0])
    /\ UNCHANGED <<wsVars, learning, session, learnVars, delivered>>

\* The send task finishes the message: an IrResponse with the message's
\* clientId is posted (dropped if m_apiResponseQueue stays full for 10 ms)
\* and m_queue is emptied.
SendTaskComplete ==
    /\ Send!Finish
    /\ responses' = IF ResponseQueueHasRoom
                       THEN Append(responses,
                                   [num |-> slot.num, conn |-> slot.conn, cap |-> NoCapture])
                       ELSE responses
    /\ UNCHANGED <<wsVars, learning, lpc, rxEnabled, buffer, result, session,
                   signals, reported, delivered>>

\* Mutant: client number 0 taken for a broadcast.
ForClientPositive(r) == r.num > 0

\* API::loop: a response with clientId >= 0 goes to that client number.
ForClient(r) == r.num >= 0

\* The connections a response reaches: sendTXT to the connection that now
\* holds the client number, else broadcastTXT to every open connection.
Receivers(r) == IF ForClient(r) THEN {wsConn[r.num]} \ {0} ELSE Range(wsConn) \ {0}

\* API::loop: pop a response, apiResponse() and send or broadcast it.
ApiLoop ==
    /\ responses # <<>>
    /\ responses' = Tail(responses)
    /\ LET r == Head(responses) IN
         delivered' = IF r.cap = NoCapture
                        THEN delivered \cup {[req |-> r.conn, to |-> k] :
                                               k \in Receivers(r) \ {r.conn}}
                        ELSE delivered
    /\ UNCHANGED <<wsVars, learning, lpc, rxEnabled, buffer, result, session,
                   signals, reported, slot>>

-----------------------------------------------------------------------------
LearnTask == LearnStart \/ LearnCheck \/ LearnDecode

WsClient(n) ==
    \/ WsConnect(n)
    \/ WsDisconnect(n)
    \/ \E ok \in BOOLEAN : WsAuth(n, ok)
    \/ WsLearnCommand(n)
    \/ WsIrSend(n)

Next ==
    \/ GcLearnCommand
    \/ \E n \in ClientNums : WsClient(n)
    \/ \E s \in Signals : IrSignal(s)
    \/ SerialIrSend
    \/ LearnTask
    \/ SendTaskComplete
    \/ ApiLoop

\* The learn task sleeps only for 100 ms and otherwise blocks only on the
\* bit; the send task finishes a message without waiting on anyone; the API
\* loop runs every main-loop iteration.  Users, WebSocket clients and IR
\* remotes need not do anything.
Fairness == WF_vars(LearnTask) /\ WF_vars(SendTaskComplete) /\ WF_vars(ApiLoop)

Spec == Init /\ [][Next]_vars /\ Fairness

-----------------------------------------------------------------------------
(***************************************************************************)
(* Properties.                                                             *)
(***************************************************************************)

\* After stopIrLearn() the learn task eventually disables the receiver
\* (unless learning is started again): the IR receiver is not left on.
ReceiverEventuallyOff == (~learning) ~> (~rxEnabled \/ learning)

\* Learning is switched on or off from the API only by a connection that
\* itself presented the right token: a client number that a closed,
\* authenticated connection leaves behind and a new connection reuses
\* must not carry the old connection's m_authWsClients entry over.
CommandsOnlyAuthenticated == commanded \subseteq authed

\* An ir_send result is written to a connection other than the one that
\* asked for it only once that connection has closed: API::loop sends it to
\* the client number stored in the message, and the server hands a freed
\* number to the next connection.  Serial and Bluetooth results (clientId
\* -1) are broadcast and asked for by no connection.
SendResultMisdirectedOnlyAfterClose ==
    \A d \in delivered : d.req # 0 => (d.to = d.req \/ d.req \notin Range(wsConn))

=============================================================================
