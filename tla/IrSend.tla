------------------------------- MODULE IrSend -------------------------------
(***************************************************************************)
(* The IR send path of InfraredService (src/lib/service_ir/service_ir.cpp) *)
(*                                                                         *)
(*  - caller tasks (the API main loop, GlobalCache socket tasks) call      *)
(*    InfraredService::send(), stopSend(), startIrLearn(), stopIrLearn(); *)
(*  - the "IR send" task send_ir_f peeks the one-slot queue m_queue,       *)
(*    transmits, consults the repeat callback between frames, posts the   *)
(*    completion to m_apiResponseQueue and resets m_queue;                 *)
(*  - the API main loop pops m_apiResponseQueue (apiResponse, API::loop).  *)
(*                                                                         *)
(* send() is not atomic: it reads the queue and m_currentSendCode, clears  *)
(* the repeat/stop event bits, enqueues and only then writes              *)
(* m_currentSendCode.  Each of these is a separate step of the caller.     *)
(***************************************************************************)
EXTENDS Integers, Sequences, FiniteSets, Functions

CONSTANTS
    Callers,     \* tasks calling InfraredService::send (model values)
    GcCallers,   \* the callers that are GlobalCache sockets (IR_CLIENT_GC)
    Codes,       \* IR code strings a caller may send (model values)
    ValidCodes,  \* codes that parse and whose protocol the library sends
    Repeats,     \* repeat counts a caller may pass
    RespCap,     \* capacity of m_apiResponseQueue (5 in the code)
    MaxCalls,    \* bound on the number of send() calls (ids 1..MaxCalls)
    NoCode       \* the empty initial value of m_currentSendCode

ASSUME /\ Callers # {}
       /\ GcCallers \subseteq Callers
       /\ ValidCodes \subseteq Codes
       /\ Repeats \subseteq Nat
       /\ RespCap \in Nat \ {0}
       /\ MaxCalls \in Nat \ {0}
       /\ NoCode \notin Codes

\* The event bits of m_eventgroup used by the IR service.
IR_LEARNING_BIT == "learning"
IR_REPEAT_BIT == "repeat"
IR_REPEAT_STOP_BIT == "stop"
EventBits == {IR_LEARNING_BIT, IR_REPEAT_BIT, IR_REPEAT_STOP_BIT}

\* An IRSendMessage: msgId (unique per call here), clientId, code, repeat.
Msgs == [id : 1..MaxCalls, client : Callers, code : Codes, repeat : Repeats]

\* A response posted to m_apiResponseQueue: the requester, msgId, success.
Responses == [client : Callers, id : 1..MaxCalls, ok : BOOLEAN]

VARIABLES
    queue,           \* m_queue, a FreeRTOS queue of length 1
    bits,            \* the bits of m_eventgroup that are set
    currentSendCode, \* m_currentSendCode
    cpc,             \* per caller: where it is inside send()
    carg,            \* per caller: the message being built by send()
    calls,           \* number of send() calls so far (next msgId - 1)
    spc,             \* send task: "wait", "transmit" or "complete"
    sMsg,            \* send task: pIrMsg, the message peeked from m_queue
    repeat,          \* send task: `repeat` captured by the callback
    repeatLimit,     \* send task: `repeatLimit` captured by the callback
    callback,        \* send task: whether a repeat callback is installed
    success,         \* send task: `success` of the current message
    responses,       \* m_apiResponseQueue
    \* history variables, not state of the program
    accepted,        \* msgIds for which send() returned 0
    completed,       \* msgIds in the order the send task completed them
    stopped          \* msgIds that were in m_queue when stopSend() ran

callerVars == <<cpc, carg, calls>>
taskVars == <<spc, sMsg, repeat, repeatLimit, callback, success>>
historyVars == <<accepted, completed, stopped>>
vars == <<queue, bits, currentSendCode, responses,
          callerVars, taskVars, historyVars>>

NoMsg == [id |-> 0, client |-> CHOOSE c \in Callers : TRUE,
          code |-> NoCode, repeat |-> 0]

TypeOK ==
    /\ queue \in Seq(Msgs) /\ Len(queue) <= 1
    /\ bits \subseteq EventBits
    /\ currentSendCode \in Codes \cup {NoCode}
    /\ cpc \in [Callers -> {"idle", "enqueue", "commit"}]
    /\ carg \in [Callers -> Msgs \cup {NoMsg}]
    /\ calls \in 0..MaxCalls
    /\ spc \in {"wait", "transmit", "complete"}
    /\ sMsg \in Msgs \cup {NoMsg}
    /\ repeat \in Nat /\ repeatLimit \in Nat
    /\ callback \in BOOLEAN /\ success \in BOOLEAN
    /\ responses \in Seq(Responses) /\ Len(responses) <= RespCap
    /\ accepted \subseteq 1..MaxCalls
    /\ completed \in Seq(1..MaxCalls)
    /\ stopped \subseteq 1..MaxCalls

-----------------------------------------------------------------------------
Init ==
    /\ queue = <<>>
    /\ bits = {}
    /\ currentSendCode = NoCode
    /\ cpc = [c \in Callers |-> "idle"]
    /\ carg = [c \in Callers |-> NoMsg]
    /\ calls = 0
    /\ spc = "wait"
    /\ sMsg = NoMsg
    /\ repeat = 0 /\ repeatLimit = 0
    /\ callback = FALSE /\ success = FALSE
    /\ responses = <<>>
    /\ accepted = {} /\ completed = <<>> /\ stopped = {}

\* isIrLearning()
IsIrLearning == IR_LEARNING_BIT \in bits

\* uxQueueMessagesWaiting(m_queue) > 0
Sending == Len(queue) > 0

\* #65: a call is an IR repeat if something is being sent, it has a repeat
\* count and its code equals m_currentSendCode.
IsRepeatOf(code, rep) == Sending /\ rep > 0 /\ currentSendCode = code

(***************************************************************************)
(* Caller side.                                                            *)
(***************************************************************************)

\* The first part of send(), up to the decision to queue a new message:
\* the learning check, the argument checks (pin mask, format), the read of
\* m_queue and the repeat detection against m_currentSendCode.  `argsOk`
\* stands for a non-zero pin mask and a known format.
Send(c, code, rep, argsOk) ==
    /\ cpc[c] = "idle"
    /\ calls < MaxCalls
    /\ calls' = calls + 1
    /\ LET m == [id |-> calls + 1, client |-> c, code |-> code, repeat |-> rep]
       IN  CASE IsIrLearning ->                     \* 503
                  /\ UNCHANGED <<bits, cpc, carg>>
             [] ~argsOk ->                          \* 400
                  /\ UNCHANGED <<bits, cpc, carg>>
             [] IsRepeatOf(code, rep) ->                \* 202
                  /\ bits' = bits \cup {IR_REPEAT_BIT}
                  /\ UNCHANGED <<cpc, carg>>
             [] Sending ->                          \* 429
                  /\ UNCHANGED <<bits, cpc, carg>>
             [] OTHER ->
                  /\ cpc' = [cpc EXCEPT ![c] = "enqueue"]
                  /\ carg' = [carg EXCEPT ![c] = m]
                  /\ UNCHANGED bits
    /\ UNCHANGED <<queue, currentSendCode, responses, taskVars,
                   historyVars>>

\* send(): clear the repeat and stop bits, then xQueueSendToBack with no
\* wait; a full queue (another caller got in first) returns 429.
SendQueue(c) ==
    /\ cpc[c] = "enqueue"
    /\ bits' = bits \ {IR_REPEAT_BIT, IR_REPEAT_STOP_BIT}
    /\ IF Len(queue) = 0
         THEN /\ queue' = <<carg[c]>>
              /\ cpc' = [cpc EXCEPT ![c] = "commit"]
         ELSE /\ cpc' = [cpc EXCEPT ![c] = "idle"]
              /\ UNCHANGED queue
    /\ UNCHANGED <<currentSendCode, carg, calls, responses, taskVars,
                   historyVars>>

\* send(): m_currentSendCode = code; return 0.
SendSetCurrentCode(c) ==
    /\ cpc[c] = "commit"
    /\ currentSendCode' = carg[c].code
    /\ cpc' = [cpc EXCEPT ![c] = "idle"]
    /\ accepted' = accepted \cup {carg[c].id}
    /\ UNCHANGED <<queue, bits, carg, calls, responses, taskVars,
                   completed, stopped>>

\* stopSend(): set the stop bit, clear the repeat bit.
StopSend(c) ==
    /\ cpc[c] = "idle"
    /\ bits' = (bits \cup {IR_REPEAT_STOP_BIT}) \ {IR_REPEAT_BIT}
    /\ stopped' = IF Sending THEN stopped \cup {Head(queue).id} ELSE stopped
    /\ UNCHANGED <<queue, currentSendCode, responses, callerVars, taskVars,
                   accepted, completed>>

\* startIrLearn() / stopIrLearn(): the learning bit (m_state is modelled in
\* DockState).
StartIrLearn(c) ==
    /\ cpc[c] = "idle"
    /\ bits' = bits \cup {IR_LEARNING_BIT}
    /\ UNCHANGED <<queue, currentSendCode, responses, callerVars, taskVars,
                   historyVars>>

StopIrLearn(c) ==
    /\ cpc[c] = "idle"
    /\ bits' = bits \ {IR_LEARNING_BIT}
    /\ UNCHANGED <<queue, currentSendCode, responses, callerVars, taskVars,
                   historyVars>>

(***************************************************************************)
(* The IR send task send_ir_f.                                             *)
(***************************************************************************)

\* xQueuePeek blocks until m_queue holds a message, which stays queued; the
\* repeat callback is installed iff the message has a repeat count.
SendTaskPeek ==
    /\ spc = "wait"
    /\ Len(queue) > 0
    /\ sMsg' = Head(queue)
    /\ callback' = (Head(queue).repeat > 0)
    /\ repeatLimit' = IF Head(queue).repeat > 0 THEN Head(queue).repeat
                                                ELSE repeatLimit
    /\ repeat' = IF Head(queue).repeat > 0 THEN Head(queue).repeat ELSE repeat
    /\ success' = FALSE
    /\ spc' = "transmit"
    /\ UNCHANGED <<queue, bits, currentSendCode, responses, callerVars,
                   historyVars>>

\* The switch over the format when no repeat callback runs: a code that
\* does not parse is not sent (success stays false); a valid code is sent
\* once by the library.
SendTaskTransmit ==
    /\ spc = "transmit"
    /\ sMsg.code \notin ValidCodes \/ ~callback
    /\ success' = (sMsg.code \in ValidCodes)
    /\ spc' = "complete"
    /\ UNCHANGED <<queue, bits, currentSendCode, responses, callerVars,
                   sMsg, repeat, repeatLimit, callback, historyVars>>

\* The callback's counter after it read the event bits: stop sets it to 0,
\* repeat reloads it with repeatLimit.
CallbackCount ==
    IF IR_REPEAT_STOP_BIT \in bits THEN 0
    ELSE IF IR_REPEAT_BIT \in bits THEN repeatLimit
    ELSE repeat

\* Mutant: the callback does not clear the repeat bit it consumed.
CallbackBitsKeepRepeat == bits

\* The event bits after the callback: a consumed repeat bit is cleared.
CallbackBits ==
    IF IR_REPEAT_STOP_BIT \notin bits THEN bits \ {IR_REPEAT_BIT} ELSE bits

\* The repeat callback, consulted by the library after each frame of a valid
\* code: stop wins over repeat; repeat reloads the counter and clears its
\* bit; a positive counter is decremented and asks for one more frame.
\* Returning false ends irsend.send(), which reports success.
RepeatCallback ==
    /\ spc = "transmit"
    /\ callback /\ sMsg.code \in ValidCodes
    /\ LET r == CallbackCount
       IN  /\ bits' = CallbackBits
           /\ IF r > 0
                THEN /\ repeat' = r - 1
                     /\ UNCHANGED <<spc, success>>
                ELSE /\ repeat' = r
                     /\ spc' = "complete"
                     /\ success' = TRUE
    /\ UNCHANGED <<queue, currentSendCode, responses, callerVars,
                   sMsg, repeatLimit, callback, historyVars>>

\* Mutant: the queue slot is not released after the message is served.
KeepQueue == queue' = queue

\* delete pIrMsg; xQueueReset(m_queue): release the slot for the next send.
ReleaseQueue == queue' = <<>>

\* Mutant: the post does not wait for room (an unbounded queue).
ResponseQueueUnbounded == TRUE

\* xQueueSendToBack with a 10 ms timeout succeeds only while the response
\* queue has room (the API loop is not modelled as running within 10 ms).
ResponseQueueHasRoom == Len(responses) < RespCap

\* The ir_send response for an API client, posted to m_apiResponseQueue
\* unless the queue stays full for the 10 ms timeout; a GlobalCache
\* client gets "completeir" on its socket instead (see GcServer).
PostResponse ==
    responses' =
        IF sMsg.client \notin GcCallers /\ ResponseQueueHasRoom
          THEN Append(responses,
                      [client |-> sMsg.client, id |-> sMsg.id, ok |-> success])
          ELSE responses

\* Remove the callback, answer the client, delete the message and
\* xQueueReset(m_queue).
SendTaskComplete ==
    /\ spc = "complete"
    /\ callback' = FALSE
    /\ PostResponse
    /\ ReleaseQueue
    /\ spc' = "wait"
    /\ completed' = Append(completed, sMsg.id)
    /\ UNCHANGED <<bits, currentSendCode, callerVars, sMsg, repeat,
                   repeatLimit, success, accepted, stopped>>

(***************************************************************************)
(* The consumer: API::loop() calls apiResponse() once per iteration.       *)
(***************************************************************************)
ApiLoop ==
    /\ responses # <<>>
    /\ responses' = Tail(responses)
    /\ UNCHANGED <<queue, bits, currentSendCode, callerVars, taskVars,
                   historyVars>>

-----------------------------------------------------------------------------
CallerNext ==
    \E c \in Callers :
        \/ \E code \in Codes, rep \in Repeats, ok \in BOOLEAN :
              Send(c, code, rep, ok)
        \/ SendQueue(c)
        \/ SendSetCurrentCode(c)
        \/ StopSend(c)
        \/ StartIrLearn(c)
        \/ StopIrLearn(c)

SendTaskNext ==
    \/ SendTaskPeek
    \/ SendTaskTransmit
    \/ RepeatCallback
    \/ SendTaskComplete

Next == CallerNext \/ SendTaskNext \/ ApiLoop

\* The send task and the API loop are scheduled whenever they can run
\* (they only block on their queues); callers need not call anything.
Fairness == WF_vars(SendTaskNext) /\ WF_vars(ApiLoop)

Spec == Init /\ [][Next]_vars /\ Fairness

-----------------------------------------------------------------------------
(***************************************************************************)
(* Properties.                                                             *)
(***************************************************************************)

\* No message is transmitted and completed twice: every completion of the
\* send task is for a different msgId (xQueueReset must release the slot
\* the task just served before it peeks again).
CompletedOnce == IsInjective(completed)

\* stopSend() issued while a message is queued ends its transmission: the
\* repeat callback never asks for another frame of a stopped message.
StopHonoured ==
    [][RepeatCallback /\ sMsg.id \in stopped => spc' = "complete"]_vars

\* Every message send() accepted (returned 0 for) is eventually completed by
\* the send task, however callers interleave repeats and stops.
AcceptedEventuallyCompleted ==
    \A i \in 1..MaxCalls :
        (i \in accepted) ~> (i \in Range(completed))
=============================================================================
