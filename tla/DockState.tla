------------------------------ MODULE DockState -----------------------------
(***************************************************************************)
(* The dock state machine State (src/lib/state/state.cpp) and the part of *)
(* LedControl it drives (src/lib/led_control/led_control.cpp).             *)
(*                                                                         *)
(*  - several tasks call State::setState(): the main loop (API requests,   *)
(*    charging), GlobalCache socket tasks (blink) and the IR learn task    *)
(*    (IR_LEARN_OK / IR_LEARN_FAILED);                                     *)
(*  - setState() changes m_prevState / m_currentState under state_mutex,  *)
(*    releases it, then calls LedControl::setState() and, for the learn    *)
(*    result pseudo states, restores m_currentState from m_prevState      *)
(*    without the mutex;                                                   *)
(*  - State::loop() in the main loop fires the LED setup and identify      *)
(*    timeouts, comparing millis() with the stored deadline, and calls     *)
(*    event(), which restores m_prevState;                                 *)
(*  - the LED task runs the pattern of the bit LedControl::setState() set *)
(*    and clears the bit of a one-shot pattern when it is done.            *)
(*                                                                         *)
(* millis() is a clock counting modulo ClockModulus (2^32 ms in the code),*)
(* one tick standing for one second.                                       *)
(***************************************************************************)
EXTENDS Naturals

SeqExt == INSTANCE SequencesExt

CONSTANTS
    Tasks,          \* tasks calling setState (model values)
    MainTask,       \* the Arduino main loop, which also runs State::loop()
    Requests,       \* Requests[t]: the states task t passes to setState
    MainCommands,   \* the API commands and main-loop checks the main task
                    \* runs (see MainCommandNames)
    TestColors,     \* the "color" values rgb_test is sent with
    ApiPrevInit,    \* the values API::m_prevState may start with
    ClockModulus,   \* millis() wraps at this value
    LedSetupTicks,  \* LED setup timeout (2000 ms)
    IdentifyTicks,  \* identify timeout (3000 ms)
    MaxCalls        \* bound on the setState() calls of all tasks

\* The states of states.h that the modelled callers use.
NOT_SET == "NOT_SET"
NORMAL == "NORMAL"
NORMAL_CHARGING == "NORMAL_CHARGING"
NORMAL_FULLYCHARGED == "NORMAL_FULLYCHARGED"
NORMAL_LOWBATTERY == "NORMAL_LOWBATTERY"
TEST_LED_RED == "TEST_LED_RED"
TEST_LED_GREEN == "TEST_LED_GREEN"
TEST_LED_BLUE == "TEST_LED_BLUE"
CONNECTING == "CONNECTING"
CONN_SUCCESS == "CONN_SUCCESS"
LED_SETUP == "LED_SETUP"
IDENTIFY == "IDENTIFY"
IR_LEARNING == "IR_LEARNING"
IR_LEARN_OK == "IR_LEARN_OK"
IR_LEARN_FAILED == "IR_LEARN_FAILED"
States == {NOT_SET, NORMAL, NORMAL_CHARGING, NORMAL_FULLYCHARGED,
           NORMAL_LOWBATTERY, TEST_LED_RED, TEST_LED_GREEN, TEST_LED_BLUE,
           CONNECTING, CONN_SUCCESS, LED_SETUP,
           IDENTIFY, IR_LEARNING, IR_LEARN_OK, IR_LEARN_FAILED}

\* The states of the factory LED test (rgb_test).
TestStates == {TEST_LED_RED, TEST_LED_GREEN, TEST_LED_BLUE}

\* States that only run an LED pattern (state.cpp line 106).
PseudoStates == {IR_LEARN_OK, IR_LEARN_FAILED}

\* The commands of API::processRequest that call setState() with a fixed
\* state.  (ir_receive_on / ir_receive_off do so in startIrLearn() /
\* stopIrLearn().)
ApiCommandTarget ==
    [set_brightness |-> LED_SETUP, ir_receive_on |-> IR_LEARNING,
     ir_receive_off |-> NORMAL, remote_charged |-> NORMAL_FULLYCHARGED,
     remote_lowbattery |-> NORMAL_LOWBATTERY, remote_normal |-> NORMAL,
     identify |-> IDENTIFY]

\* rgb_test: the state for each "color" value; any other value sets none.
RgbTestTarget ==
    [red |-> TEST_LED_RED, green |-> TEST_LED_GREEN, blue |-> TEST_LED_BLUE]

RgbColors == DOMAIN RgbTestTarget \cup {"other"}

\* The direct setState() commands, rgb_test, rgb_test_stop, and the
\* charge-sense check of handleCharging().
MainCommandNames ==
    DOMAIN ApiCommandTarget \cup {"rgb_test", "rgb_test_stop", "charging"}

ASSUME /\ MainTask \in Tasks
       /\ Requests \in [Tasks -> SUBSET (States \ {NOT_SET})]
       /\ ClockModulus \in Nat /\ ClockModulus > IdentifyTicks
       /\ LedSetupTicks \in Nat \ {0} /\ IdentifyTicks \in Nat \ {0}
       /\ MaxCalls \in Nat
       /\ MainCommands \subseteq MainCommandNames
       /\ TestColors \subseteq RgbColors
       /\ ApiPrevInit \subseteq States /\ ApiPrevInit # {}

\* LedControl::setState: the event bit for a state (NORMAL, and a
\* value outside the cases, sets none).
StateBit ==
    [TEST_LED_RED |-> "TEST_MODE_RED_BIT", TEST_LED_GREEN |-> "TEST_MODE_GREEN_BIT",
     TEST_LED_BLUE |-> "TEST_MODE_BLUE_BIT", NORMAL_CHARGING |-> "CHARGING_BIT",
     CONNECTING |-> "CONNECTING_BIT", CONN_SUCCESS |-> "CONNECTED_BIT",
     LED_SETUP |-> "LED_SETUP_BIT", NORMAL_FULLYCHARGED |-> "FULLY_CHARGED_BIT",
     NORMAL_LOWBATTERY |-> "LOW_BATTERY_BIT", IDENTIFY |-> "IDENTIFY_BIT",
     IR_LEARNING |-> "IR_LEARN_ON_BIT", IR_LEARN_OK |-> "IR_LEARN_OK_BIT",
     IR_LEARN_FAILED |-> "IR_LEARN_FAILED_BIT"]

LedBit(s) == IF s \in DOMAIN StateBit THEN {StateBit[s]} ELSE {}

LedBits == UNION {LedBit(s) : s \in States}

\* Patterns the LED task runs once and then clears ("auto clear").
OneShotBits == {"IDENTIFY_BIT", "CONNECTED_BIT", "IR_LEARN_OK_BIT",
                "IR_LEARN_FAILED_BIT"}

Clock == 0..(ClockModulus - 1)

VARIABLES
    current,          \* m_currentState
    prev,             \* m_prevState
    ledSetupTimeout,  \* m_ledSetupTimeout (0: not armed)
    identifyTimeout,  \* m_identifyTimeout (0: not armed)
    now,              \* millis()
    pc,               \* per task: where it is in setState / State::loop
    arg,              \* per task: the state passed to setState
    ledBits,          \* the bits of LedControl's m_eventgroup
    ledPc,            \* LED task: "wait" or "run" (a one-shot pattern)
    ledPattern,       \* LED task: the bit of the one-shot pattern it runs
    apiPrev,          \* API::m_prevState (the state before rgb_test)
    calls,            \* number of setState() calls so far
    looped,           \* State::loop() ran since the last tick of millis()
    evt               \* main task: the event() State::loop() is in, or "none"

vars == <<current, prev, ledSetupTimeout, identifyTimeout, now, pc, arg,
          ledBits, ledPc, ledPattern, apiPrev, calls, looped, evt>>

TaskPcs == {"idle", "call", "led", "ledSet", "restore", "checkIdentify",
            "event", "eventLed"}

TypeOK ==
    /\ current \in States /\ prev \in States
    /\ ledSetupTimeout \in Clock /\ identifyTimeout \in Clock
    /\ now \in Clock
    /\ pc \in [Tasks -> TaskPcs]
    /\ arg \in [Tasks -> States]
    /\ ledBits \subseteq LedBits
    /\ ledPc \in {"wait", "run"}
    /\ ledPattern \in OneShotBits \cup {"none"}
    /\ apiPrev \in States
    /\ calls \in 0..MaxCalls
    /\ looped \in BOOLEAN
    /\ evt \in {"none", "LED_SETUP_DONE", "IDENTIFY_DONE"}

\* After setup() and a WiFi connection: setState(CONNECTING) then
\* setState(CONN_SUCCESS); nothing raises CONN_SUCCESS_DONE.  The dock may
\* have run for any time, so millis() has any value.  API::m_prevState is
\* not initialised (the API object is allocated with new): any value, NOT_SET
\* standing for the values outside the enumeration, which setState() and
\* LedControl::setState() both treat by their default case.
Init ==
    /\ current = CONN_SUCCESS /\ prev = CONNECTING
    /\ ledSetupTimeout = 0 /\ identifyTimeout = 0
    /\ now \in Clock
    /\ pc = [t \in Tasks |-> "idle"]
    /\ arg = [t \in Tasks |-> NOT_SET]
    /\ ledBits = LedBit(CONN_SUCCESS)
    /\ ledPc = "wait"
    /\ ledPattern = "none"
    /\ apiPrev \in ApiPrevInit
    /\ calls = 0
    /\ looped = FALSE
    /\ evt = "none"

-----------------------------------------------------------------------------
(***************************************************************************)
(* State::setState(), in three steps: the part under state_mutex, the     *)
(* call of LedControl::setState(), and the restore of a pseudo state.     *)
(***************************************************************************)

\* Mutant: the deadline is computed without the wrap of unsigned long.
DeadlineNoWrap(ticks) == now + ticks

\* A deadline `ticks` after now, as an unsigned long that wraps.
Deadline(ticks) == (now + ticks) % ClockModulus

\* LED_SETUP and IDENTIFY keep m_prevState when it or the current state is
\* already the one requested; every other state saves the current one.
SavedPrev(s) ==
    IF s \in {LED_SETUP, IDENTIFY}
      THEN IF prev # s /\ current # s THEN current ELSE prev
      ELSE current

\* The switch under state_mutex: arm the timeout of LED_SETUP / IDENTIFY,
\* save the previous state, set m_currentState.
SetStateMutex(t, s) ==
    /\ prev' = SavedPrev(s)
    /\ current' = s
    /\ ledSetupTimeout' = IF s = LED_SETUP THEN Deadline(LedSetupTicks)
                                          ELSE ledSetupTimeout
    /\ identifyTimeout' = IF s = IDENTIFY THEN Deadline(IdentifyTicks)
                                          ELSE identifyTimeout
    /\ arg' = [arg EXCEPT ![t] = s]
    /\ pc' = [pc EXCEPT ![t] = "led"]
    /\ UNCHANGED <<now, ledBits, ledPc, ledPattern, looped, evt>>

\* Task t, between two calls, calls setState(s).
SetState(t, s) ==
    /\ pc[t] = "idle"
    /\ calls < MaxCalls
    /\ calls' = calls + 1
    /\ SetStateMutex(t, s)
    /\ UNCHANGED apiPrev

\* The setState() call that follows a getState() read of the main task.
SetStateCall(t) ==
    /\ pc[t] = "call"
    /\ SetStateMutex(t, arg[t])
    /\ UNCHANGED <<apiPrev, calls>>

\* Where setState() goes once its LED call is done: the restore of a
\* learn-result pseudo state, or back to the caller.
AfterSetState(t) == IF arg[t] \in PseudoStates THEN "restore" ELSE "idle"

\* After the mutex: only if m_prevState (read now, without the mutex)
\* differs from the new state, LedControl::setState(), whose first call
\* clears every bit of the event group.
SetStateLed(t) ==
    /\ pc[t] = "led"
    /\ IF prev # arg[t]
         THEN /\ ledBits' = {}
              /\ pc' = [pc EXCEPT ![t] = "ledSet"]
         ELSE /\ pc' = [pc EXCEPT ![t] = AfterSetState(t)]
              /\ UNCHANGED ledBits
    /\ UNCHANGED <<apiPrev, current, prev, ledSetupTimeout, identifyTimeout, now, arg,
                   ledPc, ledPattern, calls, looped, evt>>

\* Where a task goes when LedControl::setState() returns: State::loop()
\* goes on after event(LED_SETUP_DONE) with the identify check and ends
\* after event(IDENTIFY_DONE); setState() goes on as above.
AfterLed(t) ==
    IF t = MainTask /\ evt = "LED_SETUP_DONE" THEN "checkIdentify"
    ELSE IF t = MainTask /\ evt = "IDENTIFY_DONE" THEN "idle"
    ELSE AfterSetState(t)

\* The switch of LedControl::setState(): xEventGroupSetBits of the state's
\* bit, on top of whatever other tasks set since the clear.
LedSetBit(t) ==
    /\ pc[t] = "ledSet"
    /\ ledBits' = ledBits \cup LedBit(arg[t])
    /\ pc' = [pc EXCEPT ![t] = AfterLed(t)]
    /\ evt' = IF t = MainTask THEN "none" ELSE evt
    /\ UNCHANGED <<apiPrev, current, prev, ledSetupTimeout, identifyTimeout, now, arg,
                   ledPc, ledPattern, calls, looped>>

\* IR_LEARN_OK / IR_LEARN_FAILED: m_currentState = m_prevState, outside
\* the mutex.
RestoredState == prev

SetStateRestore(t) ==
    /\ pc[t] = "restore"
    /\ current' = RestoredState
    /\ pc' = [pc EXCEPT ![t] = "idle"]
    /\ UNCHANGED <<apiPrev, prev, ledSetupTimeout, identifyTimeout, now, arg, ledBits,
                   ledPc, ledPattern, calls, looped, evt>>

(***************************************************************************)
(* The main task's callers of setState(): API::processRequest and         *)
(* handleCharging().  getState() reads m_currentState under state_mutex; *)
(* the setState() that follows takes the mutex again.                      *)
(***************************************************************************)

\* set_brightness, ir_receive_on/off, remote_charged, remote_lowbattery,
\* remote_normal, identify.
ApiSetState(cmd) == SetState(MainTask, ApiCommandTarget[cmd])

\* rgb_test: unless getState() is one of the test states, m_prevState =
\* getState(); then setState() of the color's test state, if "color"
\* names one.
RgbTest(color) ==
    /\ pc[MainTask] = "idle"
    /\ calls < MaxCalls
    /\ apiPrev' = IF current \notin TestStates THEN current ELSE apiPrev
    /\ IF color \in DOMAIN RgbTestTarget
         THEN /\ calls' = calls + 1
              /\ arg' = [arg EXCEPT ![MainTask] = RgbTestTarget[color]]
              /\ pc' = [pc EXCEPT ![MainTask] = "call"]
         ELSE UNCHANGED <<calls, arg, pc>>
    /\ UNCHANGED <<current, prev, ledSetupTimeout, identifyTimeout, now,
                   ledBits, ledPc, ledPattern, looped, evt>>

\* rgb_test_stop: setState(m_prevState), whatever rgb_test stored there,
\* if it ever ran.
RgbTestStop == SetState(MainTask, apiPrev)

\* The state handleCharging() sets after reading getState(): charging
\* when the charge-sense value is above 300 and the state is not charging
\* yet, NORMAL when it is below 300 and the state is charging.
ChargingTarget(high) ==
    IF high /\ current # NORMAL_CHARGING THEN {NORMAL_CHARGING}
    ELSE IF ~high /\ current = NORMAL_CHARGING THEN {NORMAL}
    ELSE {}

\* Every 4000th main-loop iteration: analogRead(CHARGE_SENSE_GPIO),
\* getState(), and the setState() call (a separate step) if needed.
HandleCharging(high) ==
    /\ pc[MainTask] = "idle"
    /\ calls < MaxCalls
    /\ \E s \in ChargingTarget(high) :
          /\ calls' = calls + 1
          /\ arg' = [arg EXCEPT ![MainTask] = s]
          /\ pc' = [pc EXCEPT ![MainTask] = "call"]
    /\ UNCHANGED <<current, prev, ledSetupTimeout, identifyTimeout, now,
                   ledBits, ledPc, ledPattern, apiPrev, looped, evt>>

MainCommand ==
    \/ \E cmd \in MainCommands \cap DOMAIN ApiCommandTarget : ApiSetState(cmd)
    \/ "rgb_test" \in MainCommands /\ \E c \in TestColors : RgbTest(c)
    \/ "rgb_test_stop" \in MainCommands /\ RgbTestStop
    \/ "charging" \in MainCommands /\ \E high \in BOOLEAN : HandleCharging(high)

(***************************************************************************)
(* State::loop() in the main task: the LED setup timeout, then the        *)
(* identify timeout; each calls event(), whose mutex part restores        *)
(* m_prevState and whose LED part runs after the mutex is released.       *)
(***************************************************************************)

\* m_...Timeout != 0 && millis() > m_...Timeout
Expired(deadline) == deadline # 0 /\ now > deadline

\* The LED setup check, outside state_mutex: an expired deadline is reset
\* and event(LED_SETUP_DONE) called.
StateLoopLedSetup ==
    /\ pc[MainTask] = "idle"
    /\ IF Expired(ledSetupTimeout)
         THEN /\ ledSetupTimeout' = 0
              /\ evt' = "LED_SETUP_DONE"
              /\ pc' = [pc EXCEPT ![MainTask] = "event"]
         ELSE /\ pc' = [pc EXCEPT ![MainTask] = "checkIdentify"]
              /\ UNCHANGED <<ledSetupTimeout, evt>>
    /\ UNCHANGED <<apiPrev, current, prev, identifyTimeout, now, arg, ledBits, ledPc,
                   ledPattern, calls, looped>>

\* The identify check, likewise; the end of State::loop() when it does
\* not fire.
StateLoopIdentify ==
    /\ pc[MainTask] = "checkIdentify"
    /\ IF Expired(identifyTimeout)
         THEN /\ identifyTimeout' = 0
              /\ evt' = "IDENTIFY_DONE"
              /\ pc' = [pc EXCEPT ![MainTask] = "event"]
         ELSE /\ pc' = [pc EXCEPT ![MainTask] = "idle"]
              /\ UNCHANGED <<identifyTimeout, evt>>
    /\ looped' = TRUE
    /\ UNCHANGED <<apiPrev, current, prev, ledSetupTimeout, now, arg, ledBits, ledPc,
                   ledPattern, calls>>

\* event(LED_SETUP_DONE / IDENTIFY_DONE) under state_mutex: the state
\* before LED setup or identify is restored.
EventRestore ==
    /\ pc[MainTask] = "event"
    /\ current' = prev
    /\ pc' = [pc EXCEPT ![MainTask] = "eventLed"]
    /\ UNCHANGED <<apiPrev, prev, ledSetupTimeout, identifyTimeout, now, arg, ledBits,
                   ledPc, ledPattern, calls, looped, evt>>

\* The end of event(): LedControl::setState(m_currentState), read after
\* the mutex was released, whose first call clears every bit.
EventLed ==
    /\ pc[MainTask] = "eventLed"
    /\ arg' = [arg EXCEPT ![MainTask] = current]
    /\ ledBits' = {}
    /\ pc' = [pc EXCEPT ![MainTask] = "ledSet"]
    /\ UNCHANGED <<apiPrev, current, prev, ledSetupTimeout, identifyTimeout, now,
                   ledPc, ledPattern, calls, looped, evt>>

\* millis() advances by one tick (one second); the main loop, which
\* never blocks for long, has run State::loop() at least once since the
\* last tick.
Tick ==
    /\ looped
    /\ now' = (now + 1) % ClockModulus
    /\ looped' = FALSE
    /\ UNCHANGED <<apiPrev, current, prev, ledSetupTimeout, identifyTimeout, pc, arg,
                   ledBits, ledPc, ledPattern, calls, evt>>

(***************************************************************************)
(* The LED task: each cycle serves the highest-priority bit; a one-shot  *)
(* pattern runs and then clears its own bit, the others change nothing. *)
(***************************************************************************)

\* The bits in the order of ledTask's if / else-if chain (the lowest bit
\* first); any test-mode bit is served by testModePattern().
LedPriority ==
    <<"TEST_MODE_RED_BIT", "TEST_MODE_GREEN_BIT", "TEST_MODE_BLUE_BIT",
      "OTA_BIT", "LED_SETUP_BIT", "IDENTIFY_BIT", "SETUP_BIT", "CONNECTING_BIT",
      "CONNECTED_BIT", "IR_LEARN_FAILED_BIT", "IR_LEARN_OK_BIT", "IR_LEARN_ON_BIT",
      "FULLY_CHARGED_BIT", "LOW_BATTERY_BIT", "ERROR_BIT", "CHARGING_BIT">>

\* The bit the chain serves for the bits xEventGroupWaitBits returned.
ServedBit(bits) == LedPriority[SeqExt!SelectInSeq(LedPriority, LAMBDA b : b \in bits)]

\* xEventGroupWaitBits returns the bits; when the bit served is a one-shot
\* one, its pattern starts.  (No bit, a test bit or a steady pattern: the
\* cycle changes no state.)
LedRun ==
    /\ ledPc = "wait"
    /\ ledBits # {}
    /\ ServedBit(ledBits) \in OneShotBits
    /\ ledPattern' = ServedBit(ledBits)
    /\ ledPc' = "run"
    /\ UNCHANGED <<apiPrev, current, prev, ledSetupTimeout, identifyTimeout, now, pc,
                   arg, ledBits, calls, looped, evt>>

\* xEventGroupClearBits(<the pattern's bit>) at the end of the pattern.
LedClear == ledBits \ {ledPattern}

LedDone ==
    /\ ledPc = "run"
    /\ ledBits' = LedClear
    /\ ledPc' = "wait"
    /\ ledPattern' = "none"
    /\ UNCHANGED <<apiPrev, current, prev, ledSetupTimeout, identifyTimeout, now, pc,
                   arg, calls, looped, evt>>

-----------------------------------------------------------------------------
TaskStep(t) == SetStateCall(t) \/ SetStateLed(t) \/ LedSetBit(t) \/ SetStateRestore(t)

StateLoop == StateLoopLedSetup \/ StateLoopIdentify \/ EventRestore \/ EventLed

LedTask == LedRun \/ LedDone

Next ==
    \/ \E t \in Tasks : \/ \E s \in Requests[t] : SetState(t, s)
                        \/ TaskStep(t)
    \/ MainCommand
    \/ StateLoop
    \/ Tick
    \/ LedTask

\* A task inside setState() runs on to its end; the main loop keeps calling
\* State::loop(); time advances; the LED task runs whenever a bit is set.
\* No task has to call setState().
Fairness ==
    /\ \A t \in Tasks : WF_vars(TaskStep(t))
    /\ WF_vars(StateLoop)
    /\ WF_vars(Tick)
    /\ WF_vars(LedTask)

Spec == Init /\ [][Next]_vars /\ Fairness

-----------------------------------------------------------------------------
(***************************************************************************)
(* Properties.                                                             *)
(***************************************************************************)

\* The learn result states only run an LED pattern: once no task is inside
\* setState() or event(), the dock is not left in IR_LEARN_OK or
\* IR_LEARN_FAILED (comment at state.cpp line 106).
NoPseudoStatePersists ==
    (\A t \in Tasks : pc[t] = "idle") => current \notin PseudoStates

=============================================================================
