------------------------------ MODULE Network ------------------------------
(***************************************************************************)
(* The network service (src/lib/service_network/service_network.cpp) of   *)
(* the Ethernet board (HAS_ETHERNET, board_5_4.h), the network part of    *)
(* setup() and the main loop's call of handleLoop() (src/src/main.cpp).   *)
(*                                                                         *)
(* Two tasks write the service's flags and the dock state:                 *)
(*  - the main task: the end of setup() picks Ethernet or WiFi from        *)
(*    isEthConnected() / isEthLinkUp() / the WiFi settings, then every     *)
(*    loop() calls handleLoop() unless the dock is in SETUP; handleLoop()   *)
(*    reconnects WiFi every 30 s while it is down (disconnect, delay(2000), *)
(*    connect) and reboots on the fifth attempt;                           *)
(*  - the Arduino event task runs WiFiEvent() for every ETH / WiFi event:  *)
(*    ETH got an IP switches WiFi off, ETH lost switches it on again.      *)
(* Nothing orders the two.  Each event handler is one step; the main      *)
(* task's steps end where it reads state the handlers write.               *)
(*                                                                         *)
(* State::setState is abstracted to the state it writes (DockState has its *)
(* mutex and LED steps): only SETUP, CONNECTING and CONN_SUCCESS are       *)
(* written here, and nothing leaves CONN_SUCCESS (no code raises           *)
(* CONN_SUCCESS_DONE).  millis() deadlines are booleans that time makes    *)
(* due.  SNTP, logging and the WiFi settings calls are left out.           *)
(*                                                                         *)
(* The reset button (main.cpp:81-108, 229-235): a CHANGE interrupt runs    *)
(* handleButtonPress(), which reads the pin when it runs, not when it      *)
(* changed; a release after more than 3 s sets resetMarker, and the end of *)
(* every loop() turns the marker into setState(ERROR) and config->reset(), *)
(* which erases the settings and restarts.                                 *)
(*                                                                         *)
(* The OTA service (service_ota.cpp): outside SETUP, loop() calls          *)
(* OtaService::loop(), whose handleClient() runs the /update upload        *)
(* callbacks on the main task, then restarts if m_uploadTimeout has        *)
(* passed.  The WebServer and UpdateEx libraries are the environment: the *)
(* callbacks come in the order START, WRITE..., END or ABORTED, then the   *)
(* POST handler, unless the request stops parsing; UpdateEx's begin(),     *)
(* write() and end() may fail.                                             *)
(***************************************************************************)
EXTENDS Naturals

CONSTANTS
    MaxReconnects   \* the reconnect attempt that reboots (5 in the code)

ASSUME MaxReconnects \in Nat \ {0}

\* The WiFi settings: none stored, stored but the access point cannot be
\* joined, or stored and joinable.
WifiConfigs == {"none", "bad", "good"}

\* The Ethernet LED brightness setting: zero (LED on only until 3 s after
\* the IP) or not.
LedConfigs == {"zero", "set"}

VARIABLES
    cfg,            \* [wifi, led]: the stored settings, fixed while running
    mpc,            \* the main task's position in setup() / loop()
    branch,         \* the case setup() chose from what it read
    wifiEnabled,    \* m_wifiEnabled
    wifiPrevState,  \* m_wifiPrevState
    reconnectCount, \* m_wifiReconnectCount
    checkDue,       \* millis() > m_wifiCheckTimedUl
    radio,          \* what WiFi.status() reports: off, connecting, connected
    ethLinkUp,      \* m_ethLinkUp
    ethConnected,   \* m_ethConnected
    ethLed,         \* the Ethernet LED: on or off
    ledTimeout,     \* m_ethLedTimeout: none, pending or due
    dock,           \* State::m_currentState, as written by these tasks
    button,         \* the level of BUTTON_GPIO: up (HIGH) or down (LOW)
    buttonPressed,  \* buttonPressed
    heldLong,       \* more than 3000 ms since buttonTimerSet
    resetMarker,    \* resetMarker
    updater,        \* UpdateEx: idle, running (begun) or error (hasError())
    otaTimeout,     \* m_uploadTimeout: zero, armed, or due (millis() passed it)
    otaRequest      \* the /update request handleClient() is parsing: idle,
                    \* or started (START delivered, END not yet)

vars == <<cfg, mpc, branch, wifiEnabled, wifiPrevState, reconnectCount,
          checkDue, radio, ethLinkUp, ethConnected, ethLed, ledTimeout, dock,
          button, buttonPressed, heldLong, resetMarker,
          updater, otaTimeout, otaRequest>>

buttonVars == <<button, buttonPressed, heldLong, resetMarker>>
otaVars == <<updater, otaTimeout, otaRequest>>
networkVars == <<cfg, mpc, branch, wifiEnabled, wifiPrevState, reconnectCount,
                 checkDue, radio, ethLinkUp, ethConnected, ethLed, ledTimeout,
                 dock>>

MainPcs == {"setup_check", "setup_apply", "loop", "reconnect",
            "check_connected", "ota", "tail", "rebooting", "resetting"}

Branches == {"eth", "link", "wifi", "none", "-"}

TypeOK ==
    /\ cfg \in [wifi : WifiConfigs, led : LedConfigs]
    /\ mpc \in MainPcs /\ branch \in Branches
    /\ wifiEnabled \in BOOLEAN /\ wifiPrevState \in BOOLEAN
    /\ reconnectCount \in 0..MaxReconnects
    /\ checkDue \in BOOLEAN
    /\ radio \in {"off", "connecting", "connected"}
    /\ ethLinkUp \in BOOLEAN /\ ethConnected \in BOOLEAN
    /\ ethLed \in {"on", "off"}
    /\ ledTimeout \in {"none", "pending", "due"}
    /\ dock \in {"SETUP", "CONNECTING", "CONN_SUCCESS", "ERROR", "OTA"}
    /\ button \in {"up", "down"}
    /\ buttonPressed \in BOOLEAN
    /\ heldLong \in BOOLEAN /\ resetMarker \in BOOLEAN
    /\ updater \in {"idle", "running", "error"}
    /\ otaTimeout \in {"zero", "armed", "due"}
    /\ otaRequest \in {"idle", "started"}

\* The state after setState(SETUP), the member initialisers and init():
\* with HAS_ETHERNET init() starts ETH only, so WiFi is off although
\* m_wifiEnabled starts TRUE; m_wifiCheckTimedUl = 10000 is not yet due.
BootState ==
    /\ mpc = "setup_check" /\ branch = "-"
    /\ wifiEnabled = TRUE /\ wifiPrevState = FALSE
    /\ reconnectCount = 0 /\ checkDue = FALSE
    /\ radio = "off"
    /\ ethLinkUp = FALSE /\ ethConnected = FALSE
    /\ ethLed = "off" /\ ledTimeout = "none"
    /\ dock = "SETUP"
    /\ buttonPressed = FALSE
    /\ heldLong = FALSE /\ resetMarker = FALSE
    /\ updater = "idle" /\ otaTimeout = "zero" /\ otaRequest = "idle"

\* The button may be held down through the boot.
Init ==
    /\ cfg \in [wifi : WifiConfigs, led : LedConfigs]
    /\ button \in {"up", "down"}
    /\ BootState

-----------------------------------------------------------------------------
(* Helpers of NetworkService                                               *)

\* connect(): WiFi.begin() with the stored settings, then
\* setState(CONNECTING).
Connect ==
    /\ radio' = "connecting"
    /\ dock' = "CONNECTING"

\* setWifiEnabled(false): the flag and WiFi.disconnect().
WifiOff ==
    /\ wifiEnabled' = FALSE
    /\ radio' = "off"

\* setWifiEnabled(enabled): connect() or WiFi.disconnect().
SetWifiEnabled(enabled) ==
    IF enabled THEN wifiEnabled' = TRUE /\ Connect
               ELSE WifiOff /\ UNCHANGED dock

-----------------------------------------------------------------------------
(* The end of setup(), main.cpp:167-182                                    *)

\* The three reads that pick the case.
SetupCheck ==
    /\ mpc = "setup_check"
    /\ branch' = CASE ethConnected          -> "eth"
                   [] ethLinkUp             -> "link"
                   [] cfg.wifi # "none"     -> "wifi"
                   [] OTHER                 -> "none"
    /\ mpc' = "setup_apply"
    /\ UNCHANGED <<cfg, wifiEnabled, wifiPrevState, reconnectCount, checkDue,
                   radio, ethLinkUp, ethConnected, ethLed, ledTimeout, dock>>
    /\ UNCHANGED buttonVars /\ UNCHANGED otaVars

\* The setState() and setWifiEnabled() calls of the chosen case.
SetupApply ==
    /\ mpc = "setup_apply"
    /\ CASE branch = "eth"  -> dock' = "CONN_SUCCESS" /\ WifiOff
         [] branch = "link" -> dock' = "CONNECTING" /\ WifiOff
         [] branch = "wifi" -> SetWifiEnabled(TRUE)
         [] OTHER           -> SetWifiEnabled(FALSE)
    /\ mpc' = "loop" /\ branch' = "-"
    /\ UNCHANGED <<cfg, wifiPrevState, reconnectCount, checkDue, ethLinkUp,
                   ethConnected, ethLed, ledTimeout>>
    /\ UNCHANGED buttonVars /\ UNCHANGED otaVars

-----------------------------------------------------------------------------
(* handleLoop(), called by loop() while the dock is not in SETUP           *)

\* Mutant: the LED timeout checked after the m_wifiEnabled return.
LedTimeoutServedAfterReturn == ledTimeout = "due" /\ wifiEnabled

\* handleLoop() serves the Ethernet LED timeout before anything else.
LedTimeoutServed == ledTimeout = "due"

\* Mutant: the reboot check one attempt late.
RebootAttemptLate(n) == n = MaxReconnects + 1

\* m_wifiReconnectCount == 5: this attempt reboots.
RebootAttempt(n) == n = MaxReconnects

\* The Ethernet LED timeout, the m_wifiEnabled return, and the first half
\* of a reconnect: count the attempt (reboot on the last), forget the
\* connection, WiFi.disconnect(), then delay(2000).
HandleLoopBegin ==
    /\ mpc = "loop" /\ dock # "SETUP"
    /\ IF LedTimeoutServed
          THEN ethLed' = "off" /\ ledTimeout' = "none"
          ELSE UNCHANGED <<ethLed, ledTimeout>>
    /\ IF wifiEnabled /\ radio # "connected" /\ checkDue
          THEN /\ reconnectCount' = reconnectCount + 1
               /\ IF RebootAttempt(reconnectCount + 1)
                     THEN mpc' = "rebooting"
                          /\ UNCHANGED <<wifiPrevState, radio>>
                     ELSE mpc' = "reconnect" /\ wifiPrevState' = FALSE
                          /\ radio' = "off"
          ELSE /\ mpc' = IF wifiEnabled THEN "check_connected" ELSE "ota"
               /\ UNCHANGED <<reconnectCount, wifiPrevState, radio>>
    /\ UNCHANGED <<cfg, branch, wifiEnabled, checkDue, ethLinkUp,
                   ethConnected, dock>>
    /\ UNCHANGED buttonVars /\ UNCHANGED otaVars

\* After the delay: setState(CONNECTING), connect(), re-arm the 30 s check.
HandleLoopReconnect ==
    /\ mpc = "reconnect"
    /\ Connect
    /\ checkDue' = FALSE
    /\ mpc' = "check_connected"
    /\ UNCHANGED <<cfg, branch, wifiEnabled, wifiPrevState, reconnectCount,
                   ethLinkUp, ethConnected, ethLed, ledTimeout>>
    /\ UNCHANGED buttonVars /\ UNCHANGED otaVars

\* Report a connection WiFi.status() shows for the first time.
HandleLoopConnected ==
    /\ mpc = "check_connected"
    /\ IF radio = "connected" /\ ~wifiPrevState
          THEN /\ reconnectCount' = 0 /\ wifiPrevState' = TRUE
               /\ dock' = "CONN_SUCCESS"
          ELSE UNCHANGED <<reconnectCount, wifiPrevState, dock>>
    /\ mpc' = "ota"
    /\ UNCHANGED <<cfg, branch, wifiEnabled, checkDue, radio, ethLinkUp,
                   ethConnected, ethLed, ledTimeout>>
    /\ UNCHANGED buttonVars /\ UNCHANGED otaVars

\* In SETUP loop() serves Bluetooth (not modelled) instead of handleLoop().
SetupLoop ==
    /\ mpc = "loop" /\ dock = "SETUP"
    /\ mpc' = "tail"
    /\ UNCHANGED <<cfg, branch, wifiEnabled, wifiPrevState, reconnectCount,
                   checkDue, radio, ethLinkUp, ethConnected, ethLed, ledTimeout,
                   dock>>
    /\ UNCHANGED buttonVars /\ UNCHANGED otaVars

\* Mutant: the marker checked inside the else branch, after handleLoop().
ResetCheckedOutsideSetup(d) == d # "SETUP"

\* loop() checks resetMarker after the SETUP branch, whatever the state.
ResetChecked(d) == TRUE

\* The end of loop(): a set resetMarker makes setState(ERROR) and
\* config->reset(), which does not return.
LoopTail ==
    /\ mpc = "tail"
    /\ IF resetMarker /\ ResetChecked(dock)
          THEN dock' = "ERROR" /\ mpc' = "resetting"
          ELSE mpc' = "loop" /\ UNCHANGED dock
    /\ UNCHANGED <<cfg, branch, wifiEnabled, wifiPrevState, reconnectCount,
                   checkDue, radio, ethLinkUp, ethConnected, ethLed, ledTimeout>>
    /\ UNCHANGED buttonVars /\ UNCHANGED otaVars

\* ESP.restart() starts setup() again with everything in RAM (the
\* service's flags, the ISR's globals) re-initialised; the ETH driver
\* reports the link again after the restart; the pin keeps its level.
Restart ==
    /\ mpc' = "setup_check" /\ branch' = "-"
    /\ wifiEnabled' = TRUE /\ wifiPrevState' = FALSE
    /\ reconnectCount' = 0 /\ checkDue' = FALSE
    /\ radio' = "off"
    /\ ethLinkUp' = FALSE /\ ethConnected' = FALSE
    /\ ethLed' = "off" /\ ledTimeout' = "none"
    /\ dock' = "SETUP"
    /\ buttonPressed' = FALSE
    /\ heldLong' = FALSE /\ resetMarker' = FALSE
    /\ updater' = "idle" /\ otaTimeout' = "zero" /\ otaRequest' = "idle"

\* State::reboot() keeps the settings.
Reboot ==
    /\ mpc = "rebooting"
    /\ Restart
    /\ UNCHANGED <<cfg, button>>

\* Config::reset(): clear "general" and "wifi", erase the flash, restart.
\* The settings fall back to none for WiFi and m_defaultLedBrightness (50)
\* for the Ethernet LED.
ConfigReset ==
    /\ mpc = "resetting"
    /\ Restart
    /\ cfg' = [wifi |-> "none", led |-> "set"]
    /\ UNCHANGED button

-----------------------------------------------------------------------------
(* OtaService::loop() and the /update handlers, service_ota.cpp:100-267   *)

\* What the rest of the main task leaves alone in an upload callback.
OtaCallbackFrame ==
    UNCHANGED <<cfg, branch, wifiEnabled, wifiPrevState, reconnectCount,
                checkDue, radio, ethLinkUp, ethConnected, ethLed, ledTimeout>>
    /\ UNCHANGED buttonVars

\* abortUpload(): UpdateEx.abort() unless hasError(), which leaves UpdateEx
\* with an error either way, then the HTTP reply.
AbortUpload == updater' = "error"

\* delay(500) and ESP.restart() inside a handler.
RestartFromHandler == mpc' = "rebooting"

\* UPLOAD_FILE_START: contentLength <= 0 (411) or above the sketch space
\* (413) aborts; so does a failing UpdateEx.begin(), which always fails
\* while an update is running.  Otherwise setState(OTA) and the timeout.
OtaUploadStart ==
    /\ mpc = "ota" /\ otaRequest = "idle"
    /\ otaRequest' = "started"
    /\ \/ AbortUpload /\ UNCHANGED <<dock, otaTimeout>>
       \/ /\ updater # "running"
          /\ updater' = "running" /\ dock' = "OTA" /\ otaTimeout' = "armed"
    /\ UNCHANGED mpc
    /\ OtaCallbackFrame

\* UPLOAD_FILE_WRITE: nothing after an error; a write() that fails aborts
\* and restarts; a good one re-arms the timeout.
OtaUploadWrite ==
    /\ mpc = "ota" /\ otaRequest = "started"
    /\ updater # "error"
    /\ \/ AbortUpload /\ RestartFromHandler /\ UNCHANGED otaTimeout
       \/ otaTimeout' = "armed" /\ UNCHANGED <<mpc, updater>>
    /\ UNCHANGED <<dock, otaRequest>>
    /\ OtaCallbackFrame

\* Mutant: a failed end() without an error is not aborted.
EndOutcomeNoAbort(u) == IF u = "running" THEN {"idle", "running"} ELSE {u}

\* UpdateEx.end(true) succeeds only for a running update (activate() may
\* still fail); otherwise UpdateEx.abort() unless hasError().
EndOutcome(u) == IF u = "running" THEN {"idle", "error"} ELSE {"error"}

\* UPLOAD_FILE_END: m_uploadTimeout = 0, then end() and activate().  If
\* the rest of the request parses, the POST handler follows: reply 200 or
\* 400, delay(500), ESP.restart(); if not, handleClient() returns.
OtaUploadEnd ==
    /\ mpc = "ota" /\ otaRequest = "started"
    /\ otaRequest' = "idle"
    /\ otaTimeout' = "zero"
    /\ updater' \in EndOutcome(updater)
    /\ \/ RestartFromHandler
       \/ mpc' = "tail"
    /\ UNCHANGED dock
    /\ OtaCallbackFrame

\* UPLOAD_FILE_ABORTED (the client went away): abort and restart.
OtaUploadAborted ==
    /\ mpc = "ota" /\ otaRequest = "started"
    /\ AbortUpload /\ RestartFromHandler
    /\ UNCHANGED <<dock, otaTimeout, otaRequest>>
    /\ OtaCallbackFrame

\* The POST handler of a request that carried no file.
OtaPostHandler ==
    /\ mpc = "ota" /\ otaRequest = "idle"
    /\ RestartFromHandler
    /\ UNCHANGED <<dock, updater, otaTimeout, otaRequest>>
    /\ OtaCallbackFrame

OtaClient == OtaUploadStart \/ OtaUploadWrite \/ OtaUploadEnd
             \/ OtaUploadAborted \/ OtaPostHandler

\* handleClient() returns (the request done, or stopped parsing), then
\* m_uploadTimeout != 0 && millis() > m_uploadTimeout restarts.
OtaLoop ==
    /\ mpc = "ota"
    /\ otaRequest' = "idle"
    /\ mpc' = IF otaTimeout = "due" THEN "rebooting" ELSE "tail"
    /\ UNCHANGED <<dock, updater, otaTimeout>>
    /\ OtaCallbackFrame

\* millis() passes m_uploadTimeout.
OtaTimeoutDue ==
    /\ otaTimeout = "armed" /\ otaTimeout' = "due"
    /\ UNCHANGED <<updater, otaRequest>>
    /\ UNCHANGED networkVars /\ UNCHANGED buttonVars

MainTask == SetupCheck \/ SetupApply \/ HandleLoopBegin \/ SetupLoop
            \/ HandleLoopReconnect \/ HandleLoopConnected \/ LoopTail
            \/ OtaLoop \/ Reboot \/ ConfigReset

-----------------------------------------------------------------------------
(* WiFiEvent(), on the Arduino event task                                  *)

\* ARDUINO_EVENT_ETH_CONNECTED: link up; the LED gets the stored brightness,
\* or 3 while the setting is zero.
EthConnectedEvent ==
    /\ ~ethLinkUp
    /\ ethLinkUp' = TRUE /\ ethLed' = "on"
    /\ UNCHANGED <<cfg, mpc, branch, wifiEnabled, wifiPrevState,
                   reconnectCount, checkDue, radio, ethConnected, ledTimeout,
                   dock>>
    /\ UNCHANGED buttonVars /\ UNCHANGED otaVars

\* ARDUINO_EVENT_ETH_GOT_IP: arm the LED timeout if the setting is zero,
\* switch WiFi off, setState(CONN_SUCCESS).
EthGotIpEvent ==
    /\ ethLinkUp /\ ~ethConnected
    /\ ethConnected' = TRUE
    /\ ledTimeout' = IF cfg.led = "zero" THEN "pending" ELSE ledTimeout
    /\ WifiOff
    /\ dock' = "CONN_SUCCESS"
    /\ UNCHANGED <<cfg, mpc, branch, wifiPrevState, reconnectCount, checkDue,
                   ethLinkUp, ethLed>>
    /\ UNCHANGED buttonVars /\ UNCHANGED otaVars

\* ARDUINO_EVENT_ETH_DISCONNECTED: LED off, switch WiFi on again.
EthDisconnectedEvent ==
    /\ ethLinkUp
    /\ ethLinkUp' = FALSE /\ ethConnected' = FALSE /\ ethLed' = "off"
    /\ SetWifiEnabled(TRUE)
    /\ UNCHANGED <<cfg, mpc, branch, wifiPrevState, reconnectCount, checkDue,
                   ledTimeout>>
    /\ UNCHANGED buttonVars /\ UNCHANGED otaVars

EventTask == EthConnectedEvent \/ EthGotIpEvent \/ EthDisconnectedEvent

-----------------------------------------------------------------------------
(* The WiFi radio and time                                                 *)

\* The station joins the access point (ARDUINO_EVENT_WIFI_STA_GOT_IP, whose
\* handler only logs); only stored, valid settings can be joined.
WifiJoin ==
    /\ radio = "connecting" /\ cfg.wifi = "good"
    /\ radio' = "connected"
    /\ UNCHANGED <<cfg, mpc, branch, wifiEnabled, wifiPrevState,
                   reconnectCount, checkDue, ethLinkUp, ethConnected, ethLed,
                   ledTimeout, dock>>
    /\ UNCHANGED buttonVars /\ UNCHANGED otaVars

\* The station loses the access point and the WiFi stack starts
\* reconnecting (ARDUINO_EVENT_WIFI_STA_DISCONNECTED only stops SNTP).
WifiLost ==
    /\ radio = "connected"
    /\ radio' = "connecting"
    /\ UNCHANGED <<cfg, mpc, branch, wifiEnabled, wifiPrevState,
                   reconnectCount, checkDue, ethLinkUp, ethConnected, ethLed,
                   ledTimeout, dock>>
    /\ UNCHANGED buttonVars /\ UNCHANGED otaVars

\* millis() passes m_wifiCheckTimedUl.
WifiCheckDue ==
    /\ ~checkDue /\ checkDue' = TRUE
    /\ UNCHANGED <<cfg, mpc, branch, wifiEnabled, wifiPrevState,
                   reconnectCount, radio, ethLinkUp, ethConnected, ethLed,
                   ledTimeout, dock>>
    /\ UNCHANGED buttonVars /\ UNCHANGED otaVars

\* millis() passes m_ethLedTimeout.
LedTimeoutDue ==
    /\ ledTimeout = "pending" /\ ledTimeout' = "due"
    /\ UNCHANGED <<cfg, mpc, branch, wifiEnabled, wifiPrevState,
                   reconnectCount, checkDue, radio, ethLinkUp, ethConnected,
                   ethLed, dock>>
    /\ UNCHANGED buttonVars /\ UNCHANGED otaVars

Tick == WifiCheckDue \/ LedTimeoutDue

-----------------------------------------------------------------------------
(* The reset button and its interrupt, main.cpp:81-108                     *)

\* handleButtonPress() reading level: LOW while not pressed starts the
\* timer; HIGH while pressed stops it, resets buttonTimerSet, and sets
\* resetMarker if more than 3000 ms passed; any other reading changes
\* nothing.
HandleButtonPress(level) ==
    CASE level = "down" /\ ~buttonPressed ->
           buttonPressed' = TRUE /\ heldLong' = FALSE /\ UNCHANGED resetMarker
      [] level = "up" /\ buttonPressed ->
           /\ buttonPressed' = FALSE /\ heldLong' = FALSE
           /\ resetMarker' = (resetMarker \/ heldLong)
      [] OTHER -> UNCHANGED <<buttonPressed, heldLong, resetMarker>>

\* The user presses or releases the button; the CHANGE interrupt runs the
\* ISR at once (microseconds, before any task can observe the edge).
ButtonEdge ==
    LET level == IF button = "up" THEN "down" ELSE "up"
    IN  button' = level /\ HandleButtonPress(level)
    /\ UNCHANGED networkVars /\ UNCHANGED otaVars

\* esp_timer_get_time() passes buttonTimerSet + 3000 ms.
ButtonHeld ==
    /\ buttonPressed /\ ~heldLong
    /\ heldLong' = TRUE
    /\ UNCHANGED <<button, buttonPressed, resetMarker>>
    /\ UNCHANGED networkVars /\ UNCHANGED otaVars

ButtonTask == ButtonEdge \/ ButtonHeld

Next == MainTask \/ EventTask \/ WifiJoin \/ WifiLost \/ Tick \/ ButtonTask
        \/ OtaClient \/ OtaTimeoutDue

\* The main task and the clock always move on; the event task handles an
\* event once it happens, but cables, DHCP and the access point act when
\* they act: no fairness for the events, the join or the loss.  Time
\* passes while the button is held and while an upload timeout is armed;
\* the user and the OTA client act when they like (handleClient() itself
\* returns, WebServer bounding every read by HTTP_MAX_POST_WAIT).
Fairness ==
    /\ WF_vars(MainTask)
    /\ WF_vars(ButtonHeld)
    /\ WF_vars(OtaTimeoutDue)
    /\ WF_vars(WifiCheckDue)
    /\ WF_vars(LedTimeoutDue)

Spec == Init /\ [][Next]_vars /\ Fairness

-----------------------------------------------------------------------------
(* Properties                                                              *)

\* Some interface carries traffic.
Online == radio = "connected" \/ ethConnected

\* With the Ethernet LED setting at zero, the LED that ETH_CONNECTED turned
\* on is turned off by handleLoop() once ETH has its IP and keeps it: the
\* timeout set by ETH_GOT_IP is served even though that event also switched
\* WiFi off, which makes handleLoop() return early.
EthLedEventuallyOff ==
    (cfg.led = "zero" /\ ethConnected) ~> (ethLed = "off" \/ ~ethConnected)

\* A dock whose connectivity stops changing ends up showing it: it leaves
\* CONNECTING if it stays online, and leaves CONN_SUCCESS if it stays
\* offline.  Setup()'s case choice and handleLoop()'s reconnect act on what
\* they read before ETH events the event task handles meanwhile.
DockShowsConnectivity ==
    /\ <>[]Online => []<>(dock # "CONNECTING")
    /\ <>[]~Online => []<>(dock # "CONN_SUCCESS")

\* Whenever handleClient() has returned with an update still running (the
\* request stopped parsing after START or a WRITE), m_uploadTimeout is
\* armed, so OtaService::loop() restarts the dock instead of leaving
\* UpdateEx holding the flash and the LEDs showing OTA: START and every
\* good WRITE arm it, and END, which clears it, never leaves the update
\* running.
AbandonedUploadArmed ==
    (mpc # "ota" /\ updater = "running") => otaTimeout # "zero"

\* A press held more than 3 s and released restarts the dock: the ISR
\* sets resetMarker on the release, and the end of loop() acts on it in
\* every state, SETUP included, where loop() does not call handleLoop().
\* The restart may be handleLoop()'s reboot on the fifth reconnect or an
\* OTA restart, which drop the marker.
LongPressRestarts ==
    resetMarker ~> (mpc \in {"rebooting", "resetting"})
=============================================================================
