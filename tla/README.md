# TLA+ models of the UCD2 dock firmware

This directory holds TLA+ models of the concurrent and arithmetic-heavy parts
of the dock firmware (`src/`), the TLC configurations that check them, and
`PROJECT.json`. That file lists every component (modelled or not), every run,
the mutants that show each checked property can fail, the source lines each
definition models (`map`), the findings, and the hazards.

## The system

The firmware runs on FreeRTOS. Several tasks share a few objects:

| task | code | what it does |
|---|---|---|
| main loop | `src/src/main.cpp` `loop` | `handleCharging`, `API::loop` (WebSocket events, serial, `m_apiResponseQueue`), `State::loop` timeouts |
| IR send | `InfraredService::send_ir_f` | peeks the one-slot `m_queue`, decodes and sends the code, consults the repeat callback between frames, answers the client, `xQueueReset`s `m_queue` |
| IR learn | `InfraredService::learn_ir_f` | waits for `IR_LEARNING_BIT`, then polls the receiver every 100 ms and broadcasts each decoded code |
| GC server | `GlobalCacheServer::tcp_server_task` | takes a slot of an 8-slot counting semaphore, accepts a TCP client, starts a socket task |
| GC socket (one per client) | `GlobalCacheServer::socket_task` | parses iTach commands, calls `sendGlobalCache`, `stopSend`, `startIrLearn`, `setState`; closes and gives the slot back on exit |
| GC beacon | `GlobalCacheServer::beacon_task` | multicasts a discovery beacon every 30 s |
| LED | `LedControl::ledTask` | runs the pattern of the bit `LedControl::setState` set; one-shot patterns clear their bit |
| (main loop, in `OtaService::loop`) | `OTAServer.handleClient()` | runs the `/update` upload callbacks (START, WRITE, END, ABORTED) and the POST handler, which restart the dock; then restarts if `m_uploadTimeout` passed |
| reset button ISR | `handleButtonPress` (`main.cpp`) | on every level change of the button pin: starts the hold timer on a press, sets `resetMarker` on a release after more than 3 s; `loop()` then sets ERROR and calls `Config::reset()` |
| Arduino event | `NetworkService::WiFiEvent` | handles ETH and WiFi events: sets the dock state, the ETH LED and its timeout, switches WiFi off or on (reading the credentials from `Config`) |

Shared objects: `m_queue` (length 1; its occupancy is the "sending" flag); the
IR event group (LEARNING, REPEAT, STOP); `m_currentSendCode` (no lock);
`m_apiResponseQueue` (length 5, a post waits 10 ms and is then dropped);
`State` (`m_currentState`, `m_prevState` under `state_mutex`, except the
restore at `state.cpp:108`); the LED event group; lwIP's socket table (lowest
free number first), shared by the GC server and the API WebSocket server;
`m_authWsClients` of the API; `NetworkService`'s flags (`m_wifiEnabled`,
`m_wifiPrevState`, `m_reconnectCount`, the ETH flags and LED timeout), written
by the event task and read by `setup()` and `handleLoop()` on the main task;
`Config`'s one `Preferences` object `m_preferences`, used by both.

## Modules

Each module has its state as VARIABLES, one action per step of the code
between two points where another task can run, `Next`, `Spec`, a `TypeOK`,
and its properties at the end. Each `MC*.tla` module fixes model values and
small sets for TLC. A few definitions (`KeepQueue`, `EndOutcomeNoAbort`,
`DeadlineNoWrap`, ...) are plausible faulty variants of the definition that
follows them; `PROJECT.json` lists them under `mutants`, and each one breaks
the property of its run.

### `IrSend` (`service_ir.cpp` send path, `API::loop`)

`queue` is `m_queue`, `bits` the event bits, `currentSendCode`
`m_currentSendCode`, `cpc`/`carg` each caller's position inside `send()`,
`spc`, `sMsg`, `repeat`, `repeatLimit`, `callback`, `success` the send task's
locals, `responses` `m_apiResponseQueue`. `send()` is three steps, at the
points where another task can interleave: `Send` (learning check, argument
checks, the `sending` read and the repeat check, 503/400/202/429),
`SendQueue` (clear REPEAT and STOP, enqueue or 429), `SendSetCurrentCode`.
The send task is `SendTaskPeek`, `SendTaskTransmit`, `RepeatCallback` (one
call of the lambda per frame) and `SendTaskComplete`. Whether a code parses
is membership in `ValidCodes` (the parsing itself is `IrCodec`). History
variables `accepted`, `completed`, `stopped` record what the properties talk
about.

### `SendSlot` (what the send path promises)

The abstract one-slot sender: `slot` holds at most one message; `Take(m)`
fills an empty slot (`send()` enqueueing into `m_queue`), `Finish` empties it
(the send task's `xQueueReset`), and `Finish` is weakly fair. `IrLearn` uses
it for the ir_send path, whose details are `IrSend`'s (`SendQueue` is the
detailed `Take`, `ReleaseQueue` at the end of `SendTaskComplete` the
detailed `Finish`).

### `IrLearn` (`learn_ir_f`, the API's WebSocket sessions)

The learn task is `LearnStart` (enable, discard the old capture), `LearnCheck`
(the while condition) and `LearnDecode` (decode, classify, broadcast with the
10 ms post). `IrSignal` is an IR remote; a capture is held until decoded.
GlobalCache sockets switch learning with `GcLearnCommand` (no
authentication). WebSocket clients are `WsConnect`, `WsDisconnect` (every
path that ends a connection raises `WStype_DISCONNECTED`), `WsAuth` (right
token: the number joins `m_authWsClients`; wrong token: 401 and disconnect)
and `WsLearnCommand` (`ir_receive_on/off`, only if `processWsRequest` finds
the number authenticated). `wsConn` maps a client number to the connection
using it, so a reused number is a new connection.

The ir_send path is composed in through `Send == INSTANCE SendSlot`, the
abstract one-slot sender. `WsIrSend` (an authenticated client's `ir_send`: `send()`
with the client number as clientId) and `SerialIrSend` (`handleSerial` and
Bluetooth, which call `processRequest` with the default id -1) take the slot
when nobody is learning; the 503 and 429 replies go straight back to the
caller and change nothing here. `SendTaskComplete` is the end of `send_ir_f`:
it posts an `IrResponse` with the message's clientId (dropped when the queue
stays full for 10 ms) and frees the slot. `ApiLoop` pops a response and
sends it to the connection now holding its client number (`ForClient`,
clientId >= 0) or broadcasts it. `delivered` is a history variable: the
ir_send results written to a connection other than the one that asked.

### `DockState` (`state.cpp`, `led_control.cpp`, the callers of `setState`)

`setState()` is four steps, split where the code releases `state_mutex` or
calls into the event group: the switch under the mutex (`SetStateMutex`),
the `m_prevState != state` check read after the unlock together with the
first call of `LedControl::setState()`, which clears every bit
(`SetStateLed`), the second call, which sets the state's bit (`LedSetBit`),
and the unlocked restore of a learn-result pseudo state (`SetStateRestore`).
`State::loop` is `StateLoopLedSetup` and `StateLoopIdentify` (the deadline
check and reset, outside the mutex), then for a fired timeout `event()`:
`EventRestore` under the mutex, `EventLed` (reads `m_currentState` after the
unlock and clears every bit) and `LedSetBit`; `evt` says which event the
main task is in. `millis()` is a clock modulo `ClockModulus`, so deadlines
wrap. The main task's callers are the API commands (`ApiSetState`,
`RgbTest`, `RgbTestStop`, with `apiPrev` for `API::m_prevState`, which the
constructor never initialises) and `HandleCharging`; those that read
`getState()` first make the `setState()` call a separate step
(`SetStateCall`). Other tasks call `setState` with the states in `Requests`
(GC `blink`, the learn task's result). The LED task serves, in each cycle,
the first set bit of its if / else-if chain (`LedPriority`, `ServedBit`):
test mode, OTA, LED setup, identify, setup and connecting come before the
one-shot patterns. When the bit served is a one-shot one (identify,
connected, learn ok / failed) `LedRun` starts its pattern and `LedDone`
clears that bit; the steady patterns change no state.

### `IrCodec` (`ir_codes.hpp`, `send_ir_f`'s decode)

A message is abstracted to the numbers `strtoul` returns for its fields,
whether it ends in a separator, and whether it starts with `sendir`.
`prontoBufferToArray` and `globalCacheBufferToArray` are operators with
`uint16_t` counters kept modulo 2^16; malloc of more than `SafeAlloc` values
may fail. `Decode` is the PRONTO / GLOBAL_CACHE case of `send_ir_f`, ending in
an array, a rejection, or `rebootIfMemError`. `WellFormed` and
`ReferenceValues` state spec section 4.1 with unbounded integers.

### `GcServer` (`globalcache_server.cpp`, `completeir`)

`sem` is `clientCountSemaphore`, `srv` the server's position (take / accept),
`owner` lwIP's socket table, `task` the socket tasks, `hup` what `recv()` will
return once the peer is gone, `irq` `m_queue` with the socket number of a GC
sendir. `OtherOpen`/`OtherClose` are the other socket users (the WebSocket
server). `ServerAccept` covers a failed `accept()` and a `socket_task` that
`xTaskCreatePinnedToCore` could not create (its result is not checked): the
socket then stays open with nobody reading it. `IrComplete` writes
`completeir` to whoever holds the stored number; `deliveries` records it.

### `Network` (`service_network.cpp`, `service_ota.cpp`, `setup()`, `loop()` and the reset button of `main.cpp`)

The settings `cfg` (WiFi credentials none / wrong / right, ETH LED brightness
zero or set) are chosen in `Init`. The main task is `mpc`: `SetupCheck` reads
`isEthConnected()`, `isEthLinkUp()` and the SSID and picks a branch of
`setup()`, `SetupApply` acts on it (`setState`, `setWifiEnabled`);
`handleLoop()` is `HandleLoopBegin` (the ETH LED timeout, the 30 s check,
counting reconnects and rebooting after `MaxReconnects`), `HandleLoopReconnect`
(after `delay(2000)`, `connect()`) and `HandleLoopConnected`
(`m_wifiPrevState`, `CONN_SUCCESS`). `Reboot` is `ESP.restart()`: every
variable back to its boot value. The event task is `EthConnectedEvent`,
`EthGotIpEvent` and `EthDisconnectedEvent`; the radio's own transitions are
`WifiJoin` (only with the right credentials) and `WifiLost`. `radio` abstracts
the WiFi stack to off / connecting / connected; `dock` is the `State` value
this service writes; the 30 s check and the LED timeout are booleans that
become due (`WifiCheckDue`, `LedTimeoutDue`).

Every `loop()` iteration ends in `LoopTail`: the `resetMarker` check, which
sits after the SETUP branch (`SetupLoop` is the Bluetooth side of it,
`handleLoop()` the other), goes to `ConfigReset` (`Config::reset()`: the
settings back to no WiFi and brightness 50, then the restart). The button is
`button` (the pin level), `ButtonEdge` (the user; the CHANGE interrupt
runs `HandleButtonPress`, the ISR, in the same step, since it runs
microseconds after the edge) and `ButtonHeld` (3 s of
`esp_timer_get_time()` pass since `buttonTimerSet`). `Restart`, shared by
`Reboot` and `ConfigReset`, puts every RAM variable back to its boot value,
the ISR's globals and `UpdateEx` included.

Outside SETUP the loop goes from `handleLoop()` to `mpc = "ota"`
(`OtaService::loop()`). There the OTA client's callbacks run on the main
task: `OtaUploadStart` (rejections through `AbortUpload`, or `begin()`,
`setState(OTA)` and the timeout armed), `OtaUploadWrite` (re-arms, or a
failed write aborts and restarts), `OtaUploadEnd` (clears the timeout, then
`end()`: `EndOutcome`; the POST handler's restart follows unless the
request stops parsing), `OtaUploadAborted` and `OtaPostHandler` (a POST
without a file). `OtaLoop` is `handleClient()` returning and the timeout
check. `updater` abstracts `UpdateEx` to idle / running / error, and
`otaTimeout` is `m_uploadTimeout` as zero / armed / due.

### `ConfigStore` (`config.cpp`, its callers on two tasks)

`nvs` is the flash (namespace, key, value), `open` the namespace of
`m_preferences`' one handle. A call (`Call`: namespace, keys in order,
value, whether `begin()`'s result is checked) is `Begin` (`begin()` fails
while a handle is open; `setToken`, `setWifi` and `enableNtp` return false
then, the getters, the LED and friendly-name setters and `reset()` carry
on), one `Use` per key (get, put or clear on whatever handle is open: none
gives the default or writes nothing) and `End` (`end()` closes the open
handle, whoever opened it). This is the Arduino `Preferences` library's
behaviour (`_started` flag), which is outside the repository. The loop task
makes the API's calls (auth, set_config, set_brightness, set_sntp,
get_sysinfo, reset) and `handleLoop()`'s; the event task reads the ETH LED
brightness, `ntp_enabled` and the WiFi credentials (`setWifiEnabled(true)`
on ETH_DISCONNECTED). `reset()` is `ResetClear("general")`,
`ResetClear("wifi")` and `Restart` (erase and `ESP.restart()`).

## Runs

| run | cfg | checks | result |
|---|---|---|---|
| irsend_two | `MCIrSend_two.cfg` | TypeOK, CompletedOnce, AcceptedEventuallyCompleted | pass |
| irsend_stop_lost | `MCIrSend_StopHonoured.cfg` | StopHonoured | violated |
| irlearn | `MCIrLearn_pass.cfg` | TypeOK, CommandsOnlyAuthenticated, SendResultMisdirectedOnlyAfterClose, ReceiverEventuallyOff | pass |
| dockstate | `MCDockState_pass.cfg` | TypeOK | pass |
| dockstate_pseudo_state | `MCDockState_NoPseudoStatePersists.cfg` | NoPseudoStatePersists | violated |
| ircodec | `MCIrCodec_pass.cfg` | TypeOK, WellFormedDecoded | pass |
| ircodec_gc_underflow | `MCIrCodec_MalformedNeverReboots.cfg` | MalformedNeverReboots | violated |
| gcserver | `MCGcServer_pass.cfg` | TypeOK | pass |
| gcserver_slot_leak | `MCGcServer_SlotsConserved.cfg` | SlotsConserved | violated |
| network | `MCNetwork_pass.cfg` | TypeOK, AbandonedUploadArmed, EthLedEventuallyOff, LongPressRestarts | pass |
| network_dock_status | `MCNetwork_DockShowsConnectivity.cfg` | DockShowsConnectivity | violated |
| config_calls_race | `MCConfigStore_CallsSeeStore.cfg` | CallsSeeStore | violated |

What the passing runs show:

- **irsend_two**: with the API loop and a GC socket racing in `send()`, every
  message `send()` accepted is transmitted and completed exactly once, however
  repeats and stops interleave.
- **irlearn**: the receiver is off
  after learning stops (unless restarted); learning is switched from the API
  only by a connection that itself presented the token, even when a client
  number is reused; an ir_send result reaches a connection other than its
  requester only after the requester closed (client number 0 included), while
  serial and Bluetooth results are broadcast to every open connection.
- **dockstate** and **gcserver** check only the type invariant; they are the
  passing runs in which every action of `DockState` and `GcServer` fires,
  next to the violated runs of the same modules. With the LED clear and set
  as separate steps, "every one-shot pattern ends" does not hold: an
  `rgb_test` racing the learn task's IR_LEARN_OK leaves both bits set, and
  test mode, first in the LED task's chain, keeps IR_LEARN_OK_BIT from being
  served for as long as the test lasts (listed as a hazard). For
  `GcServer`, every slot-release property fails on the slot leak of the
  violated run.
- **ircodec**: every well-formed PRONTO / GlobalCache code is decoded to
  exactly its values.
- **network**: for every WiFi and LED setting, with the ETH events racing
  `setup()` and `handleLoop()`, reconnects and reboots, the ETH LED that
  ETH_CONNECTED lit is switched off once ETH has its IP (when the brightness
  setting is 0), although ETH_GOT_IP also switches WiFi off and so makes
  `handleLoop()` return early; the timeout is served before that return.
  A reset-button press held over 3 s and released restarts the dock in
  every state of the dock, SETUP included (a dock without network and WiFi
  settings stays in SETUP, where `loop()` skips `handleLoop()`); the mutant
  that checks the marker only outside SETUP fails. The restart can be
  `handleLoop()`'s fifth-attempt reboot or an OTA restart instead of the
  reset: the marker is in RAM and the restart drops it, so the user has to
  hold the button again (listed as a hazard). An OTA update still running
  when `handleClient()` returns always has `m_uploadTimeout` armed, so the
  timeout restarts the dock: START and each good WRITE arm it, and END
  clears it only together with an `end()` that finishes or aborts the
  update (the mutant without that abort fails). END followed by a request
  that stops parsing leaves the dock in OTA with no restart pending; that is
  listed as a hazard.

## Findings (the violated runs)

1. **Stop lost** (`service_ir.cpp:255`): a second caller that passed the
   sending check clears the STOP bit `stopSend()` just set, then fails with
   429; the stopped code keeps repeating.
2. **Pseudo state persists** (`state.cpp:108`): `ir_receive_off` between the
   learn task's `setState(IR_LEARN_OK)` and its unlocked restore leaves the
   dock in IR_LEARN_OK.
3. **GlobalCache underflow** (`ir_codes.hpp:202`): a `sendir` code of one or
   two fields wraps `count - 3` to 65534; malloc of ~128 KB fails and the dock
   reboots.
4. **Slot leak** (`globalcache_server.cpp:179`): a failed `accept()` (ENFILE
   with lwIP's table full), or a socket task `xTaskCreatePinnedToCore` could
   not create (line 209, result unchecked), never gives its semaphore slot
   back; after 8 such failures the server accepts nobody.
5. **Dock stuck in CONNECTING** (`main.cpp:172`): `setup()` reads the link up
   but no IP; ETH_GOT_IP then sets CONN_SUCCESS and switches WiFi off;
   `setup()` goes on with `setState(CONNECTING)`. Nothing writes
   CONN_SUCCESS again, so the dock blinks "connecting" while online.
6. **Config calls race** (`config.cpp:366`): the event task's
   `getWifiSsid()` (ETH_DISCONNECTED) runs inside the loop task's
   `getToken()`: its `begin("wifi")` fails, it reads `ssid` from the general
   namespace (empty), and its `end()` closes the loop task's handle, so
   `getToken()` returns the default "0000" and the API accepts that token.
   The same interleaving lets `setToken()` return true without storing,
   lets `setWifi()` store the new SSID but not the password before the
   dock reboots, and lets the unchecked setters write their key into the
   wifi namespace.

Found while modelling and listed as hazards, without a run of their own:

- **Identify restored** (`state.cpp:93`): `blink,0` during IDENTIFY saves
  IDENTIFY as `m_prevState`; the identify timeout restores it. Two commands
  in sequence reach it, so a unit test of `State` does too.
- **Stale repeat** (`service_ir.cpp:274`): `m_currentSendCode` is written
  after the enqueue; a repeat request in between gets 202 and extends a
  different code.
- **PRONTO wrap** (`ir_codes.hpp:172`): a pair count of 0x8000 or more
  doubles modulo 2^16 in `uint16_t`; a truncated code can pass both checks
  and go to `sendPronto`. `ProntoTablesFit` keeps the wrap, but the runs'
  field values stay below 0x8000.
- **LED bits race** (`led_control.cpp:73`): `LedControl::setState` clears
  all bits and sets one in two calls; two tasks interleaving leave two
  patterns' bits set, and a test-mode bit then starves a one-shot learn
  result. `DockState` reaches it.
- **Code reported after stop** (`service_ir.cpp:545`): the learn task checks
  IR_LEARNING_BIT, sleeps and decodes without checking again; `IrLearn`
  reaches a broadcast after `stopIrLearn()`.
- **OTA left pending** (`service_ota.cpp:230`): UPLOAD_FILE_END clears
  `m_uploadTimeout` before the POST handler restarts; a request that stops
  parsing after END leaves the dock in OTA with the new image activated and
  nothing to restart it. `Network` reaches the state; no run claims the
  opposite.
- **Reset lost to a reboot** (`service_network.cpp:107`): a long press
  released just before `handleLoop()`'s fifth-attempt reboot sets a marker
  the reboot clears; the dock restarts with its settings.

## Bounds, and why they suffice

- IrSend: two callers, two codes (one that does not parse), repeats 0 and 1,
  a response queue of 1 (so the drop-when-full branch happens), 3 calls: a
  repeat, a stop and a new code while a message is in flight, and a second
  caller entering `send()` between any two steps of the first.
- IrLearn: two learning sessions, up to two IR signals of two kinds (one
  that fails decoding), a response queue of 1 (the code's is 5; 1 makes the
  drop happen), two client numbers and two connections: enough for a number
  to be reused after an authenticated connection ends, and for a result to
  be in flight while its requester closes and the next connection gets the
  number. ir_send requests are unbounded (the slot keeps the state finite).
- DockState: a clock of 6 ticks with timeouts of 2 and 3 (every deadline,
  wrapped or not), 3 `setState` calls from the main loop and the learn
  task. Only the red LED test colour is used in the pass
  run (the colours are symmetric), and `API::m_prevState` starts at NOT_SET,
  which stands for every value outside the enumeration (both switches take
  their default case for it).
- IrCodec: field values 0, 1 and 65537 (truncated to 1 in `uint16_t`),
  PRONTO codes up to 7 fields, GlobalCache codes up to 9: every length check,
  both burst tables, and the `sendir` skip. Pair counts of 0x8000 and more,
  where `seq1Len` wraps, are outside these values.
- GcServer: two peers, three socket numbers shared with another user, two
  slots, four connections, two sendirs: a full table, a failed accept, a
  socket task not created, a reused number.
- Network: `MaxReconnects = 5` as in the code; all six settings. The ETH
  events and WiFi join and loss are unbounded (the state is finite), so every
  order of link up, IP, link down and the setup and loop steps is explored,
  including reboots. The button presses and the OTA callbacks are
  unbounded too, so holds, releases, uploads and their failures fall in
  every step of `setup()` and `loop()` (about 550 000 states, under a
  minute).
- ConfigStore: one value per key (besides the default and "never written"),
  every initial flash content of the seven modelled keys, two tasks with
  their calls repeated without bound. The run stops at the first violation;
  the full state space is far larger than a run can cover.

## Fairness

The send task (in IrLearn, `SendTaskComplete`), the learn task, the API loop, `State::loop`, the LED task, the
GC server and the socket tasks block only on their own queues, bits, mutexes
and sockets, so each gets weak fairness. Callers, WebSocket and GC clients,
IR remotes and other socket users get none: nobody has to send anything.
In `Network`, the main task (`setup()`, then `loop()` forever) and the two
deadlines (the 30 s check and the LED timeout, each measured by `millis()`)
are weakly fair; so is the passing of time while the button is held and
while the upload timeout is armed. `handleClient()` returning is a main-task
step: WebServer bounds every read by `HTTP_MAX_POST_WAIT`, and a write past
the sketch space fails, so no request lasts forever. The ETH events, the
WiFi radio, the user's presses and the OTA client are the environment and
get none. `ConfigStore` checks only a safety property.

## Not modelled

- `buildIRHexData` / `parseULong` and `parseGcRequest`: string parsing covered
  by unit tests (`test/`); modelling them needs a character-level abstraction.
- The GC beacon task, logging, mDNS, Bluetooth, eFuse: I/O without
  shared-state concurrency of interest, or out of TLC's reach.
- In the network service: ETH_START / ETH_STOP, SNTP, and the WiFi-only
  build of `init()` (the board this tree builds has Ethernet).
- In the configuration store: the setters of keys only the loop task
  touches (log level, syslog, NTP servers, test mode, IR cores and
  priorities), which have the shape of `setToken` or `setWifi`; value
  clamping and length checks; the constant and eFuse getters.
- The rest of `setup()` (constructing and initialising the services, once,
  before the other tasks exist) and the mDNS, OTA and Bluetooth calls of
  `loop()`.
- Which clients receive a learned-code broadcast (it reaches unauthenticated
  connections too): listed as a hazard; `delivered` records ir_send results
  only.
- The byte level of the serial and Bluetooth transports (the buffer is
  terminated with `'0'` instead of `'\0'`, which a unit test of the
  handler would catch).
- In the OTA service: `init()` (loading the certificates; on failure no
  handler is registered), the status page, and `DeviceCheckProcessor` with
  the RFC 3161 signature check (byte-level checks of the image).

## Plan

1. A run for the LED bits race: "a one-shot pattern is eventually shown",
   which the interleaved clear and set of `LedControl::setState` breaks.
2. A property for `rgb_test_stop` (it must end the LED test) and for the
   uninitialised `API::m_prevState`.
3. Compose `ConfigStore` with `Network`: the ETH_GOT_IP event's
   `getEthLedBrightness()` racing `handleLoop()`'s `getWifiSsid()` can read
   the default and leave the ETH LED on.
4. `buildIRHexData` against spec 4.1's hex format over an abstraction of
   field tokens.
5. A run for "a dock in OTA state eventually restarts", which the END
   callback clearing `m_uploadTimeout` before the POST handler breaks
   (hazard at `service_ota.cpp:230`), once WebServer's parsing after END
   is modelled from its source rather than left open.
