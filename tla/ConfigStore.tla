---------------------------- MODULE ConfigStore ----------------------------
(***************************************************************************)
(* The persisted configuration (lib/config/config.cpp).  Config keeps ONE  *)
(* Preferences object, m_preferences, and every getter and setter runs     *)
(* begin(namespace) ; get, put or clear ; end() on it without a lock.  Two *)
(* FreeRTOS tasks call it: the Arduino loop task (API requests, handleLoop, *)
(* the reset button) and the Arduino event task (WiFiEvent).               *)
(*                                                                         *)
(* The Preferences library keeps one handle and a _started flag: begin()   *)
(* returns false and opens nothing while a handle is open, end() closes    *)
(* whatever handle is open, a get without an open handle returns the       *)
(* default and a put or clear without one writes nothing.                  *)
(***************************************************************************)
EXTENDS Naturals, Sequences

CONSTANTS Values,    \* the values a setting can hold
          Dflt,      \* the default a getter returns for a missing key
          Absent,    \* a key with no stored value
          NoHandle,  \* no namespace open (_started = false)
          NoCall     \* a task outside a Config call

Namespaces == {"general", "wifi"}

(* The keys the modelled calls write into each namespace. *)
KeysOf(ns) ==
    IF ns = "wifi" THEN {"ssid", "password"}
    ELSE {"token", "brightness", "eth_brightness", "friendly_name", "ntp_enabled"}

Keys == KeysOf("general") \cup KeysOf("wifi")
Tasks == {"loop", "event"}

VARIABLES nvs,       \* the flash: namespace -> key -> value
          open,      \* the namespace of m_preferences' open handle
          pc,        \* where each task is inside its Config call
          call,      \* the call each task is making
          done,      \* how many of its keys the call has got or put
          began,     \* what its begin() returned
          result,    \* what its get returned
          resetting  \* the namespace reset() has cleared last, or "none"

vars == <<nvs, open, pc, call, done, began, result, resetting>>

(* A Config call: the namespace it opens, the keys it gets or puts in      *)
(* order, the value it writes, and whether it gives up when begin() fails. *)
Call == [ns : Namespaces, op : {"get", "put", "clear"},
         keys : UNION {[1..n -> Keys] : n \in 0..2},
         val : Values \cup {Dflt}, checked : BOOLEAN]

Getter(ns, key) ==
    [ns |-> ns, op |-> "get", keys |-> <<key>>, val |-> Dflt, checked |-> FALSE]
Setter(ns, ks, v, chk) ==
    [ns |-> ns, op |-> "put", keys |-> ks, val |-> v, checked |-> chk]

getToken == Getter("general", "token")
setToken(v) == Setter("general", <<"token">>, v, TRUE)
getLedBrightness == Getter("general", "brightness")
setLedBrightness(v) == Setter("general", <<"brightness">>, v, FALSE)
getEthLedBrightness == Getter("general", "eth_brightness")
setEthLedBrightness(v) == Setter("general", <<"eth_brightness">>, v, FALSE)
getFriendlyName == Getter("general", "friendly_name")
setFriendlyName(v) == Setter("general", <<"friendly_name">>, v, FALSE)
getWifiSsid == Getter("wifi", "ssid")
getWifiPassword == Getter("wifi", "password")
setWifi(v) == Setter("wifi", <<"ssid", "password">>, v, TRUE)
isNtpEnabled == Getter("general", "ntp_enabled")
enableNtp(v) == Setter("general", <<"ntp_enabled">>, v, TRUE)

(* One half of reset(): begin(ns) (result ignored), clear(), end(). *)
ResetClear(ns) ==
    [ns |-> ns, op |-> "clear", keys |-> <<>>, val |-> Dflt, checked |-> FALSE]

(* The calls each task makes.  The loop task: getToken() in the auth      *)
(* handler; set_config's setFriendlyName, setToken, setWifi;               *)
(* set_brightness's setters; set_sntp's enableNtp; get_sysinfo's getters; *)
(* handleLoop()'s reconnect.  The event task: getEthLedBrightness() on     *)
(* ETH_CONNECTED and ETH_GOT_IP, isNtpEnabled() on the IP and disconnect   *)
(* events, getWifiSsid() and getWifiPassword() through                     *)
(* setWifiEnabled(true) on ETH_DISCONNECTED.                               *)
CallsOf(t) ==
    IF t = "loop"
    THEN {getToken, getLedBrightness, getEthLedBrightness, getFriendlyName,
          getWifiSsid, getWifiPassword, isNtpEnabled}
         \cup UNION {{setToken(v), setLedBrightness(v), setEthLedBrightness(v),
                      setFriendlyName(v), setWifi(v), enableNtp(v)} : v \in Values}
    ELSE {getEthLedBrightness, getWifiSsid, getWifiPassword, isNtpEnabled}

(* The call task t may begin next: the loop task starts reset() (API       *)
(* reset or the reset button) with the general clear, goes on with the     *)
(* wifi clear, and then only restarts.                                     *)
Offered(t) ==
    CASE t = "event"            -> CallsOf(t)
      [] resetting = "none"     -> CallsOf(t) \cup {ResetClear("general")}
      [] resetting = "general"  -> {ResetClear("wifi")}
      [] OTHER                  -> {}

(* Preferences::getX on namespace ns: the stored value, else the default. *)
Stored(ns, key) == IF nvs[ns][key] = Absent THEN Dflt ELSE nvs[ns][key]

TypeOK ==
    /\ nvs \in [Namespaces -> [Keys -> Values \cup {Absent}]]
    /\ open \in Namespaces \cup {NoHandle}
    /\ pc \in [Tasks -> {"idle", "begun", "end"}]
    /\ call \in [Tasks -> Call \cup {NoCall}]
    /\ done \in [Tasks -> 0..2]
    /\ began \in [Tasks -> BOOLEAN]
    /\ result \in [Tasks -> Values \cup {Dflt}]
    /\ resetting \in {"none", "general", "wifi"}

(* Any configuration the flash can hold: each key of a namespace set or   *)
(* never written, and no namespace holding another namespace's keys.      *)
Init ==
    /\ nvs \in {f \in [Namespaces -> [Keys -> Values \cup {Absent}]] :
                 \A ns \in Namespaces : \A k \in Keys \ KeysOf(ns) : f[ns][k] = Absent}
    /\ open = NoHandle
    /\ pc = [t \in Tasks |-> "idle"]
    /\ call = [t \in Tasks |-> NoCall]
    /\ done = [t \in Tasks |-> 0]
    /\ began = [t \in Tasks |-> FALSE]
    /\ result = [t \in Tasks |-> Dflt]
    /\ resetting = "none"

(* m_preferences.begin(ns, false).  setToken, setWifi and enableNtp      *)
(* return false when it fails; the getters, setLedBrightness,              *)
(* setEthLedBrightness, setFriendlyName and reset() ignore it and go on.   *)
Begin(t) ==
    /\ pc[t] = "idle"
    /\ \E c \in Offered(t) :
         /\ call' = [call EXCEPT ![t] = c]
         /\ began' = [began EXCEPT ![t] = (open = NoHandle)]
         /\ open' = IF open = NoHandle THEN c.ns ELSE open
         /\ pc' = [pc EXCEPT ![t] = IF c.checked /\ open # NoHandle
                                    THEN "idle" ELSE "begun"]
         /\ done' = [done EXCEPT ![t] = 0]
         /\ resetting' = IF c.op = "clear" THEN c.ns ELSE resetting
    /\ UNCHANGED <<nvs, result>>

(* The next getX, putX or clear() on whatever handle is open now. *)
Use(t) ==
    /\ pc[t] = "begun"
    /\ LET c == call[t]
           k == c.keys[done[t] + 1]
       IN /\ CASE c.op = "get" ->
                    /\ result' = [result EXCEPT ![t] =
                                    IF open = NoHandle THEN Dflt ELSE Stored(open, k)]
                    /\ UNCHANGED nvs
               [] c.op = "put" ->
                    /\ nvs' = IF open = NoHandle THEN nvs
                              ELSE [nvs EXCEPT ![open][k] = c.val]
                    /\ UNCHANGED result
               [] c.op = "clear" ->
                    /\ nvs' = IF open = NoHandle THEN nvs
                              ELSE [nvs EXCEPT ![open] = [key \in Keys |-> Absent]]
                    /\ UNCHANGED result
          /\ done' = [done EXCEPT ![t] = done[t] + 1]
          /\ pc' = [pc EXCEPT ![t] = IF done[t] + 1 >= Len(c.keys) THEN "end" ELSE "begun"]
    /\ UNCHANGED <<open, call, began, resetting>>

(* m_preferences.end(): closes the handle that is open, whoever opened it. *)
End(t) ==
    /\ pc[t] = "end"
    /\ open' = NoHandle
    /\ pc' = [pc EXCEPT ![t] = "idle"]
    /\ UNCHANGED <<nvs, call, done, began, result, resetting>>

(* The end of reset(): nvs_flash_erase() and ESP.restart(); every task    *)
(* starts over with an empty flash.                                        *)
Restart ==
    /\ resetting = "wifi"
    /\ pc["loop"] = "idle"
    /\ nvs' = [ns \in Namespaces |-> [k \in Keys |-> Absent]]
    /\ open' = NoHandle
    /\ pc' = [t \in Tasks |-> "idle"]
    /\ call' = [t \in Tasks |-> NoCall]
    /\ done' = [t \in Tasks |-> 0]
    /\ began' = [t \in Tasks |-> FALSE]
    /\ result' = [t \in Tasks |-> Dflt]
    /\ resetting' = "none"

Next == (\E t \in Tasks : Begin(t) \/ Use(t) \/ End(t)) \/ Restart

Spec == Init /\ [][Next]_vars

-----------------------------------------------------------------------------
(* Every Config call behaves as if it ran alone: when a task's end()      *)
(* returns, a getter has the value its namespace holds for its key (or    *)
(* the default when none is stored), and a setter that reports success    *)
(* (setToken and setWifi returning true, the void setters returning) has  *)
(* stored its value under each of its keys.  The API compares the         *)
(* client's token with getToken() and reboots after setWifi() returned     *)
(* true; handleLoop() and setWifiEnabled() connect with the stored SSID    *)
(* and password.                                                           *)
CallsSeeStore ==
    [][\A t \in Tasks :
         End(t) =>
           LET c == call[t] IN
             /\ c.op = "get" => result[t] = Stored(c.ns, c.keys[1])
             /\ (c.op = "put" /\ (began[t] \/ ~c.checked)) =>
                  \A i \in DOMAIN c.keys : nvs[c.ns][c.keys[i]] = c.val
      ]_vars
=============================================================================
