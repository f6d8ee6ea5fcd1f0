----------------------------- MODULE WifiManager -----------------------------
(***************************************************************************)
(* The Wi-Fi manager (components/esp32-wifi-manager/src/wifi_manager.c): a *)
(* task that connects the station, tries again when the connection is      *)
(* lost, opens an access point with a configuration page when there is     *)
(* nothing to connect to, and keeps the credentials in flash.              *)
(*                                                                         *)
(* It takes orders from one queue of three messages, which four tasks      *)
(* write: the event task of ESP-IDF (wifi_manager_event_handler), the      *)
(* timer daemon, the HTTP server's task (http_app.c) and the task itself.  *)
(* Every send waits for ever.  A sender first changes the shared event     *)
(* bits and then sends; in between the manager may act on the bits.        *)
(*                                                                         *)
(* A message is handled in one step: nobody but the manager starts a       *)
(* connection or a scan, so what another task does to the bits after a     *)
(* handler has read them is the same as its doing so after the handler.    *)
(* Only a save of the credentials takes steps of its own: it needs the     *)
(* lock of nvs_sync.c, each write may fail, and meanwhile the HTTP server  *)
(* may write the credentials in memory, which takes it three steps.        *)
(* The Wi-Fi driver and the phones at the access point are external.       *)
(***************************************************************************)
EXTENDS Naturals, Sequences, SequencesExt

CONSTANTS
  Networks,     \* credentials a user can enter
  NoNet,        \* zeros where the SSID or the password of a network could be
  QueueLength,  \* xQueueCreate( 3, ... )
  MaxRetries,   \* WIFI_MANAGER_MAX_RETRY_START_AP
  MaxRequests,  \* bound: HTTP requests
  MaxFailures,  \* bound: attempts that fail and connections that are lost
  MaxJoins      \* bound: phones that join the access point

ASSUME NetworksAssumption == NoNet \notin Networks
ASSUME QueueAssumption == QueueLength \in Nat \ {0} /\ MaxRetries \in Nat
ASSUME BoundsAssumption == {MaxRequests, MaxFailures, MaxJoins} \subseteq Nat

Connects == {"CONNECT_USER", "CONNECT_AUTO", "CONNECT_RESTORE"}
Messages == Connects \cup
  {"LOAD_AND_RESTORE_STA", "DISCONNECT_STA", "START_WIFI_SCAN", "START_AP",
   "STOP_AP", "STA_DISCONNECTED", "STA_GOT_IP", "SCAN_DONE"}
Bits == {"CONNECTED", "CONNECTING", "SCAN", "AP_STARTED", "AP_STA_CONNECTED",
         "REQUEST_STA_CONNECT", "REQUEST_RESTORE_STA", "REQUEST_DISCONNECT"}
WifiEvents == {"STA_DISCONNECTED", "STA_GOT_IP", "SCAN_DONE", "AP_START", "AP_STOP",
               "AP_STACONNECTED", "AP_STADISCONNECTED"}
Senders == {"manager", "events", "timers", "http"}
Timers == {"RETRY", "SHUTDOWN_AP"}
Nothing == "NOTHING"

\* An SSID and a password, each of some network.
Credentials == [ssid : Networks \cup {NoNet}, password : Networks \cup {NoNet}]
Blank == [ssid |-> NoNet, password |-> NoNet]

\* What a handler does when its save has returned.
AfterSaves == {"nothing", "SHUTDOWN_AP", "START_AP"}

VARIABLES
  queue,        \* wifi_manager_queue
  sending,      \* the message each task is in xQueueSend with
  bits,         \* wifi_manager_event_group
  retries,      \* the counter of the task
  timers,       \* timers that are running
  config,       \* wifi_manager_config_sta
  saved,        \* the credentials in flash
  locked,       \* nvs_sync_mutex is taken
  save,         \* how far the manager is with a save
  afterSave,    \* ... and what it does then
  leaked,       \* a commit has failed
  entering,     \* the network whose SSID and password, or password alone,
                \* the HTTP server still has to copy
  restart,      \* how far the manager is with restarting the HTTP server
  gaveUp,       \* the last failure was put down to a request of the user, or
                \* there was nothing to read at the start
  station,      \* driver: the station is idle, connecting or online
  lost,         \* the station is idle since a connection broke by itself
  mode,         \* driver: with or without the access point
  scanning,     \* driver: a scan runs
  phones,       \* phones at the access point
  events,       \* driver: events on their way to the event task
  requests, failures, joins,  \* what has happened so far, for the bounds
  halted        \* an ESP_ERROR_CHECK failed

vars == <<queue, sending, bits, retries, timers, config, saved, locked, save,
          afterSave, leaked, entering, restart, gaveUp, station, lost, mode,
          scanning, phones, events, requests, failures, joins, halted>>
driver == <<station, lost, mode, scanning, phones, events>>
storage == <<locked, save, afterSave, leaked>>
credentials == <<config, saved, storage, entering>>
manager == <<queue, sending, bits, retries, timers, credentials, restart, gaveUp>>
counts == <<requests, failures, joins>>

Init ==
  /\ queue = <<>>
  /\ sending = [s \in Senders |->
                  IF s = "manager" THEN "LOAD_AND_RESTORE_STA" ELSE Nothing]
  /\ bits = {} /\ retries = 0 /\ timers = {}
  /\ config = Blank /\ saved \in {Blank} \cup {[ssid |-> n, password |-> n] : n \in Networks}
  /\ locked = FALSE /\ save = "no" /\ afterSave = "nothing" /\ leaked = FALSE
  /\ entering = <<>>
  /\ restart = "no" /\ gaveUp = FALSE
  /\ station = "idle" /\ lost = FALSE /\ mode = "STA" /\ scanning = FALSE
  /\ phones = 0 /\ events = <<>>
  /\ requests = 0 /\ failures = 0 /\ joins = 0
  /\ halted = FALSE

-----------------------------------------------------------------------------
(* wifi_manager_send_message: xQueueSend with portMAX_DELAY.               *)

StartSend(s, m) == sending' = [sending EXCEPT ![s] = m]

SendDone(s) ==
  /\ sending[s] # Nothing
  /\ Len(queue) < QueueLength
  /\ queue' = Append(queue, sending[s])
  /\ StartSend(s, Nothing)
  /\ UNCHANGED <<bits, retries, timers, credentials, restart, gaveUp, driver,
                 counts, halted>>

-----------------------------------------------------------------------------
(* The manager's task: one message at a time, when it is not sending.      *)

Handles(m) ==
  /\ sending["manager"] = Nothing
  /\ restart = "no" /\ save = "no"
  /\ queue # <<>>
  /\ Head(queue) = m
  /\ queue' = Tail(queue)

\* wifi_manager_fetch_wifi_sta_config reads SSID, password and settings; a read
\* that fails ends it, with what was read before in memory.
LoadAndRestore ==
  /\ Handles("LOAD_AND_RESTORE_STA")
  /\ \/ /\ config' = saved
        /\ saved.ssid # NoNet
        /\ StartSend("manager", "CONNECT_RESTORE")
        /\ UNCHANGED gaveUp
     \/ /\ config' \in {Blank, [saved EXCEPT !.password = NoNet], saved}
        /\ StartSend("manager", "START_AP")
        /\ gaveUp' = TRUE
  /\ UNCHANGED <<bits, retries, timers, saved, storage, entering, restart,
                 driver, counts, halted>>

RequestBits(m) ==
  CASE m = "CONNECT_USER" -> {"REQUEST_STA_CONNECT"}
    [] m = "CONNECT_RESTORE" -> {"REQUEST_RESTORE_STA"}
    [] OTHER -> {}

\* Variant: an attempt under way does not stop another one.
ConnectIgnoredOnline == "CONNECTED" \in bits
ConnectIgnored == bits \cap {"CONNECTED", "CONNECTING"} # {}

\* CONNECT_STA: nothing is done for a station that is connected or connecting.
ConnectSta(m) ==
  /\ Handles(m)
  /\ IF ConnectIgnored
     THEN /\ bits' = bits \cup RequestBits(m)
          /\ UNCHANGED <<driver, gaveUp, halted>>
     ELSE /\ bits' = bits \cup RequestBits(m) \cup {"CONNECTING"}
          /\ gaveUp' = FALSE
          /\ IF station = "idle" /\ config.ssid # NoNet
             THEN /\ station' = "connecting"
                  /\ lost' = FALSE
                  /\ scanning' = (scanning /\ "SCAN" \notin bits)
                  /\ events' = IF scanning /\ "SCAN" \in bits
                               THEN Append(events, "SCAN_DONE") ELSE events
                  /\ UNCHANGED <<mode, phones, halted>>
             ELSE halted' = TRUE /\ UNCHANGED driver
  /\ UNCHANGED <<restart, sending, retries, timers, credentials, counts>>

\* START_WIFI_SCAN; the driver refuses a scan while it is connecting.
StartScan ==
  /\ Handles("START_WIFI_SCAN")
  /\ IF bits \cap {"SCAN", "CONNECTING"} # {}
     THEN UNCHANGED <<bits, scanning, halted>>
     ELSE /\ bits' = bits \cup {"SCAN"}
          /\ scanning' = (station # "connecting")
          /\ halted' = (station = "connecting")
  /\ UNCHANGED <<sending, retries, timers, credentials, restart, gaveUp,
                 station, lost, mode, phones, events, counts>>

\* The list of networks is refreshed, whoever asks for it.
ScanDone ==
  /\ Handles("SCAN_DONE")
  /\ UNCHANGED <<sending, bits, retries, timers, credentials, restart, gaveUp,
                 driver, counts, halted>>

-----------------------------------------------------------------------------
(* wifi_manager_save_sta_config.                                           *)

BeginSave(then) == save' = "lock" /\ afterSave' = then

\* nvs_sync_lock( portMAX_DELAY ): the mutex is not recursive.
LockStorage ==
  /\ save = "lock" /\ ~locked
  /\ locked' = TRUE
  /\ save' = "ssid"
  /\ UNCHANGED <<queue, sending, bits, retries, timers, config, saved, afterSave,
                 leaked, entering, restart, gaveUp, driver, counts, halted>>

SaveSsid ==
  /\ save = "ssid"
  /\ saved' = [saved EXCEPT !.ssid = config.ssid]
  /\ save' = "password"
  /\ UNCHANGED <<queue, sending, bits, retries, timers, config, locked, afterSave,
                 leaked, entering, restart, gaveUp, driver, counts, halted>>

\* The settings, which nobody changes, are written at the first save only.
SavePassword ==
  /\ save = "password"
  /\ saved' = [saved EXCEPT !.password = config.password]
  /\ save' = "commit"
  /\ UNCHANGED <<queue, sending, bits, retries, timers, config, locked, afterSave,
                 leaked, entering, restart, gaveUp, driver, counts, halted>>

\* The handler goes on; the result of the save is not looked at.
SaveReturns ==
  /\ save' = "no"
  /\ afterSave' = "nothing"
  /\ IF afterSave = "START_AP"
     THEN StartSend("manager", "START_AP") /\ UNCHANGED <<retries, timers>>
     ELSE /\ retries' = 0
          /\ timers' = timers \cup ({afterSave} \cap Timers)
          /\ UNCHANGED sending
  /\ UNCHANGED <<queue, bits, config, saved, entering, restart, gaveUp, driver,
                 counts, halted>>

\* nvs_open or a write fails.  Variant: it returns without giving the mutex back.
SaveFailsLocked ==
  save \in {"ssid", "password", "commit"} /\ UNCHANGED <<locked, leaked>> /\ SaveReturns
SaveFails ==
  save \in {"ssid", "password", "commit"} /\ locked' = FALSE /\ UNCHANGED leaked /\ SaveReturns

Committed ==
  save = "commit" /\ locked' = FALSE /\ UNCHANGED leaked /\ SaveReturns

\* The commit fails, or the last read: the mutex is not given back.
CommitFails ==
  save = "commit" /\ leaked' = TRUE /\ UNCHANGED locked /\ SaveReturns

Save ==
  LockStorage \/ SaveSsid \/ SavePassword \/ SaveFails \/ Committed \/ CommitFails

-----------------------------------------------------------------------------
\* EVENT_STA_DISCONNECTED for an attempt the user asked for: no retry.
UserAttemptFailed ==
  /\ Handles("STA_DISCONNECTED")
  /\ "REQUEST_STA_CONNECT" \in bits
  /\ bits' = bits \ {"REQUEST_STA_CONNECT"}
  /\ timers' = timers \ {"SHUTDOWN_AP"}
  /\ gaveUp' = TRUE
  /\ UNCHANGED <<restart, sending, retries, credentials, driver, counts,
                 halted>>

\* ... for a disconnection the user asked for: the credentials are erased.
UserDisconnected ==
  /\ Handles("STA_DISCONNECTED")
  /\ "REQUEST_STA_CONNECT" \notin bits
  /\ "REQUEST_DISCONNECT" \in bits
  /\ bits' = bits \ {"REQUEST_DISCONNECT"}
  /\ timers' = timers \ {"SHUTDOWN_AP"}
  /\ config' = Blank
  /\ gaveUp' = TRUE
  /\ BeginSave("START_AP")
  /\ UNCHANGED <<sending, saved, locked, leaked, entering, restart, retries,
                 driver, counts, halted>>

\* Variant: the retry waits for the access point as well.
RetryTimersNoAp ==
  IF bits \cap {"AP_STA_CONNECTED", "AP_STARTED"} = {} THEN {"RETRY"} ELSE {}
RetryTimers == IF "AP_STA_CONNECTED" \notin bits THEN {"RETRY"} ELSE {}

\* Variant: the counter is compared after its limit.
RetriesLeftOffByOne == retries <= MaxRetries
RetriesLeft == retries < MaxRetries

\* ... and else: the connection was lost, or an automatic attempt failed.
ConnectionLost ==
  /\ Handles("STA_DISCONNECTED")
  /\ bits \cap {"REQUEST_STA_CONNECT", "REQUEST_DISCONNECT"} = {}
  /\ timers' = (timers \ {"SHUTDOWN_AP"}) \cup RetryTimers
  /\ bits' = bits \ {"REQUEST_RESTORE_STA"}
  /\ IF "AP_STARTED" \in bits
     THEN UNCHANGED <<retries, sending>>
     ELSE IF RetriesLeft
     THEN retries' = retries + 1 /\ UNCHANGED sending
     ELSE retries' = 0 /\ StartSend("manager", "START_AP")
  /\ UNCHANGED <<credentials, restart, gaveUp, driver, counts, halted>>

\* START_AP: the driver's mode is set, then the HTTP server is stopped.
StartAp ==
  /\ Handles("START_AP")
  /\ mode' = "APSTA"
  /\ events' = IF mode = "STA" THEN Append(events, "AP_START") ELSE events
  /\ restart' = "mode"
  /\ UNCHANGED <<sending, bits, retries, timers, credentials, gaveUp, station,
                 lost, scanning, phones, counts, halted>>

\* STOP_AP, when the station is connected: the same, and the phones are sent
\* away with the access point.
StopAp ==
  /\ Handles("STOP_AP")
  /\ "CONNECTED" \in bits
  /\ mode' = "STA"
  /\ phones' = 0
  /\ events' = IF mode = "STA" THEN events
               ELSE events \o [i \in 1..phones |-> "AP_STADISCONNECTED"]
                           \o <<"AP_STOP">>
  /\ restart' = "mode"
  /\ UNCHANGED <<sending, bits, retries, timers, credentials, gaveUp, station,
                 lost, scanning, counts, halted>>

StopApIgnored ==
  /\ Handles("STOP_AP")
  /\ "CONNECTED" \notin bits
  /\ UNCHANGED <<sending, bits, retries, timers, credentials, restart, gaveUp,
                 driver, counts, halted>>

\* http_app_stop: from httpd_stop on, the server takes no new request; it ends
\* with the request it is working on, and httpd_stop waits for that.
HttpStop ==
  /\ restart = "mode"
  /\ restart' = "stop"
  /\ UNCHANGED <<queue, sending, bits, retries, timers, credentials, gaveUp,
                 driver, counts, halted>>

HttpRestarted ==
  /\ restart = "stop"
  /\ sending["http"] = Nothing /\ entering = <<>>
  /\ restart' = "no"
  /\ UNCHANGED <<queue, sending, bits, retries, timers, credentials, gaveUp,
                 driver, counts, halted>>

\* A restored connection: nothing to save.
GotIpRestored ==
  /\ Handles("STA_GOT_IP")
  /\ "REQUEST_RESTORE_STA" \in bits
  /\ bits' = bits \ {"REQUEST_STA_CONNECT", "REQUEST_RESTORE_STA"}
  /\ retries' = 0
  /\ timers' = IF "AP_STARTED" \in bits THEN timers \cup {"SHUTDOWN_AP"} ELSE timers
  /\ UNCHANGED <<sending, credentials, restart, gaveUp, driver, counts, halted>>

\* Any other: the credentials saved are those in memory now.
GotIp ==
  /\ Handles("STA_GOT_IP")
  /\ "REQUEST_RESTORE_STA" \notin bits
  /\ bits' = bits \ {"REQUEST_STA_CONNECT"}
  /\ BeginSave(IF "AP_STARTED" \in bits THEN "SHUTDOWN_AP" ELSE "nothing")
  /\ UNCHANGED <<sending, config, saved, locked, leaked, entering, retries,
                 timers, restart, gaveUp, driver, counts, halted>>

\* The driver reports the end of a connection or of an attempt, if there is one.
DisconnectSta ==
  /\ Handles("DISCONNECT_STA")
  /\ bits' = bits \cup {"REQUEST_DISCONNECT"}
  /\ IF station = "idle"
     THEN UNCHANGED driver
     ELSE /\ station' = "idle"
          /\ scanning' = FALSE
          /\ events' = Append(events, "STA_DISCONNECTED")
          /\ UNCHANGED <<lost, mode, phones>>
  /\ UNCHANGED <<sending, retries, timers, credentials, restart, gaveUp,
                 counts, halted>>

Manager ==
  \/ LoadAndRestore
  \/ \E m \in Connects : ConnectSta(m)
  \/ StartScan
  \/ ScanDone
  \/ UserAttemptFailed
  \/ UserDisconnected
  \/ ConnectionLost
  \/ StartAp
  \/ StopAp
  \/ StopApIgnored
  \/ HttpStop
  \/ HttpRestarted
  \/ GotIpRestored
  \/ GotIp
  \/ DisconnectSta
  \/ Save

-----------------------------------------------------------------------------
(* wifi_manager_event_handler, in the event task.                          *)

\* Variant: a disconnection leaves the SCAN bit.
ClearedOnDisconnectNotScan == {"CONNECTED", "CONNECTING"}
ClearedOnDisconnect == {"CONNECTED", "CONNECTING", "SCAN"}

\* The bits an event clears and sets, and the message it sends.
Cleared(e) ==
  CASE e = "STA_DISCONNECTED" -> ClearedOnDisconnect
    [] e = "SCAN_DONE" -> {"SCAN"}
    [] e = "AP_STOP" -> {"AP_STARTED"}
    [] e = "AP_STACONNECTED" -> {"CONNECTING"}
    [] e = "AP_STADISCONNECTED" -> {"CONNECTING", "AP_STA_CONNECTED"}
    [] OTHER -> {}
Raised(e) ==
  CASE e = "STA_GOT_IP" -> {"CONNECTED"}
    [] e = "AP_START" -> {"AP_STARTED"}
    [] e = "AP_STACONNECTED" -> {"AP_STA_CONNECTED"}
    [] OTHER -> {}

MessageOf(e) ==
  CASE e \in Messages -> e
    [] e = "AP_STADISCONNECTED" -> "CONNECT_AUTO"
    [] OTHER -> Nothing

EventHandler ==
  /\ sending["events"] = Nothing
  /\ events # <<>>
  /\ events' = Tail(events)
  /\ bits' = (bits \ Cleared(Head(events))) \cup Raised(Head(events))
  /\ StartSend("events", MessageOf(Head(events)))
  /\ UNCHANGED <<queue, retries, timers, credentials, restart, gaveUp, station,
                 lost, mode, scanning, phones, counts, halted>>

-----------------------------------------------------------------------------
(* The timer daemon and the HTTP server.                                   *)

TimerFires(t) ==
  /\ t \in timers
  /\ sending["timers"] = Nothing
  /\ timers' = timers \ {t}
  /\ StartSend("timers", IF t = "RETRY" THEN "CONNECT_AUTO" ELSE "STOP_AP")
  /\ UNCHANGED <<queue, bits, retries, credentials, restart, gaveUp, driver,
                 counts, halted>>

\* A request reaches the server from a phone or through the station.
Request ==
  /\ requests < MaxRequests
  /\ phones > 0 \/ station = "online"
  /\ sending["http"] = Nothing /\ entering = <<>>
  /\ restart # "stop"
  /\ requests' = requests + 1
  /\ UNCHANGED <<queue, bits, retries, timers, saved, storage, restart, gaveUp,
                 driver, failures, joins, halted>>

HttpDisconnect ==
  Request /\ StartSend("http", "DISCONNECT_STA") /\ UNCHANGED <<config, entering>>
HttpScan ==
  Request /\ StartSend("http", "START_WIFI_SCAN") /\ UNCHANGED <<config, entering>>

\* POST /connect.json clears the credentials in memory, without a lock, ...
HttpConnect ==
  /\ Request
  /\ config' = Blank
  /\ \E n \in Networks : entering' = <<n, n>>
  /\ UNCHANGED sending

\* ... copies the SSID and then the password, and sends the order.
HttpCopies ==
  /\ entering # <<>>
  /\ config' = IF Len(entering) = 2 THEN [config EXCEPT !.ssid = Head(entering)]
               ELSE [config EXCEPT !.password = Head(entering)]
  /\ entering' = Tail(entering)
  /\ IF entering' = <<>> THEN StartSend("http", "CONNECT_USER") ELSE UNCHANGED sending
  /\ UNCHANGED <<queue, bits, retries, timers, saved, storage, restart, gaveUp,
                 driver, counts, halted>>

Http == HttpConnect \/ HttpCopies \/ HttpDisconnect \/ HttpScan

-----------------------------------------------------------------------------
(* The Wi-Fi driver, the network and the phones.                           *)

StationOnline ==
  /\ station = "connecting"
  /\ station' = "online"
  /\ events' = Append(events, "STA_GOT_IP")
  /\ UNCHANGED <<manager, lost, mode, scanning, phones, counts, halted>>

\* An attempt fails or a connection breaks; a scan ends without a word.
StationFails ==
  /\ station # "idle"
  /\ failures < MaxFailures
  /\ failures' = failures + 1
  /\ station' = "idle"
  /\ lost' = (station = "online")
  /\ scanning' = FALSE
  /\ events' = Append(events, "STA_DISCONNECTED")
  /\ UNCHANGED <<manager, mode, phones, requests, joins, halted>>

ScanEnds ==
  /\ scanning
  /\ scanning' = FALSE
  /\ events' = Append(events, "SCAN_DONE")
  /\ UNCHANGED <<manager, station, lost, mode, phones, counts, halted>>

PhoneJoins ==
  /\ mode = "APSTA"
  /\ joins < MaxJoins
  /\ joins' = joins + 1
  /\ phones' = phones + 1
  /\ events' = Append(events, "AP_STACONNECTED")
  /\ UNCHANGED <<manager, station, lost, mode, scanning, requests, failures,
                 halted>>

PhoneLeaves ==
  /\ phones > 0
  /\ phones' = phones - 1
  /\ events' = Append(events, "AP_STADISCONNECTED")
  /\ UNCHANGED <<manager, station, lost, mode, scanning, counts, halted>>

-----------------------------------------------------------------------------
Next ==
  /\ ~halted
  /\ \/ Manager
     \/ \E s \in Senders : SendDone(s)
     \/ EventHandler
     \/ \E t \in Timers : TimerFires(t)
     \/ Http
     \/ StationOnline
     \/ StationFails
     \/ ScanEnds
     \/ PhoneJoins
     \/ PhoneLeaves

Spec == Init /\ [][Next]_vars

\* Tasks run, a send ends when there is room, timers fire, scans and attempts
\* to connect end.  Users, phones and the network owe nothing more.
Fairness ==
  /\ WF_vars(~halted /\ Manager)
  /\ \A s \in Senders : WF_vars(~halted /\ SendDone(s))
  /\ WF_vars(~halted /\ EventHandler)
  /\ WF_vars(~halted /\ HttpCopies)
  /\ \A t \in Timers : WF_vars(~halted /\ TimerFires(t))
  /\ WF_vars(~halted /\ ScanEnds)
  /\ WF_vars(~halted /\ (StationOnline \/ (station = "connecting" /\ StationFails)))

FairSpec == Spec /\ Fairness

-----------------------------------------------------------------------------
(* Properties.                                                             *)

TypeOK ==
  /\ queue \in Seq(Messages) /\ Len(queue) <= QueueLength
  /\ sending \in [Senders -> Messages \cup {Nothing}]
  /\ bits \subseteq Bits /\ timers \subseteq Timers
  /\ retries \in 0..MaxRetries
  /\ {config, saved} \subseteq Credentials
  /\ save \in {"no", "lock", "ssid", "password", "commit"} /\ afterSave \in AfterSaves
  /\ {locked, leaked} \subseteq BOOLEAN 
  /\ entering \in Seq(Networks) /\ Len(entering) <= 2
  /\ station \in {"idle", "connecting", "online"} /\ mode \in {"STA", "APSTA"}
  /\ phones \in 0..MaxJoins /\ events \in Seq(WifiEvents)
  /\ {gaveUp, lost, scanning, halted} \subseteq BOOLEAN
  /\ restart \in {"no", "mode", "stop"}

\* Message m is queued or being sent.
Pending(m) == Contains(queue, m) \/ \E s \in Senders : sending[s] = m

\* Another attempt to connect is on its way, or waits for a phone to leave.
Retrying ==
  \/ \E m \in Connects \cup {"STA_DISCONNECTED", "LOAD_AND_RESTORE_STA"} : Pending(m)
  \/ Contains(events, "STA_DISCONNECTED")
  \/ "RETRY" \in timers \/ entering # <<>>
  \/ "AP_STA_CONNECTED" \in bits \/ Contains(events, "AP_STADISCONNECTED")

\* A device with credentials that is offline tries again, unless the failure
\* was put down to a request of the user, whatever the order of failures,
\* phones and requests (wifi_manager.c 1177-1249, 702-708).
NeverGivesUp ==
  station = "idle" /\ config.ssid # NoNet /\ ~halted => Retrying \/ gaveUp

\* A connection that breaks by itself is tried again ("Start the timer that
\* will try to restore the saved config", wifi_manager.c 1222-1226).
LostIsRetried == lost /\ config.ssid # NoNet /\ ~halted => Retrying

\* A scan cannot get stuck: while the SCAN bit keeps new ones away, the event
\* that clears it comes (wifi_manager.c 583, 663-664, 1041-1044).
ScanNeverStuck ==
  "SCAN" \in bits =>
    \/ scanning \/ halted
    \/ Contains(events, "SCAN_DONE") \/ Contains(events, "STA_DISCONNECTED")

\* As long as no phone has joined the access point, the driver is asked to
\* connect or to scan only when the station is idle: what it can refuse is an
\* order without credentials (wifi_manager.c 1041-1044, 1090-1102).
DriverAccepts == halted => joins > 0 \/ config.ssid = NoNet

\* A save gives the mutex of the flash back whichever of its accesses fails:
\* outside a save nobody holds it, and no save waits for it, unless a commit
\* has failed, after which the manager waits for ever in its next save
\* (wifi_manager.c 226-298).
StorageFree == save \in {"no", "lock"} /\ ~leaked => ~locked

\* A connection the user requests "will be process in the main task thread"
\* (wifi_manager.h 325): the order does not wait in the HTTP server for ever.
RequestProcessed == sending["http"] # Nothing ~> sending["http"] = Nothing \/ halted
=============================================================================
