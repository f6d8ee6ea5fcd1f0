----------------------------- MODULE AppStartup -----------------------------
(***************************************************************************)
(* How the device comes up: the application manager (app_manager.c), the   *)
(* network manager (network_manager.c) and the Wi-Fi driver (wifidrv.c)    *)
(* start each other by request and answer, with a timeout that races the   *)
(* answers, and the network manager then passes every change of the Wi-Fi  *)
(* link on to the TCP server, OTA and MQTT tasks.                          *)
(*                                                                         *)
(* The TCP server appears here only as the other module that answers       *)
(* INIT_REQ.  The Wi-Fi manager (esp32-wifi-manager) appears as two        *)
(* callbacks that its own task calls.                                      *)
(*                                                                         *)
(* A handler is one step: it only posts to queues, and a post of another   *)
(* task that falls between two of its posts can be moved before or after   *)
(* the whole handler without any difference to either queue.  The Wi-Fi    *)
(* driver's INIT_REQ handler is split, because the callbacks may be called *)
(* while it is still registering them.                                     *)
(***************************************************************************)
EXTENDS AppEvents

CONSTANTS
  AmLength,       \* xQueueCreate( 16, ... ) of the application manager
  NmLength,       \* xQueueCreate( 16, ... ) of the network manager
  WdLength,       \* xQueueCreate( 8, ... ) of the Wi-Fi driver
  MaxWifiEvents   \* bound: link changes the Wi-Fi manager reports

ASSUME LengthsAssumption ==
  AmLength \in Nat \ {0} /\ NmLength \in Nat \ {0} /\ WdLength \in Nat \ {0}
ASSUME WifiEventsAssumption == MaxWifiEvents \in Nat

Tasks == {"AM", "NM", "WD", "TCP"}

\* An event: its message id, the task that sent it, and the result it carries
\* (TRUE when the id carries none).
Msg(id, src, ok) == [id |-> id, src |-> src, ok |-> ok]

VARIABLES
  am,           \* application manager: its queue, ctx.state,
                \* ctx.modules_init and modules[0].init_result
  nm,           \* network manager: its queue, ctx.state, ctx.modules_init
                \* and ctx.wifi_init_status
  wd,           \* Wi-Fi driver: its queue, ctx.state and handler progress
  tcpQueue,     \* INIT_REQ on its way to the TCP server
  timers,       \* the init timers that are running
  callbacks,    \* link changes with a callback in the Wi-Fi manager
  wifi,         \* the link really is up
  wifiEvents,   \* link changes so far
  told,         \* what TCP server, OTA and MQTT were last told of the link
  missed,       \* a link change never reached them
  answers,      \* INIT_RES the network manager sent
  timedOut,     \* the network manager's timer fired
  halted        \* an assert failed

vars == <<am, nm, wd, tcpQueue, timers, callbacks, wifi, wifiEvents, told,
          missed, answers, timedOut, halted>>
link == <<callbacks, wifi, wifiEvents, told, missed>>
history == <<answers, timedOut>>

AmHandlers ==
  [DISABLED |-> {"APP_MANAGER_INIT_REQ"},
   INIT |-> {"APP_MANAGER_INIT_REQ", "APP_MANAGER_INIT_RES", "INIT_RES"},
   IDLE |-> {"INIT_REQ", "APP_MANAGER_TEMP_SENSORS_SCAN_RES"}]

\* Variant: link changes have no entry in the IDLE table.
NmIdleEventsDeaf == {"INIT_REQ"}
NmIdleEvents == {"INIT_REQ", "NETWORK_MANAGER_WIFI_CONNECT_STATUS"}

NmHandlers ==
  [DISABLED |-> {"INIT_REQ"},
   INIT |-> {"INIT_REQ", "NETWORK_MANAGER_INIT_RES",
             "NETWORK_MANAGER_TIMEOUT_INIT", "INIT_RES"},
   IDLE |-> NmIdleEvents]

WdIdleEvents == {"WIFI_UPDATE_WIFI_INFO", "DEINIT_REQ"}

WdHandlers == [DISABLED |-> {"INIT_REQ"}, IDLE |-> WdIdleEvents]

Init ==
  /\ am = [queue |-> <<Msg("APP_MANAGER_INIT_REQ", "AM", TRUE)>>,
           state |-> "DISABLED", modulesInit |-> 0, initResult |-> FALSE]
  /\ nm = [queue |-> <<>>, state |-> "DISABLED", modulesInit |-> 0,
           wifiInitStatus |-> FALSE]
  /\ wd = [queue |-> <<>>, state |-> "DISABLED", at |-> "receive"]
  /\ tcpQueue = <<>>
  /\ timers = {}
  /\ callbacks = {}
  /\ wifi = FALSE
  /\ wifiEvents = 0
  /\ told = FALSE
  /\ missed = FALSE
  /\ answers = 0
  /\ timedOut = FALSE
  /\ halted = FALSE

-----------------------------------------------------------------------------
(* Queues.                                                                 *)

\* A task's record after it took the head of its queue.
Received(task) == [task EXCEPT !.queue = Tail(@)]

\* A task's record after AppManagerPostMsg, NetworkManagerPostMsg or
\* WifiDrvPostMsg, and whether the assertion in it fails.
Posted(task, length, m) == [task EXCEPT !.queue = Send(@, length, m)]
Overflows(task, length) == Full(task.queue, length)

\* The task is about to run the handler of message id in one of the states.
Takes(task, handlers, id) ==
  /\ task.queue # <<>>
  /\ Head(task.queue).id = id
  /\ HasHandler(handlers, task.state, id)

\* AppEventSearchAndExecute finds nothing and the event is lost.
Drops(task, handlers) ==
  /\ task.queue # <<>>
  /\ ~HasHandler(handlers, task.state, Head(task.queue).id)

-----------------------------------------------------------------------------
(* Application manager.                                                    *)

AmDrop ==
  /\ Drops(am, AmHandlers)
  /\ am' = Received(am)
  /\ UNCHANGED <<nm, wd, tcpQueue, timers, link, history, halted>>

AmDisabledInitReq ==
  /\ am.state = "DISABLED"
  /\ Takes(am, AmHandlers, "APP_MANAGER_INIT_REQ")
  /\ LET next == [Received(am) EXCEPT !.state = "INIT"]
     IN  /\ am' = Posted(next, AmLength, Msg("APP_MANAGER_INIT_REQ", "AM", TRUE))
         /\ halted' = Overflows(next, AmLength)
  /\ UNCHANGED <<nm, wd, tcpQueue, timers, link, history>>

\* modules[] has one entry, the network manager.
AmInitInitReq ==
  /\ am.state = "INIT"
  /\ Takes(am, AmHandlers, "APP_MANAGER_INIT_REQ")
  /\ am' = [Received(am) EXCEPT !.modulesInit = 0]
  /\ nm' = Posted(nm, NmLength, Msg("INIT_REQ", "AM", TRUE))
  /\ halted' = Overflows(nm, NmLength)
  /\ timers' = timers \cup {"AM"}
  /\ UNCHANGED <<wd, tcpQueue, link, history>>

\* Variant: a module's answer is counted twice.
AmCountedTwice(m) ==
  IF m.src = "NM"
  THEN [Received(am) EXCEPT !.initResult = m.ok, !.modulesInit = @ + 2]
  ELSE Received(am)
\* The application manager's record with the answer of a module taken in.
AmCounted(m) ==
  IF m.src = "NM"
  THEN [Received(am) EXCEPT !.initResult = m.ok, !.modulesInit = @ + 1]
  ELSE Received(am)

\* Variant: one answer too many is waited for.
AmAllAnsweredOneMore(n) == n > 1
AmAllAnswered(n) == n >= 1

\* The module's answer; once all have answered the result goes to the queue.
AmModuleAnswer ==
  /\ Takes(am, AmHandlers, "INIT_RES")
  /\ LET counted == AmCounted(Head(am.queue))
     IN  IF AmAllAnswered(counted.modulesInit)
         THEN /\ am' = Posted(counted, AmLength,
                              Msg("APP_MANAGER_INIT_RES", "AM", counted.initResult))
              /\ halted' = Overflows(counted, AmLength)
         ELSE am' = counted /\ UNCHANGED halted
  /\ UNCHANGED <<nm, wd, tcpQueue, timers, link, history>>

\* A failed start fails the assertion.  The scan request the code sends to the
\* temperature task finds it DISABLED and is dropped there.
AmInitResult ==
  /\ Takes(am, AmHandlers, "APP_MANAGER_INIT_RES")
  /\ IF Head(am.queue).ok
     THEN /\ am' = [Received(am) EXCEPT !.state = "IDLE"]
          /\ UNCHANGED halted
     ELSE am' = Received(am) /\ halted' = TRUE
  /\ timers' = timers \ {"AM"}
  /\ UNCHANGED <<nm, wd, tcpQueue, link, history>>

\* The timeout's event has no handler in any state.
AmTimeout ==
  /\ "AM" \in timers
  /\ timers' = timers \ {"AM"}
  /\ am' = Posted(am, AmLength, Msg("APP_MANAGER_TIMEOUT_INIT", "AM", TRUE))
  /\ halted' = Overflows(am, AmLength)
  /\ UNCHANGED <<nm, wd, tcpQueue, link, history>>

-----------------------------------------------------------------------------
(* Network manager.                                                        *)

\* A link change that arrives before IDLE is lost here.
NmDrop ==
  /\ Drops(nm, NmHandlers)
  /\ nm' = Received(nm)
  /\ missed' = (missed \/ Head(nm.queue).id = "NETWORK_MANAGER_WIFI_CONNECT_STATUS")
  /\ UNCHANGED <<am, wd, tcpQueue, timers, callbacks, wifi, wifiEvents, told,
                 history, halted>>

NmDisabledInitReq ==
  /\ nm.state \in {"DISABLED", "IDLE"}
  /\ Takes(nm, NmHandlers, "INIT_REQ")
  /\ LET next == [Received(nm) EXCEPT !.state = "INIT"]
     IN  /\ nm' = Posted(next, NmLength, Msg("INIT_REQ", "NM", TRUE))
         /\ halted' = Overflows(next, NmLength)
  /\ UNCHANGED <<am, wd, tcpQueue, timers, link, history>>

NmInitInitReq ==
  /\ nm.state = "INIT"
  /\ Takes(nm, NmHandlers, "INIT_REQ")
  /\ nm' = [Received(nm) EXCEPT !.modulesInit = 0]
  /\ wd' = Posted(wd, WdLength, Msg("INIT_REQ", "NM", TRUE))
  /\ halted' = Overflows(wd, WdLength)
  /\ tcpQueue' = Append(tcpQueue, "INIT_REQ")
  /\ timers' = timers \cup {"NM"}
  /\ UNCHANGED <<am, link, history>>

\* Variant: the first answer ends the start.
NmAllAnsweredFirst(n) == n >= 1
NmAllAnswered(n) == n = 2

NmModuleAnswer ==
  /\ Takes(nm, NmHandlers, "INIT_RES")
  /\ LET m == Head(nm.queue)
         counted == [Received(nm) EXCEPT
                       !.modulesInit = @ + 1,
                       !.wifiInitStatus = IF m.src = "WD" THEN m.ok ELSE @]
     IN  IF NmAllAnswered(counted.modulesInit)
         THEN /\ nm' = Posted(counted, NmLength,
                              Msg("NETWORK_MANAGER_INIT_RES", "NM", TRUE))
              /\ halted' = Overflows(counted, NmLength)
         ELSE nm' = counted /\ UNCHANGED halted
  /\ UNCHANGED <<am, wd, tcpQueue, timers, link, history>>

NmTimeoutInit ==
  /\ Takes(nm, NmHandlers, "NETWORK_MANAGER_TIMEOUT_INIT")
  /\ nm' = Posted(Received(nm), NmLength,
                  Msg("NETWORK_MANAGER_INIT_RES", "NM", TRUE))
  /\ halted' = Overflows(Received(nm), NmLength)
  /\ UNCHANGED <<am, wd, tcpQueue, timers, link, history>>

\* Variants: the state is left as it is; the Wi-Fi driver's answer is not
\* looked at.
NmStateAfterStartSame == nm.state
NmStateAfterStartIdle == "IDLE"
NmStateAfterStart == IF nm.wifiInitStatus THEN "IDLE" ELSE "DISABLED"

NmTimersAfterStart == timers \ {"NM"}

\* Whatever made the start end, the result is the Wi-Fi driver's answer so far.
NmInitResult ==
  /\ Takes(nm, NmHandlers, "NETWORK_MANAGER_INIT_RES")
  /\ nm' = [Received(nm) EXCEPT !.state = NmStateAfterStart]
  /\ wd' = IF nm.wifiInitStatus THEN wd
           ELSE Posted(wd, WdLength, Msg("DEINIT_REQ", "NM", TRUE))
  /\ am' = Posted(am, AmLength, Msg("INIT_RES", "NM", nm.wifiInitStatus))
  /\ halted' = (Overflows(am, AmLength)
                \/ (~nm.wifiInitStatus /\ Overflows(wd, WdLength)))
  /\ answers' = answers + 1
  /\ timers' = NmTimersAfterStart
  /\ UNCHANGED <<tcpQueue, link, timedOut>>

NmTimeout ==
  /\ "NM" \in timers
  /\ timers' = timers \ {"NM"}
  /\ timedOut' = TRUE
  /\ nm' = Posted(nm, NmLength, Msg("NETWORK_MANAGER_TIMEOUT_INIT", "NM", TRUE))
  /\ halted' = Overflows(nm, NmLength)
  /\ UNCHANGED <<am, wd, tcpQueue, link, answers>>

\* Variant: a loss is passed on as a connection.
PassedOnAlwaysUp(up) == TRUE
\* What a report of the Wi-Fi link makes the services believe: ETH_CONNECTED
\* or ETH_DISCONNECTED, TCP server, OTA and MQTT one after the other.
PassedOn(up) == up

NmWifiConnectStatus ==
  /\ Takes(nm, NmHandlers, "NETWORK_MANAGER_WIFI_CONNECT_STATUS")
  /\ told' = PassedOn(Head(nm.queue).ok)
  /\ nm' = Received(nm)
  /\ UNCHANGED <<am, wd, tcpQueue, timers, callbacks, wifi, wifiEvents, missed,
                 history, halted>>

-----------------------------------------------------------------------------
(* Wi-Fi driver.  INIT_REQ runs in three steps: wifi_manager_start, the two *)
(* callbacks one by one, and the answer.  It has no action for a request    *)
(* its table does not list: none is ever sent to it (DriverTakesAll in      *)
(* AppStartupProofs).                                                       *)

WdStart ==
  /\ wd.at = "receive"
  /\ Takes(wd, WdHandlers, "INIT_REQ")
  /\ wd' = [Received(wd) EXCEPT !.at = "started"]
  /\ UNCHANGED <<am, nm, tcpQueue, timers, link, history, halted>>

WdSetCallback ==
  /\ wd.at \in {"started", "gotIp"}
  /\ callbacks' = callbacks \cup {wd.at = "started"}
  /\ wd' = [wd EXCEPT !.at = IF @ = "started" THEN "gotIp" ELSE "answer"]
  /\ UNCHANGED <<am, nm, tcpQueue, timers, wifi, wifiEvents, told, missed,
                 history, halted>>

WdAnswer ==
  /\ wd.at = "answer"
  /\ nm' = Posted(nm, NmLength, Msg("INIT_RES", "WD", TRUE))
  /\ halted' = Overflows(nm, NmLength)
  /\ wd' = [wd EXCEPT !.at = "receive", !.state = "IDLE"]
  /\ UNCHANGED <<am, tcpQueue, timers, link, history>>

\* The driver asserts that WiFiDeinit succeeds, which it need not.
WdDeinit ==
  /\ wd.at = "receive"
  /\ Takes(wd, WdHandlers, "DEINIT_REQ")
  /\ wd' = [Received(wd) EXCEPT !.state = "DISABLED"]
  /\ halted' \in BOOLEAN
  /\ UNCHANGED <<am, nm, tcpQueue, timers, link, history>>

\* The TCP server answers its first INIT_REQ; it never gets another one here.
TcpAnswer ==
  /\ tcpQueue # <<>>
  /\ tcpQueue' = Tail(tcpQueue)
  /\ nm' = Posted(nm, NmLength, Msg("INIT_RES", "TCP", TRUE))
  /\ halted' = Overflows(nm, NmLength)
  /\ UNCHANGED <<am, wd, timers, link, history>>

\* From wifi_manager_start on: the Wi-Fi manager got an address (up) or lost or
\* failed to make the connection (down); without a callback that is missed.
WifiEvent(up) ==
  /\ wd.at # "receive" \/ callbacks # {}
  /\ wifiEvents < MaxWifiEvents
  /\ wifiEvents' = wifiEvents + 1
  /\ wifi' = up
  /\ IF up \in callbacks
     THEN /\ nm' = Posted(nm, NmLength,
                     Msg("NETWORK_MANAGER_WIFI_CONNECT_STATUS", "WD", up))
          /\ halted' = Overflows(nm, NmLength)
          /\ UNCHANGED missed
     ELSE missed' = TRUE /\ UNCHANGED <<nm, halted>>
  /\ UNCHANGED <<am, wd, tcpQueue, timers, callbacks, told, history>>

-----------------------------------------------------------------------------
AmStep ==
  \/ AmDrop
  \/ AmDisabledInitReq
  \/ AmInitInitReq
  \/ AmModuleAnswer
  \/ AmInitResult

NmStep ==
  \/ NmDrop
  \/ NmDisabledInitReq
  \/ NmInitInitReq
  \/ NmModuleAnswer
  \/ NmTimeoutInit
  \/ NmInitResult
  \/ NmWifiConnectStatus

WdStep ==
  \/ WdStart
  \/ WdSetCallback
  \/ WdAnswer
  \/ WdDeinit

Next ==
  /\ ~halted
  /\ \/ AmStep
     \/ NmStep
     \/ WdStep
     \/ TcpAnswer
     \/ AmTimeout
     \/ NmTimeout
     \/ \E up \in BOOLEAN : WifiEvent(up)

Spec == Init /\ [][Next]_vars

\* Every task runs when it can and a running timer fires; the Wi-Fi link need
\* not ever change.
Fairness ==
  /\ WF_vars(~halted /\ AmStep)
  /\ WF_vars(~halted /\ NmStep)
  /\ WF_vars(~halted /\ WdStep)
  /\ WF_vars(~halted /\ TcpAnswer)
  /\ WF_vars(~halted /\ (AmTimeout \/ NmTimeout))

FairSpec == Spec /\ Fairness

-----------------------------------------------------------------------------
(* Properties.                                                             *)

Ids == {"APP_MANAGER_INIT_REQ", "APP_MANAGER_INIT_RES",
        "APP_MANAGER_TIMEOUT_INIT", "INIT_REQ", "INIT_RES", "DEINIT_REQ",
        "NETWORK_MANAGER_INIT_RES", "NETWORK_MANAGER_TIMEOUT_INIT",
        "NETWORK_MANAGER_WIFI_CONNECT_STATUS"}
Messages == [id : Ids, src : Tasks, ok : BOOLEAN]

TypeOK ==
  /\ am \in [queue : Seq(Messages), state : DOMAIN AmHandlers,
             modulesInit : 0..1, initResult : BOOLEAN]
  /\ nm \in [queue : Seq(Messages), state : DOMAIN NmHandlers,
             modulesInit : 0..2, wifiInitStatus : BOOLEAN]
  /\ wd \in [queue : Seq(Messages), state : DOMAIN WdHandlers,
             at : {"receive", "started", "gotIp", "answer"}]
  /\ Len(am.queue) <= AmLength
  /\ Len(nm.queue) <= NmLength
  /\ Len(wd.queue) <= WdLength
  /\ tcpQueue \in Seq({"INIT_REQ"})
  /\ timers \subseteq {"AM", "NM"}
  /\ callbacks \subseteq BOOLEAN
  /\ wifiEvents \in 0..MaxWifiEvents
  /\ answers \in Nat
  /\ {wifi, told, missed, timedOut, halted} \subseteq BOOLEAN

\* Nobody is told to be ready before what it needs is: the application runs
\* only with a network manager that runs, and that only with a Wi-Fi driver
\* that was started, has both callbacks set and is not being shut down,
\* whichever of answer and timeout came first (network_manager.c 188-238).
ReadyMeansWifi ==
  /\ am.state = "IDLE" => nm.state = "IDLE"
  /\ nm.state = "IDLE" =>
       wd.state = "IDLE" /\ wd.queue = <<>> /\ callbacks = BOOLEAN

\* The timeout races the answers and both post NETWORK_MANAGER_INIT_RES, but
\* the application manager gets one answer (network_manager.c 188-238).
AnsweredOnce == answers <= 1

\* The assertion at app_manager.c 198 fails only when the network manager's
\* timer fired; the order of the answers never makes it fail.
FailsOnlyAfterTimeout == halted => timedOut

\* A link change can get lost only while the network manager starts: in the
\* Wi-Fi driver before the callback is set, or in the network manager's INIT
\* table, which has no entry for it (wifidrv.c 181-183, network_manager.c
\* 92-98).
LossOnlyDuringStart == [][missed' # missed => nm.state # "IDLE"]_vars

\* The start always ends: with the application running, or with a failed
\* assertion that reboots the device (app_manager.c 176-230).
StartEnds == <>(am.state = "IDLE" \/ halted)

\* When the link has settled, the services are told of it in the end, however
\* many changes came before (network_manager.c 240-273), unless a change was
\* lost during the start.
LinkSettles == <>[](halted \/ missed \/ told = wifi)
=============================================================================
