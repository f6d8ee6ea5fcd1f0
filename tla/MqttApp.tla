------------------------------- MODULE MqttApp -------------------------------
(***************************************************************************)
(* The MQTT task (components/application/mqtt_app.c): it keeps one         *)
(* esp-mqtt client connected while the Wi-Fi link is up, retries 30 s      *)
(* after a failure, gives an attempt 10 s, and starts over with a new      *)
(* client when the configuration was saved.                                *)
(*                                                                         *)
(* ctx is shared.  A client has a task of its own, which calls             *)
(* _mqtt_event_handler, and on MQTT_EVENT_SUBSCRIBED that handler writes   *)
(* ctx.is_mqtt_connected and ctx.state while the MQTT task may be in the   *)
(* middle of a handler.  Handlers of both tasks are therefore split where  *)
(* a write of the other can be seen: after the table look-up, around       *)
(* esp_mqtt_client_destroy, after esp_mqtt_client_start, and between the   *)
(* writes of MQTT_EVENT_SUBSCRIBED.                                        *)
(*                                                                         *)
(* The esp-mqtt library is external.  It is modelled by the events it      *)
(* reports; esp_mqtt_client_destroy ends the client's task, which it can   *)
(* do only while the client is not in a callback.                          *)
(***************************************************************************)
EXTENDS AppEvents

CONSTANTS
  Clients,      \* the handles esp_mqtt_client_init can return
  Null,         \* no client
  QueueLength,  \* xQueueCreate( 8, ... )
  MaxPosts,     \* bound: link events the network manager posts
  MaxFailures,  \* bound: failures the esp-mqtt clients report
  MaxSaves,     \* bound: times the configuration is saved
  MaxBacklog    \* bound: events queued when a timer fires, few in 10 or 30 s

ASSUME ClientsAssumption == Null \notin Clients
ASSUME QueueAssumption == QueueLength \in Nat \ {0}
ASSUME BoundsAssumption ==
  MaxPosts \in Nat /\ MaxFailures \in Nat /\ MaxSaves \in Nat /\ MaxBacklog \in Nat

States == {"DISABLED", "IDLE", "CONNECT", "WORK"}
Timers == {"TRY_RECONNECT", "TIMEOUT_CONNECT"}
LinkEvents == {"ETH_CONNECTED", "ETH_DISCONNECTED"}
Events == LinkEvents \cup {"INIT_REQ", "APP_CONNECT", "APP_DISCONNECT",
                           "APP_UPDATE_CONFIG", "APP_POST_DATA"}

\* Life of a client: connecting to the broker (again and again), connected,
\* SUBSCRIBE sent, and the two points inside the SUBSCRIBED callback.
Phases == {"free", "connecting", "up", "subscribing", "marked", "working"}
InCallback == {"marked", "working"}

VARIABLES
  state,        \* ctx.state
  eth,          \* ctx.is_eth_connected
  connected,    \* ctx.is_mqtt_connected
  client,       \* ctx.client
  phase,        \* what each client is doing
  used,         \* the configuration ctx.client was created with
  timers,       \* timers that are running
  queue,        \* ctx.queue
  at,           \* where the MQTT task is
  handler,      \* the callback it found for the event it took
  config,       \* version of the configuration in memory
  saving,       \* values were set, MQTTConfig_Save has not called back yet
  link,         \* the link status the last posted event carried
  posts,        \* link events posted
  failures,     \* failures reported by clients
  orphaned,     \* ctx.client was overwritten while it held a client
  halted        \* an assert failed

vars == <<state, eth, connected, client, phase, used, timers, queue, at,
          handler, config, saving, link, posts, failures, orphaned, halted>>
environment == <<config, saving, link, posts, failures>>
task == <<at, handler>>

NoHandler == "none"

\* The handler tables: the callback of each event a state's table lists.
IdleTable ==
  [ETH_CONNECTED |-> "eth_connect", ETH_DISCONNECTED |-> "eth_disconnect",
   APP_CONNECT |-> "idle_connect", APP_DISCONNECT |-> "mqtt_disconnect"]

\* Variants: one entry is missing.
ConnectTableNoLoss ==
  [APP_CONNECT |-> "connect_connect", APP_UPDATE_CONFIG |-> "update_config",
   APP_DISCONNECT |-> "mqtt_disconnect"]
ConnectTableNoConfig ==
  [APP_CONNECT |-> "connect_connect", ETH_DISCONNECTED |-> "eth_disconnect",
   APP_DISCONNECT |-> "mqtt_disconnect"]
ConnectTable ==
  [APP_CONNECT |-> "connect_connect", ETH_DISCONNECTED |-> "eth_disconnect",
   APP_UPDATE_CONFIG |-> "update_config", APP_DISCONNECT |-> "mqtt_disconnect"]

WorkTable ==
  [ETH_CONNECTED |-> "eth_connect", ETH_DISCONNECTED |-> "eth_disconnect",
   APP_UPDATE_CONFIG |-> "update_config", APP_POST_DATA |-> "post_data",
   APP_DISCONNECT |-> "mqtt_disconnect"]

Tables == [DISABLED |-> [INIT_REQ |-> "disabled_init"], IDLE |-> IdleTable,
           CONNECT |-> ConnectTable, WORK |-> WorkTable]

Init ==
  /\ state = "DISABLED"
  /\ eth = FALSE
  /\ connected = FALSE
  /\ client = Null
  /\ phase = [c \in Clients |-> "free"]
  /\ used = 0
  /\ timers = {}
  /\ queue = <<"INIT_REQ">>
  /\ at = "receive"
  /\ handler = NoHandler
  /\ config = 0
  /\ saving = FALSE
  /\ link = FALSE
  /\ posts = 0
  /\ failures = 0
  /\ orphaned = FALSE
  /\ halted = FALSE

-----------------------------------------------------------------------------
(* The MQTT task.                                                          *)

\* MQTTApp_PostMsg: its assertion fails when the queue is full.
Post(e) ==
  /\ queue' = Send(queue, QueueLength, e)
  /\ halted' = (halted \/ Full(queue, QueueLength))

\* The task is in the given handler, having done none of it.
Runs(h) == at = "handle" /\ handler = h

\* The task goes on to its next xQueueReceive.
Done == at' = "receive" /\ handler' = NoHandler

\* The callback is looked up in the state the task finds now; an event without
\* one is dropped.
Receive ==
  /\ at = "receive"
  /\ queue # <<>>
  /\ queue' = Tail(queue)
  /\ IF Head(queue) \in DOMAIN Tables[state]
     THEN at' = "handle" /\ handler' = Tables[state][Head(queue)]
     ELSE UNCHANGED task
  /\ UNCHANGED <<state, eth, connected, client, phase, used, timers,
                 environment, orphaned, halted>>

DisabledInit ==
  /\ Runs("disabled_init")
  /\ state' = "IDLE"
  /\ IF eth THEN Post("APP_CONNECT") ELSE UNCHANGED <<queue, halted>>
  /\ Done
  /\ UNCHANGED <<eth, connected, client, phase, used, timers, environment, orphaned>>

EthConnect ==
  /\ Runs("eth_connect")
  /\ eth' = TRUE
  /\ Post("APP_CONNECT")
  /\ Done
  /\ UNCHANGED <<state, connected, client, phase, used, timers, environment, orphaned>>

EthDisconnect ==
  /\ Runs("eth_disconnect")
  /\ eth' = FALSE
  /\ Post("APP_DISCONNECT")
  /\ Done
  /\ UNCHANGED <<state, connected, client, phase, used, timers, environment, orphaned>>

\* Variant: ctx.client is reset without esp_mqtt_client_destroy.
AfterDestroyLeaks == phase
AfterDestroy == [c \in Clients |-> IF c = client THEN "free" ELSE phase[c]]

\* Variant: the retry is not armed.
AfterDisconnectNoRetry == timers
AfterDisconnect == IF eth THEN timers \cup {"TRY_RECONNECT"} ELSE timers

\* Variant: ctx.is_mqtt_connected is left set.
DestroyStaysConnected ==
  /\ Runs("mqtt_disconnect")
  /\ client # Null => phase[client] \notin InCallback
  /\ phase' = AfterDestroy
  /\ client' = Null
  /\ timers' = AfterDisconnect
  /\ UNCHANGED connected
  /\ at' = "idle"
  /\ UNCHANGED <<state, eth, used, queue, handler, environment, orphaned, halted>>
\* _state_common_mqtt_disconnect up to its last statement.  It blocks in
\* esp_mqtt_client_destroy while the client is in a callback.
Destroy ==
  /\ Runs("mqtt_disconnect")
  /\ client # Null => phase[client] \notin InCallback
  /\ phase' = AfterDestroy
  /\ client' = Null
  /\ timers' = AfterDisconnect
  /\ connected' = FALSE
  /\ at' = "idle"
  /\ UNCHANGED <<state, eth, used, queue, handler, environment, orphaned, halted>>

BecomeIdle ==
  /\ at = "idle"
  /\ state' = "IDLE"
  /\ Done
  /\ UNCHANGED <<eth, connected, client, phase, used, timers, queue,
                 environment, orphaned, halted>>

\* _state_idle_event_connect, whose first statement is an assertion.
IdleConnect ==
  /\ Runs("idle_connect")
  /\ IF connected
     THEN halted' = TRUE /\ UNCHANGED <<state, queue, timers>>
     ELSE /\ state' = "CONNECT"
          /\ Post("APP_CONNECT")
          /\ timers' = timers \ {"TRY_RECONNECT"}
  /\ Done
  /\ UNCHANGED <<eth, connected, client, phase, used, environment, orphaned>>

\* _state_connect_event_connect up to the start of the timer.  Whatever
\* ctx.client held is overwritten; the library may fail to create a client.
CreateClient ==
  /\ Runs("connect_connect")
  /\ orphaned' = (orphaned \/ client # Null)
  /\ \/ \E c \in Clients :
          /\ phase[c] = "free"
          /\ client' = c
          /\ phase' = [phase EXCEPT ![c] = "connecting"]
          /\ used' = config
     \/ client' = Null /\ UNCHANGED <<phase, used>>
  /\ at' = "arm"
  /\ UNCHANGED <<state, eth, connected, timers, queue, handler, environment, halted>>

\* Variant: the attempt is not given a timeout.
ArmTimeoutNot ==
  /\ at = "arm"
  /\ UNCHANGED timers
  /\ Done
  /\ UNCHANGED <<state, eth, connected, client, phase, used, queue,
                 environment, orphaned, halted>>
ArmTimeout ==
  /\ at = "arm"
  /\ timers' = timers \cup {"TIMEOUT_CONNECT"}
  /\ Done
  /\ UNCHANGED <<state, eth, connected, client, phase, used, queue,
                 environment, orphaned, halted>>

UpdateConfig ==
  /\ Runs("update_config")
  /\ Post("APP_DISCONNECT")
  /\ Done
  /\ UNCHANGED <<state, eth, connected, client, phase, used, timers, environment, orphaned>>

\* esp_mqtt_client_publish changes nothing of the module.
PostData ==
  /\ Runs("post_data")
  /\ Done
  /\ UNCHANGED <<state, eth, connected, client, phase, used, timers, queue,
                 environment, orphaned, halted>>

Task ==
  \/ Receive
  \/ DisabledInit
  \/ EthConnect
  \/ EthDisconnect
  \/ Destroy
  \/ BecomeIdle
  \/ IdleConnect
  \/ CreateClient
  \/ ArmTimeout
  \/ UpdateConfig
  \/ PostData

-----------------------------------------------------------------------------
(* The timer daemon.                                                       *)

\* Variant: the callback posts the number of the timer.
TimerEventNumber(t) == t
TimerEvent(t) == IF t = "TRY_RECONNECT" THEN "APP_CONNECT" ELSE "APP_DISCONNECT"

TimerFires(t) ==
  /\ t \in timers
  /\ Len(queue) <= MaxBacklog
  /\ timers' = timers \ {t}
  /\ Post(TimerEvent(t))
  /\ UNCHANGED <<state, eth, connected, client, phase, used, task, environment, orphaned>>

-----------------------------------------------------------------------------
(* The tasks of the clients, in _mqtt_event_handler.                       *)

Move(c, p) == phase' = [phase EXCEPT ![c] = p]

\* MQTT_EVENT_CONNECTED: _subscribe uses ctx.client, whichever client the
\* event is from, and sends SUBSCRIBE if that one is connected.
BrokerAccepts(c) ==
  /\ phase[c] = "connecting"
  /\ client # Null => phase[client] \notin InCallback
  /\ \/ /\ client # Null /\ (client = c \/ phase[client] # "connecting")
        /\ phase' = [phase EXCEPT ![c] = "up", ![client] = "subscribing"]
        /\ UNCHANGED <<queue, halted, failures>>
     \/ /\ failures < MaxFailures \/ client # c
        /\ failures' = IF client = c THEN failures + 1 ELSE failures
        /\ Move(c, "up")
        /\ Post("APP_DISCONNECT")
  /\ UNCHANGED <<state, eth, connected, client, used, timers, task, config,
                 saving, link, posts, orphaned>>

\* MQTT_EVENT_SUBSCRIBED, its first two statements.
SubscribedMark(c) ==
  /\ phase[c] = "subscribing"
  /\ Move(c, "marked")
  /\ connected' = TRUE
  /\ timers' = timers \ {"TIMEOUT_CONNECT"}
  /\ UNCHANGED <<state, eth, client, used, queue, task, environment, orphaned, halted>>

\* Its third statement, ...
SubscribedWork(c) ==
  /\ phase[c] = "marked"
  /\ Move(c, "working")
  /\ state' = "WORK"
  /\ UNCHANGED <<eth, connected, client, used, timers, queue, task,
                 environment, orphaned, halted>>

\* ... and its fourth.
SubscribedPost(c) ==
  /\ phase[c] = "working"
  /\ Move(c, "up")
  /\ Post("APP_POST_DATA")
  /\ UNCHANGED <<state, eth, connected, client, used, timers, task,
                 environment, orphaned>>

\* MQTT_EVENT_DISCONNECTED, after which the library connects again, or
\* MQTT_EVENT_ERROR from the transport, which comes alone or before it.
ClientFails(c) ==
  /\ phase[c] \notin InCallback \cup {"free"}
  /\ failures < MaxFailures
  /\ failures' = failures + 1
  /\ Move(c, "connecting") \/ UNCHANGED phase
  /\ Post("APP_DISCONNECT")
  /\ UNCHANGED <<state, eth, connected, client, used, timers, task, config,
                 saving, link, posts, orphaned>>

Callback(c) == SubscribedMark(c) \/ SubscribedWork(c) \/ SubscribedPost(c)

-----------------------------------------------------------------------------
(* The network manager and the TCP server, which sets the configuration.   *)

NetworkManagerPosts(up) ==
  /\ posts < MaxPosts
  /\ posts' = posts + 1
  /\ link' = up
  /\ Post(IF up THEN "ETH_CONNECTED" ELSE "ETH_DISCONNECTED")
  /\ UNCHANGED <<state, eth, connected, client, phase, used, timers, task,
                 config, saving, failures, orphaned>>

\* MQTTConfig_SetString and its like change the values in memory ...
ConfigSet ==
  /\ config < MaxSaves
  /\ config' = config + 1
  /\ saving' = TRUE
  /\ UNCHANGED <<state, eth, connected, client, phase, used, timers, queue,
                 task, link, posts, failures, orphaned, halted>>

\* ... and MQTTConfig_Save calls _update_config_cb.
ConfigSave ==
  /\ saving
  /\ saving' = FALSE
  /\ Post("APP_UPDATE_CONFIG")
  /\ UNCHANGED <<state, eth, connected, client, phase, used, timers, task,
                 config, link, posts, failures, orphaned>>

-----------------------------------------------------------------------------
Next ==
  /\ ~halted
  /\ \/ Task
     \/ \E t \in Timers : TimerFires(t)
     \/ \E c \in Clients : BrokerAccepts(c) \/ Callback(c) \/ ClientFails(c)
     \/ \E up \in BOOLEAN : NetworkManagerPosts(up)
     \/ ConfigSet
     \/ ConfigSave

Spec == Init /\ [][Next]_vars

\* The MQTT task runs when it can, a callback that began ends, and a running
\* timer fires.  The broker owes nothing.
Fairness ==
  /\ WF_vars(~halted /\ Task)
  /\ \A c \in Clients : WF_vars(~halted /\ (SubscribedWork(c) \/ SubscribedPost(c)))
  /\ \A t \in Timers : WF_vars(~halted /\ TimerFires(t))

FairSpec == Spec /\ Fairness

-----------------------------------------------------------------------------
(* Properties.                                                             *)

TypeOK ==
  /\ state \in States
  /\ client \in Clients \cup {Null}
  /\ phase \in [Clients -> Phases]
  /\ {used, config} \subseteq 0..MaxSaves
  /\ timers \subseteq Timers
  /\ queue \in Seq(Events) /\ Len(queue) <= QueueLength
  /\ at \in {"receive", "handle", "idle", "arm"}
  /\ handler \in {NoHandler} \cup UNION {{Tables[s][e] : e \in DOMAIN Tables[s]} : s \in States}
  /\ at = "receive" <=> handler = NoHandler
  /\ posts \in 0..MaxPosts /\ failures \in 0..MaxFailures
  /\ {eth, connected, saving, link, orphaned, halted} \subseteq BOOLEAN

\* A loss of the link is never lost: while the task believes the link is up
\* and it is not, the event that says so is still to be handled.  Every table
\* but DISABLED lists it (mqtt_app.c 96-126).
LossNeverForgotten ==
  eth /\ ~link =>
    Contains(queue, "ETH_DISCONNECTED") \/ handler = "eth_disconnect" \/ halted

\* No client outlives the handle to it: as long as ctx.client was never
\* overwritten, every client that runs is ctx.client, whatever callbacks and
\* timers came in between (mqtt_app.c 293-307, 359).
OneClient == \A c \in Clients : phase[c] # "free" => c = client \/ orphaned

\* The state fits the client although the client's own task writes state and
\* is_mqtt_connected too (mqtt_app.c 228-230): in WORK, where the task and the
\* device manager publish through ctx.client (385, 444), it exists unless the
\* task is just about to leave WORK, and in IDLE it is not connected, as the
\* assertion at 321 says.
StateFitsClient ==
  \/ orphaned
  \/ /\ state = "WORK" /\ at # "idle" => client # Null
     /\ state = "IDLE" => ~connected

\* With the link up the task never waits for nothing: in IDLE and in CONNECT a
\* request is queued or handled, or a timer that will post one runs, or the
\* callback that leads to WORK is under way (mqtt_app.c 299-302, 322-324, 363).
RetryPending ==
  eth /\ state \in {"IDLE", "CONNECT"} =>
    \/ at # "receive" \/ halted
    \/ Contains(queue, "APP_CONNECT") \/ Contains(queue, "APP_DISCONNECT")
    \/ (IF state = "IDLE" THEN "TRY_RECONNECT" ELSE "TIMEOUT_CONNECT") \in timers
    \/ \E c \in Clients : phase[c] = "marked"

\* A saved configuration reaches the client: one that was created with an
\* older configuration is about to be replaced (mqtt_app.c 366-379, 406).
ConfigReachesClient ==
  client # Null /\ used # config =>
    \/ saving \/ halted
    \/ Contains(queue, "APP_UPDATE_CONFIG") \/ handler = "update_config"
    \/ Contains(queue, "APP_DISCONNECT") \/ handler = "mqtt_disconnect"

\* An attempt to connect ends, whatever the broker does (mqtt_app.c 276-279,
\* 293-307, 363).
AttemptEnds == state = "CONNECT" ~> (state # "CONNECT" \/ halted)
-----------------------------------------------------------------------------
(* The task implements the session of module Session.                      *)

\* Once the client is destroyed the task is as good as idle.
Mode ==
  IF orphaned THEN "lost"
  ELSE IF at = "idle" THEN "idle"
  ELSE [DISABLED |-> "off", IDLE |-> "idle", CONNECT |-> "connecting", WORK |-> "working"][state]

Running == {c \in Clients : phase[c] # "free" /\ ~orphaned}

Abstract == INSTANCE Session WITH
  mode <- Mode,
  running <- Running,
  online <- connected /\ ~orphaned

\* Although the clients' own tasks write state and is_mqtt_connected, and may do
\* so between any two steps of a disconnect, a client is created only by an
\* attempt that has none, the task works only while that client has been
\* subscribed, and idle, it has no client and is not connected, as the
\* assertion at 321 says (mqtt_app.c 228-230, 293-307, 319-326, 353-363).
ImplementsSession == Abstract!Spec
=============================================================================
