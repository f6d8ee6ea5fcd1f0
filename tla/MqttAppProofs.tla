---------------------------- MODULE MqttAppProofs ----------------------------
(***************************************************************************)
(* Proofs about the MQTT task, for any handles the library may return, any *)
(* queue length, and any number of link events, failures and saves.        *)
(***************************************************************************)
EXTENDS MqttApp, TLAPS, SequenceTheorems

-----------------------------------------------------------------------------
(* Posting, receiving, and the handler tables.                             *)

\* Posting keeps the queue within its length and loses nothing that was in it;
\* the event arrives, or the assertion fails.
LEMMA PostProperties ==
  ASSUME TypeOK, NEW e \in Events, Post(e)
  PROVE  /\ queue' \in Seq(Events) /\ Len(queue') <= QueueLength
         /\ halted' \in BOOLEAN
         /\ \A f : Contains(queue, f) => Contains(queue', f)
         /\ halted' \/ Contains(queue', e)
<1>1. queue \in Seq(Events) /\ Len(queue) <= QueueLength /\ QueueLength \in Nat
      /\ halted \in BOOLEAN
  BY QueueAssumption DEF TypeOK
<1>2. CASE Full(queue, QueueLength)
  BY <1>1, <1>2 DEF Post, Send
<1>3. CASE ~Full(queue, QueueLength)
  <2>1. queue' = Append(queue, e) /\ Len(queue) < QueueLength /\ halted' = halted
    BY <1>1, <1>3 DEF Post, Send, Full
  <2>2. Contains(queue', e) /\ \A f : Contains(queue, f) => Contains(queue', f)
    BY <1>1, <2>1 DEF Contains
  <2> QED
    BY <1>1, <2>1, <2>2
<1> QED
  BY <1>2, <1>3

\* Receiving takes the head and leaves the rest.
LEMMA ReceiveProperties ==
  ASSUME TypeOK, queue # <<>>
  PROVE  /\ Head(queue) \in Events
         /\ Tail(queue) \in Seq(Events) /\ Len(Tail(queue)) <= QueueLength
         /\ \A f : Contains(queue, f) => Head(queue) = f \/ Contains(Tail(queue), f)
<1>1. /\ queue \in Seq(Events) /\ Len(queue) \in Nat /\ Len(queue) <= QueueLength
      /\ Len(queue) >= 1
  BY DEF TypeOK
<1>2. Tail(queue) \in Seq(Events) /\ Len(Tail(queue)) = Len(queue) - 1
  BY <1>1
<1>3. \A k \in 1..(Len(queue) - 1) : Tail(queue)[k] = queue[k + 1]
  BY <1>1
<1>4. Head(queue) = queue[1] /\ Head(queue) \in Events
  BY <1>1
<1>5. ASSUME NEW f, Contains(queue, f)
      PROVE  Head(queue) = f \/ Contains(Tail(queue), f)
  <2>1. PICK k \in 1..Len(queue) : queue[k] = f
    BY <1>5 DEF Contains
  <2>2. CASE k = 1
    BY <2>1, <2>2, <1>4
  <2>3. CASE k # 1
    <3>1. k - 1 \in 1..(Len(queue) - 1) /\ (k - 1) + 1 = k
      BY <2>3, <1>1
    <3>2. Tail(queue)[k - 1] = f /\ k - 1 \in 1..Len(Tail(queue))
      BY <3>1, <2>1, <1>2, <1>3
    <3> QED
      BY <3>2 DEF Contains
  <2> QED
    BY <2>2, <2>3
<1>6. Len(Tail(queue)) <= QueueLength
  BY <1>1, <1>2, QueueAssumption
<1> QED
  BY <1>2, <1>4, <1>5, <1>6

EventNames ==
  {"ETH_CONNECTED", "ETH_DISCONNECTED", "INIT_REQ", "APP_CONNECT", "APP_DISCONNECT",
   "APP_UPDATE_CONFIG", "APP_POST_DATA"}

Callbacks ==
  {"disabled_init", "eth_connect", "eth_disconnect", "idle_connect",
   "mqtt_disconnect", "connect_connect", "update_config", "post_data"}

LEMMA EventNamesAreEvents == EventNames = Events
  BY DEF EventNames, Events, LinkEvents

\* What each state finds in its table.
LEMMA TableProperties ==
  /\ DOMAIN Tables["DISABLED"] = {"INIT_REQ"}
  /\ DOMAIN Tables["IDLE"] =
       {"ETH_CONNECTED", "ETH_DISCONNECTED", "APP_CONNECT", "APP_DISCONNECT"}
  /\ DOMAIN Tables["CONNECT"] =
       {"APP_CONNECT", "ETH_DISCONNECTED", "APP_UPDATE_CONFIG", "APP_DISCONNECT"}
  /\ DOMAIN Tables["WORK"] =
       {"ETH_CONNECTED", "ETH_DISCONNECTED", "APP_UPDATE_CONFIG", "APP_POST_DATA",
        "APP_DISCONNECT"}
  /\ Tables["DISABLED"]["INIT_REQ"] = "disabled_init"
  /\ Tables["IDLE"]["ETH_CONNECTED"] = "eth_connect"
  /\ Tables["IDLE"]["ETH_DISCONNECTED"] = "eth_disconnect"
  /\ Tables["IDLE"]["APP_CONNECT"] = "idle_connect"
  /\ Tables["IDLE"]["APP_DISCONNECT"] = "mqtt_disconnect"
  /\ Tables["CONNECT"]["APP_CONNECT"] = "connect_connect"
  /\ Tables["CONNECT"]["ETH_DISCONNECTED"] = "eth_disconnect"
  /\ Tables["CONNECT"]["APP_UPDATE_CONFIG"] = "update_config"
  /\ Tables["CONNECT"]["APP_DISCONNECT"] = "mqtt_disconnect"
  /\ Tables["WORK"]["ETH_CONNECTED"] = "eth_connect"
  /\ Tables["WORK"]["ETH_DISCONNECTED"] = "eth_disconnect"
  /\ Tables["WORK"]["APP_UPDATE_CONFIG"] = "update_config"
  /\ Tables["WORK"]["APP_POST_DATA"] = "post_data"
  /\ Tables["WORK"]["APP_DISCONNECT"] = "mqtt_disconnect"
  BY DEF Tables, IdleTable, ConnectTable, WorkTable

LEMMA CallbacksFound ==
  UNION {{Tables[s][e] : e \in DOMAIN Tables[s]} : s \in States} = Callbacks
<1>1. \A s \in States : \A e \in DOMAIN Tables[s] : Tables[s][e] \in Callbacks
  BY TableProperties DEF States, Callbacks
<1>2. \A h \in Callbacks : \E s \in States : \E e \in DOMAIN Tables[s] : Tables[s][e] = h
  BY TableProperties DEF States, Callbacks
<1> QED
  BY <1>1, <1>2

-----------------------------------------------------------------------------
(* Type correctness.                                                       *)

LEMMA InitTypeOK == Init => TypeOK
<1> SUFFICES ASSUME Init PROVE TypeOK
  OBVIOUS
<1>1. <<"INIT_REQ">> \in Seq(Events) /\ Len(<<"INIT_REQ">>) <= QueueLength
  BY QueueAssumption DEF Events
<1>2. 0 \in 0..MaxSaves /\ 0 \in 0..MaxPosts /\ 0 \in 0..MaxFailures
  BY BoundsAssumption
<1> QED
  BY <1>1, <1>2 DEF Init, TypeOK, States, Phases, NoHandler

LEMMA NextTypeOK == TypeOK /\ [Next]_vars => TypeOK'
<1> SUFFICES ASSUME TypeOK, [Next]_vars PROVE TypeOK'
  OBVIOUS
<1>0. /\ handler \in {NoHandler} \cup Callbacks
      /\ handler' \in {NoHandler} \cup Callbacks
           => handler' \in {NoHandler} \cup UNION {{Tables[s][e] : e \in DOMAIN Tables[s]} : s \in States}
  BY CallbacksFound DEF TypeOK
<1> USE <1>0, EventNamesAreEvents DEF EventNames, task, environment, Done, Runs
<1>1. CASE Receive
  <2>1. Head(queue) \in DOMAIN Tables[state] => Tables[state][Head(queue)] \in Callbacks
    BY CallbacksFound DEF TypeOK
  <2>2. NoHandler \notin Callbacks
    BY DEF NoHandler, Callbacks
  <2> QED
    BY <1>1, <2>1, <2>2, ReceiveProperties DEF Receive, TypeOK
<1>2. CASE DisabledInit
  BY <1>2, PostProperties DEF DisabledInit, TypeOK, States
<1>3. CASE EthConnect
  BY <1>3, PostProperties DEF EthConnect, TypeOK
<1>4. CASE EthDisconnect
  BY <1>4, PostProperties DEF EthDisconnect, TypeOK
<1>5. CASE Destroy
  <2>1. phase' \in [Clients -> Phases]
    BY <1>5 DEF Destroy, AfterDestroy, TypeOK, Phases
  <2> QED
    BY <1>5, <2>1 DEF Destroy, AfterDisconnect, TypeOK, Timers, NoHandler
<1>6. CASE BecomeIdle
  BY <1>6 DEF BecomeIdle, TypeOK, States
<1>7. CASE IdleConnect
  BY <1>7, PostProperties DEF IdleConnect, TypeOK, States
<1>8. CASE CreateClient
  BY <1>8 DEF CreateClient, TypeOK, Phases, NoHandler
<1>9. CASE ArmTimeout
  BY <1>9 DEF ArmTimeout, TypeOK, Timers
<1>10. CASE UpdateConfig
  BY <1>10, PostProperties DEF UpdateConfig, TypeOK
<1>11. CASE PostData
  BY <1>11 DEF PostData, TypeOK
<1>12. CASE \E t \in Timers : TimerFires(t)
  BY <1>12, PostProperties DEF TimerFires, TimerEvent, TypeOK
<1>13. ASSUME NEW c \in Clients, BrokerAccepts(c) PROVE TypeOK'
  <2>1. phase' \in [Clients -> Phases]
    BY <1>13 DEF BrokerAccepts, Move, TypeOK, Phases
  <2>2. failures' \in 0..MaxFailures
    BY <1>13, BoundsAssumption DEF BrokerAccepts, TypeOK
  <2>3. queue' \in Seq(Events) /\ Len(queue') <= QueueLength /\ halted' \in BOOLEAN
    BY <1>13, PostProperties DEF BrokerAccepts, TypeOK
  <2> QED
    BY <1>13, <2>1, <2>2, <2>3 DEF BrokerAccepts, TypeOK
<1>14. ASSUME NEW c \in Clients, SubscribedMark(c) \/ SubscribedWork(c) PROVE TypeOK'
  BY <1>14 DEF SubscribedMark, SubscribedWork, Move, TypeOK, Phases, States
<1>15. ASSUME NEW c \in Clients, SubscribedPost(c) PROVE TypeOK'
  BY <1>15, PostProperties DEF SubscribedPost, Move, TypeOK, Phases
<1>16. ASSUME NEW c \in Clients, ClientFails(c) PROVE TypeOK'
  BY <1>16, PostProperties, BoundsAssumption DEF ClientFails, Move, TypeOK, Phases
<1>17. CASE \E up \in BOOLEAN : NetworkManagerPosts(up)
  BY <1>17, PostProperties, BoundsAssumption DEF NetworkManagerPosts, TypeOK
<1>18. CASE ConfigSet
  BY <1>18, BoundsAssumption DEF ConfigSet, TypeOK
<1>19. CASE ConfigSave
  BY <1>19, PostProperties DEF ConfigSave, TypeOK
<1>20. CASE UNCHANGED vars
  BY <1>20 DEF vars, TypeOK
<1> QED
  BY <1>1, <1>2, <1>3, <1>4, <1>5, <1>6, <1>7, <1>8, <1>9, <1>10, <1>11, <1>12,
     <1>13, <1>14, <1>15, <1>16, <1>17, <1>18, <1>19, <1>20 DEF Next, Task, Callback

\* Every variable of the task, its queue and its clients stays in its type.
THEOREM TypeCorrect == Spec => []TypeOK
  BY InitTypeOK, NextTypeOK, PTL DEF Spec

-----------------------------------------------------------------------------
(* What the task is at, what its state is and whether it has a client.     *)

\* A client is held in CONNECT and WORK only; a handler may run in another
\* state than the one whose table it was found in, but only if a client's task
\* has made it WORK meanwhile.
ControlInv ==
  /\ at = "idle" => handler = "mqtt_disconnect" /\ client = Null
  /\ at = "arm" => handler = "connect_connect"
  /\ handler = "connect_connect" => state \in {"CONNECT", "WORK"}
  /\ handler = "post_data" => state = "WORK"
  /\ handler = "disabled_init" => state = "DISABLED"
  /\ handler = "eth_connect" => state # "DISABLED"
  /\ client # Null => state \in {"CONNECT", "WORK"}
  /\ state = "DISABLED" => ~eth /\ \A c \in Clients : phase[c] = "free"

LEMMA InitControl == Init => ControlInv
  BY DEF Init, ControlInv, NoHandler

LEMMA NextControl == TypeOK /\ ControlInv /\ [Next]_vars => ControlInv'
<1> SUFFICES ASSUME TypeOK, ControlInv, [Next]_vars PROVE ControlInv'
  OBVIOUS
<1> USE DEF ControlInv, task, environment, Done, Runs, NoHandler
<1>1. CASE Receive
  <2>1. at' = "handle" => /\ handler' = Tables[state][Head(queue)]
                          /\ Head(queue) \in DOMAIN Tables[state]
    BY <1>1 DEF Receive
  <2>2. \A s \in States : \A e \in DOMAIN Tables[s] :
          /\ Tables[s][e] = "connect_connect" => s = "CONNECT"
          /\ Tables[s][e] = "post_data" => s = "WORK"
          /\ Tables[s][e] = "disabled_init" => s = "DISABLED"
          /\ Tables[s][e] = "eth_connect" => s # "DISABLED"
    BY TableProperties DEF States
  <2>3. state \in States
    BY DEF TypeOK
  <2> QED
    BY <1>1, <2>1, <2>2, <2>3 DEF Receive
<1>2. CASE DisabledInit \/ EthConnect \/ EthDisconnect
  BY <1>2 DEF DisabledInit, EthConnect, EthDisconnect
<1>3. CASE Destroy
  <2>1. state = "DISABLED" => \A c \in Clients : phase'[c] = "free"
    BY <1>3 DEF Destroy, AfterDestroy
  <2> QED
    BY <1>3, <2>1 DEF Destroy
<1>4. CASE BecomeIdle \/ IdleConnect \/ ArmTimeout \/ UpdateConfig \/ PostData
  BY <1>4 DEF BecomeIdle, IdleConnect, ArmTimeout, UpdateConfig, PostData
<1>5. CASE CreateClient
  BY <1>5 DEF CreateClient
<1>6. CASE \E t \in Timers : TimerFires(t)
  BY <1>6 DEF TimerFires
<1>7. ASSUME NEW c \in Clients, BrokerAccepts(c) \/ Callback(c) \/ ClientFails(c)
      PROVE  ControlInv'
  <2>1. phase[c] # "free" /\ state # "DISABLED"
    BY <1>7 DEF BrokerAccepts, Callback, SubscribedMark, SubscribedWork, SubscribedPost,
                ClientFails
  <2>2. UNCHANGED <<task, client, eth>> /\ state' \in {state, "WORK"}
    BY <1>7 DEF BrokerAccepts, Callback, SubscribedMark, SubscribedWork, SubscribedPost,
                ClientFails
  <2> QED
    BY <2>1, <2>2
<1>8. CASE (\E up \in BOOLEAN : NetworkManagerPosts(up)) \/ ConfigSet \/ ConfigSave
  BY <1>8 DEF NetworkManagerPosts, ConfigSet, ConfigSave
<1>9. CASE UNCHANGED vars
  BY <1>9 DEF vars
<1> QED
  BY <1>1, <1>2, <1>3, <1>4, <1>5, <1>6, <1>7, <1>8, <1>9 DEF Next, Task

LEMMA ControlAlways == Spec => [](TypeOK /\ ControlInv)
  BY InitTypeOK, NextTypeOK, InitControl, NextControl, PTL DEF Spec

-----------------------------------------------------------------------------
(* One client.                                                             *)

LEMMA NextOneClient == TypeOK /\ OneClient /\ [Next]_vars => OneClient'
<1> SUFFICES ASSUME TypeOK, OneClient, [Next]_vars PROVE OneClient'
  OBVIOUS
<1> USE DEF OneClient, environment
<1>1. CASE Destroy
  BY <1>1 DEF Destroy, AfterDestroy
<1>2. CASE CreateClient
  <2>1. CASE orphaned \/ client # Null
    BY <1>2, <2>1 DEF CreateClient
  <2>2. CASE ~orphaned /\ client = Null
    <3>1. \A d \in Clients : phase[d] = "free"
      BY <2>2, ClientsAssumption
    <3>2. \A d \in Clients : d # client' => phase'[d] = phase[d]
      BY <1>2 DEF CreateClient, TypeOK
    <3> QED
      BY <3>1, <3>2
  <2> QED
    BY <2>1, <2>2
<1>3. ASSUME NEW c \in Clients, BrokerAccepts(c) \/ Callback(c) \/ ClientFails(c)
      PROVE  OneClient'
  <2>1. UNCHANGED <<client, orphaned>> /\ phase[c] # "free"
    BY <1>3 DEF BrokerAccepts, Callback, SubscribedMark, SubscribedWork, SubscribedPost,
                ClientFails
  <2>2. \A d \in Clients : d # c /\ d # client => phase'[d] = phase[d]
    BY <1>3 DEF BrokerAccepts, Callback, SubscribedMark, SubscribedWork, SubscribedPost,
                ClientFails, Move, TypeOK
  <2> QED
    BY <2>1, <2>2
<1>4. CASE UNCHANGED <<client, phase, orphaned>>
  BY <1>4
<1>5. CASE \/ Receive \/ DisabledInit \/ EthConnect \/ EthDisconnect \/ BecomeIdle
           \/ IdleConnect \/ ArmTimeout \/ UpdateConfig \/ PostData
  BY <1>4, <1>5 DEF Receive, DisabledInit, EthConnect, EthDisconnect, BecomeIdle,
     IdleConnect, ArmTimeout, UpdateConfig, PostData
<1>6. CASE \/ (\E t \in Timers : TimerFires(t)) \/ ConfigSet \/ ConfigSave
           \/ (\E up \in BOOLEAN : NetworkManagerPosts(up))
  BY <1>4, <1>6 DEF TimerFires, ConfigSet, ConfigSave, NetworkManagerPosts
<1>7. CASE UNCHANGED vars
  BY <1>4, <1>7 DEF vars
<1> QED
  BY <1>1, <1>2, <1>3, <1>5, <1>6, <1>7 DEF Next, Task

\* As long as ctx.client was never overwritten, every client that runs is
\* ctx.client, for any number of handles, failures and timers (mqtt_app.c
\* 293-307, 359).
THEOREM ClientUnique == Spec => []OneClient
<1>1. Init => OneClient
  BY DEF Init, OneClient
<1> QED
  BY <1>1, NextOneClient, TypeCorrect, PTL DEF Spec

-----------------------------------------------------------------------------
(* The state and the client.                                               *)

\* Unless a client was orphaned, a state without a client is not connected, and
\* the client is gone only between its destruction and the change to IDLE.
FitInv ==
  \/ orphaned
  \/ /\ state \in {"DISABLED", "IDLE"} => ~connected
     /\ at = "idle" => ~connected
     /\ state = "WORK" /\ at # "idle" => client # Null

\* A handle that was overwritten is lost for good.
LEMMA OrphanStays == orphaned /\ [Next]_vars => orphaned'
<1> SUFFICES ASSUME orphaned, [Next]_vars PROVE orphaned'
  OBVIOUS
<1>1. CASE Receive \/ DisabledInit \/ EthConnect \/ EthDisconnect \/ Destroy \/ BecomeIdle
  BY <1>1 DEF Receive, DisabledInit, EthConnect, EthDisconnect, Destroy, BecomeIdle
<1>2. CASE IdleConnect \/ CreateClient \/ ArmTimeout \/ UpdateConfig \/ PostData
  BY <1>2 DEF IdleConnect, CreateClient, ArmTimeout, UpdateConfig, PostData
<1>3. CASE \/ (\E t \in Timers : TimerFires(t)) \/ ConfigSet \/ ConfigSave
           \/ (\E up \in BOOLEAN : NetworkManagerPosts(up))
  BY <1>3 DEF TimerFires, ConfigSet, ConfigSave, NetworkManagerPosts
<1>4. CASE \E c \in Clients : BrokerAccepts(c) \/ Callback(c) \/ ClientFails(c)
  BY <1>4 DEF BrokerAccepts, Callback, SubscribedMark, SubscribedWork, SubscribedPost,
     ClientFails, environment
<1>5. CASE UNCHANGED vars
  BY <1>5 DEF vars
<1> QED
  BY <1>1, <1>2, <1>3, <1>4, <1>5 DEF Next, Task

LEMMA NextFit ==
  TypeOK /\ ControlInv /\ OneClient /\ FitInv /\ [Next]_vars => FitInv'
<1> SUFFICES ASSUME TypeOK, ControlInv, OneClient, FitInv, ~orphaned, [Next]_vars
             PROVE  FitInv'
  BY OrphanStays DEF FitInv
<1> USE DEF FitInv, ControlInv, task, environment, Done, Runs
<1>1. CASE Receive
  BY <1>1 DEF Receive
<1>2. CASE DisabledInit \/ EthConnect \/ EthDisconnect \/ UpdateConfig \/ PostData
  BY <1>2 DEF DisabledInit, EthConnect, EthDisconnect, UpdateConfig, PostData
<1>3. CASE Destroy \/ BecomeIdle
  BY <1>3 DEF Destroy, BecomeIdle
<1>4. CASE IdleConnect
  BY <1>4 DEF IdleConnect
<1>5. CASE CreateClient
  BY <1>5 DEF CreateClient
<1>6. CASE ArmTimeout
  BY <1>6 DEF ArmTimeout
<1>7. ASSUME NEW c \in Clients, BrokerAccepts(c) \/ Callback(c) \/ ClientFails(c)
      PROVE  FitInv'
  <2>1. c = client /\ client # Null /\ state \in {"CONNECT", "WORK"} /\ at # "idle"
    BY <1>7, ClientsAssumption DEF OneClient, BrokerAccepts, Callback, SubscribedMark,
       SubscribedWork, SubscribedPost, ClientFails
  <2>2. UNCHANGED <<task, client>> /\ state' \in {state, "WORK"}
    BY <1>7 DEF BrokerAccepts, Callback, SubscribedMark, SubscribedWork, SubscribedPost,
                ClientFails
  <2> QED
    BY <2>1, <2>2
<1>8. CASE \/ (\E t \in Timers : TimerFires(t)) \/ ConfigSet \/ ConfigSave
           \/ (\E up \in BOOLEAN : NetworkManagerPosts(up))
  BY <1>8 DEF TimerFires, ConfigSet, ConfigSave, NetworkManagerPosts
<1>9. CASE UNCHANGED vars
  BY <1>9 DEF vars
<1> QED
  BY <1>1, <1>2, <1>3, <1>4, <1>5, <1>6, <1>7, <1>8, <1>9 DEF Next, Task

\* State and client fit although two tasks write them: in WORK there is a client
\* to publish through until the task is about to leave WORK, and in IDLE the
\* assertion at mqtt_app.c 321 holds (mqtt_app.c 228-230, 293-307).
THEOREM StateAndClient == Spec => []StateFitsClient
<1>1. Init => FitInv
  BY DEF Init, FitInv
<1>2. FitInv => StateFitsClient
  BY DEF FitInv, StateFitsClient
<1> QED
  BY <1>1, <1>2, NextFit, ControlAlways, ClientUnique, PTL DEF Spec

-----------------------------------------------------------------------------
(* The next attempt.                                                       *)

\* What keeps a task in IDLE or CONNECT going is also there when it enters IDLE.
RetryInv ==
  /\ RetryPending
  /\ at = "idle" /\ eth =>
       halted \/ "TRY_RECONNECT" \in timers \/ Contains(queue, "APP_CONNECT")

LEMMA NextRetry ==
  TypeOK /\ ControlInv /\ RetryInv /\ [Next]_vars => RetryInv'
<1> SUFFICES ASSUME TypeOK, ControlInv, RetryInv, ~halted, [Next]_vars PROVE RetryInv'
  BY DEF Next, vars, RetryInv, RetryPending
<1> USE EventNamesAreEvents
    DEF RetryInv, RetryPending, EventNames, task, environment, Done, Runs
<1>1. CASE Receive
  <2>1. CASE Head(queue) \in DOMAIN Tables[state]
    BY <1>1, <2>1 DEF Receive
  <2>2. CASE Head(queue) \notin DOMAIN Tables[state]
    <3>1. state \in {"IDLE", "CONNECT"} => Head(queue) \notin {"APP_CONNECT", "APP_DISCONNECT"}
      BY <2>2, TableProperties
    <3>2. UNCHANGED <<state, eth, at, timers, phase, halted>> /\ at = "receive" /\ queue' = Tail(queue)
      BY <1>1, <2>2 DEF Receive
    <3>3. \A f : Contains(queue, f) => Head(queue) = f \/ Contains(queue', f)
      BY <1>1, <3>2, ReceiveProperties DEF Receive
    <3> QED
      BY <3>1, <3>2, <3>3
  <2> QED
    BY <2>1, <2>2
<1>2. CASE DisabledInit \/ EthConnect \/ EthDisconnect
  BY <1>2, PostProperties DEF DisabledInit, EthConnect, EthDisconnect
<1>3. CASE Destroy
  BY <1>3 DEF Destroy, AfterDisconnect
<1>4. CASE BecomeIdle
  BY <1>4 DEF BecomeIdle
<1>5. CASE IdleConnect
  BY <1>5, PostProperties DEF IdleConnect
<1>6. CASE CreateClient
  BY <1>6 DEF CreateClient
<1>7. CASE ArmTimeout
  BY <1>7 DEF ArmTimeout, ControlInv
<1>8. CASE UpdateConfig
  BY <1>8, PostProperties DEF UpdateConfig
<1>9. CASE PostData
  BY <1>9 DEF PostData, ControlInv
<1>10. ASSUME NEW t \in Timers, TimerFires(t) PROVE RetryInv'
  BY <1>10, PostProperties DEF TimerFires, TimerEvent, Timers
<1>11. ASSUME NEW c \in Clients, BrokerAccepts(c) PROVE RetryInv'
  <2>1. UNCHANGED <<state, eth, at, timers>>
    BY <1>11 DEF BrokerAccepts
  <2>2. \A d \in Clients : phase[d] = "marked" => phase'[d] = "marked"
    BY <1>11 DEF BrokerAccepts, Move, InCallback, TypeOK
  <2>3. (\A f : Contains(queue, f) => Contains(queue', f))
    BY <1>11, PostProperties DEF BrokerAccepts
  <2> QED
    BY <2>1, <2>2, <2>3
<1>12. ASSUME NEW c \in Clients, SubscribedMark(c) PROVE RetryInv'
  <2>1. phase'[c] = "marked"
    BY <1>12 DEF SubscribedMark, Move, TypeOK
  <2> QED
    BY <1>12, <2>1 DEF SubscribedMark
<1>13. ASSUME NEW c \in Clients, SubscribedWork(c) PROVE RetryInv'
  BY <1>13 DEF SubscribedWork
<1>14. ASSUME NEW c \in Clients, SubscribedPost(c) \/ ClientFails(c) PROVE RetryInv'
  <2>1. UNCHANGED <<state, eth, at, timers>>
    BY <1>14 DEF SubscribedPost, ClientFails
  <2>2. \A d \in Clients : phase[d] = "marked" => phase'[d] = "marked"
    BY <1>14 DEF SubscribedPost, ClientFails, Move, InCallback, TypeOK
  <2>3. (\A f : Contains(queue, f) => Contains(queue', f))
    BY <1>14, PostProperties DEF SubscribedPost, ClientFails
  <2> QED
    BY <2>1, <2>2, <2>3
<1>15. CASE (\E up \in BOOLEAN : NetworkManagerPosts(up)) \/ ConfigSet \/ ConfigSave
  <2>1. UNCHANGED <<state, eth, at, timers, phase>>
    BY <1>15 DEF NetworkManagerPosts, ConfigSet, ConfigSave
  <2>2. \A f : Contains(queue, f) => Contains(queue', f)
    BY <1>15, PostProperties DEF NetworkManagerPosts, ConfigSet, ConfigSave
  <2> QED
    BY <2>1, <2>2
<1>16. CASE UNCHANGED vars
  BY <1>16 DEF vars
<1> QED
  BY <1>1, <1>2, <1>3, <1>4, <1>5, <1>6, <1>7, <1>8, <1>9, <1>10, <1>11, <1>12,
     <1>13, <1>14, <1>15, <1>16 DEF Next, Task, Callback

\* While the link is up the task never waits for nothing: the event, the timer
\* or the callback that makes it try again is there, whatever handles were
\* overwritten (mqtt_app.c 299-302, 322-324, 363).
THEOREM RetryGoesOn == Spec => []RetryPending
<1>1. Init => RetryInv
  BY DEF Init, RetryInv, RetryPending
<1>2. RetryInv => RetryPending
  BY DEF RetryInv
<1> QED
  BY <1>1, <1>2, NextRetry, ControlAlways, PTL DEF Spec

-----------------------------------------------------------------------------
(* A saved configuration.                                                  *)

LEMMA NextConfig ==
  TypeOK /\ ControlInv /\ ConfigReachesClient /\ [Next]_vars => ConfigReachesClient'
<1> SUFFICES ASSUME TypeOK, ControlInv, ConfigReachesClient, ~halted, [Next]_vars
             PROVE  ConfigReachesClient'
  BY DEF Next, vars, ConfigReachesClient
<1> USE EventNamesAreEvents
    DEF ConfigReachesClient, EventNames, task, environment, Done, Runs
<1>1. CASE Receive
  <2>1. \A f : Contains(queue, f) => Head(queue) = f \/ Contains(queue', f)
    BY <1>1, ReceiveProperties DEF Receive
  <2>2. UNCHANGED <<client, used, config, saving, halted>> /\ at = "receive"
    BY <1>1 DEF Receive
  <2>3. ASSUME client # Null, Head(queue) = "APP_UPDATE_CONFIG"
        PROVE  handler' = "update_config"
    BY <1>1, <2>3, TableProperties DEF Receive, ControlInv
  <2>4. ASSUME client # Null, Head(queue) = "APP_DISCONNECT"
        PROVE  handler' = "mqtt_disconnect"
    BY <1>1, <2>4, TableProperties DEF Receive, ControlInv
  <2>5. handler \notin {"update_config", "mqtt_disconnect"}
    BY <2>2 DEF TypeOK, NoHandler
  <2> QED
    BY <2>1, <2>2, <2>3, <2>4, <2>5
<1>2. CASE DisabledInit \/ EthConnect \/ EthDisconnect \/ IdleConnect
  <2>1. \A f : Contains(queue, f) => Contains(queue', f)
    BY <1>2, PostProperties DEF DisabledInit, EthConnect, EthDisconnect, IdleConnect
  <2> QED
    BY <1>2, <2>1 DEF DisabledInit, EthConnect, EthDisconnect, IdleConnect
<1>3. CASE Destroy
  BY <1>3 DEF Destroy
<1>4. CASE BecomeIdle
  BY <1>4 DEF BecomeIdle, ControlInv
<1>5. CASE CreateClient
  BY <1>5 DEF CreateClient
<1>6. CASE ArmTimeout
  BY <1>6 DEF ArmTimeout, ControlInv
<1>7. CASE UpdateConfig
  BY <1>7, PostProperties DEF UpdateConfig
<1>8. CASE PostData
  BY <1>8 DEF PostData
<1>9. CASE \/ (\E t \in Timers : TimerFires(t))
           \/ (\E c \in Clients : BrokerAccepts(c) \/ ClientFails(c) \/ SubscribedPost(c))
           \/ (\E up \in BOOLEAN : NetworkManagerPosts(up))
  <2>1. UNCHANGED <<client, used, config, saving, handler>>
    BY <1>9 DEF TimerFires, BrokerAccepts, ClientFails, SubscribedPost, NetworkManagerPosts
  <2>2. UNCHANGED queue \/ \E e \in Events : Post(e)
    BY <1>9 DEF TimerFires, TimerEvent, BrokerAccepts, ClientFails, SubscribedPost,
                NetworkManagerPosts
  <2>3. \A f : Contains(queue, f) => Contains(queue', f)
    BY <2>2, PostProperties
  <2> QED
    BY <2>1, <2>3
<1>10. CASE \E c \in Clients : SubscribedMark(c) \/ SubscribedWork(c)
  BY <1>10 DEF SubscribedMark, SubscribedWork
<1>11. CASE ConfigSet
  BY <1>11 DEF ConfigSet
<1>12. CASE ConfigSave
  BY <1>12, PostProperties DEF ConfigSave
<1>13. CASE UNCHANGED vars
  BY <1>13 DEF vars
<1> QED
  BY <1>1, <1>2, <1>3, <1>4, <1>5, <1>6, <1>7, <1>8, <1>9, <1>10, <1>11, <1>12,
     <1>13 DEF Next, Task, Callback

\* A client that was created with an older configuration is about to be
\* replaced: the event of the save is never dropped while there is a client, as
\* CONNECT and WORK both list it (mqtt_app.c 366-379, 406).
THEOREM ConfigUsed == Spec => []ConfigReachesClient
<1>1. Init => ConfigReachesClient
  BY DEF Init, ConfigReachesClient
<1> QED
  BY <1>1, NextConfig, ControlAlways, PTL DEF Spec

-----------------------------------------------------------------------------
(* A lost link.                                                            *)

\* While the link is down, an ETH_CONNECTED that is queued has an
\* ETH_DISCONNECTED behind it.
LossQueued ==
  ~link => \A i \in 1..Len(queue) :
             queue[i] = "ETH_CONNECTED" =>
               \E j \in 1..Len(queue) : j > i /\ queue[j] = "ETH_DISCONNECTED"

LossInv ==
  ~halted =>
    /\ LossQueued
    /\ ~link /\ handler = "eth_connect" => Contains(queue, "ETH_DISCONNECTED")
    /\ LossNeverForgotten

\* Posting any other event disturbs none of this.
LEMMA PostKeepsLoss ==
  ASSUME TypeOK, NEW e \in Events \ {"ETH_CONNECTED"}, Post(e), link' = link, LossQueued
  PROVE  LossQueued'
<1>1. queue \in Seq(Events) /\ (queue' = queue \/ queue' = Append(queue, e))
  BY DEF TypeOK, Post, Send
<1> QED
  BY <1>1 DEF LossQueued

LEMMA NextLoss == TypeOK /\ ControlInv /\ LossInv /\ [Next]_vars => LossInv'
<1> SUFFICES ASSUME TypeOK, ControlInv, LossInv, ~halted, [Next]_vars PROVE LossInv'
  BY DEF Next, vars, LossInv, LossQueued, LossNeverForgotten
<1> USE EventNamesAreEvents
    DEF LossInv, LossNeverForgotten, EventNames, task, environment, Done, Runs
<1>1. CASE Receive
  <2>1. \A f : Contains(queue, f) => Head(queue) = f \/ Contains(queue', f)
    BY <1>1, ReceiveProperties DEF Receive
  <2>2. UNCHANGED <<eth, link, state, halted>> /\ at = "receive" /\ queue' = Tail(queue)
    BY <1>1 DEF Receive
  <2>3. /\ queue[1] = Head(queue) /\ Len(queue) \in Nat \ {0}
        /\ Len(queue') = Len(queue) - 1
        /\ \A i \in 1..Len(queue') : queue'[i] = queue[i + 1]
    BY <1>1, <2>2 DEF Receive, TypeOK
  <2>4. LossQueued'
    <3> SUFFICES ASSUME ~link, NEW i \in 1..Len(queue'), queue'[i] = "ETH_CONNECTED"
                 PROVE  \E j \in 1..Len(queue') : j > i /\ queue'[j] = "ETH_DISCONNECTED"
      BY <2>2 DEF LossQueued
    <3>1. PICK j \in 1..Len(queue) : j > i + 1 /\ queue[j] = "ETH_DISCONNECTED"
      BY <2>3 DEF LossQueued
    <3>2. j - 1 \in 1..Len(queue') /\ j - 1 > i /\ queue'[j - 1] = "ETH_DISCONNECTED"
      BY <2>3, <3>1
    <3> QED
      BY <3>2
  <2>5. ASSUME ~link, handler' = "eth_connect" PROVE Contains(queue', "ETH_DISCONNECTED")
    <3>1. Head(queue) = "ETH_CONNECTED"
      <4>1. \A s \in States : \A e \in DOMAIN Tables[s] :
              Tables[s][e] = "eth_connect" => e = "ETH_CONNECTED"
        BY TableProperties DEF States
      <4> QED
        BY <1>1, <2>2, <2>5, <4>1 DEF Receive, TypeOK, NoHandler
    <3>2. PICK j \in 1..Len(queue) : j > 1 /\ queue[j] = "ETH_DISCONNECTED"
      BY <2>3, <2>5, <3>1 DEF LossQueued
    <3>3. j - 1 \in 1..Len(queue') /\ queue'[j - 1] = "ETH_DISCONNECTED"
      BY <2>3, <3>2
    <3> QED
      BY <3>3 DEF Contains
  <2>6. ASSUME eth, Head(queue) = "ETH_DISCONNECTED" PROVE handler' = "eth_disconnect"
    <3>1. state \in {"IDLE", "CONNECT", "WORK"}
      BY <2>6 DEF ControlInv, TypeOK, States
    <3> QED
      BY <1>1, <2>6, <3>1, TableProperties DEF Receive
  <2>7. handler # "eth_disconnect"
    BY <2>2 DEF TypeOK, NoHandler
  <2> QED
    BY <2>1, <2>2, <2>4, <2>5, <2>6, <2>7
<1>2. CASE EthConnect
  <2>1. LossQueued' /\ \A f : Contains(queue, f) => Contains(queue', f)
    BY <1>2, PostKeepsLoss, PostProperties DEF EthConnect
  <2> QED
    BY <1>2, <2>1 DEF EthConnect, NoHandler
<1>3. CASE EthDisconnect
  <2>1. LossQueued' /\ \A f : Contains(queue, f) => Contains(queue', f)
    BY <1>3, PostKeepsLoss, PostProperties DEF EthDisconnect
  <2> QED
    BY <1>3, <2>1 DEF EthDisconnect, NoHandler
<1>4. CASE UNCHANGED <<link, eth, queue>> /\ ~halted /\ handler' \in {handler, NoHandler}
           /\ handler # "eth_disconnect"
  BY <1>4 DEF LossQueued, NoHandler
<1>5. CASE Destroy \/ CreateClient \/ PostData
  BY <1>4, <1>5 DEF Destroy, CreateClient, PostData
<1>6. CASE BecomeIdle \/ ArmTimeout
  BY <1>4, <1>6 DEF BecomeIdle, ArmTimeout, ControlInv
<1>7. CASE DisabledInit \/ IdleConnect \/ UpdateConfig
  <2>1. /\ UNCHANGED <<link, eth>> /\ handler \notin {"eth_connect", "eth_disconnect"}
        /\ handler' = NoHandler
    BY <1>7 DEF DisabledInit, IdleConnect, UpdateConfig
  <2>2. UNCHANGED queue \/ \E e \in {"APP_CONNECT", "APP_DISCONNECT"} : Post(e)
    BY <1>7 DEF DisabledInit, IdleConnect, UpdateConfig
  <2>3. LossQueued' /\ \A f : Contains(queue, f) => Contains(queue', f)
    <3>1. CASE UNCHANGED queue
      BY <2>1, <3>1 DEF LossQueued
    <3>2. CASE \E e \in {"APP_CONNECT", "APP_DISCONNECT"} : Post(e)
      BY <2>1, <3>2, PostKeepsLoss, PostProperties
    <3> QED
      BY <2>2, <3>1, <3>2
  <2> QED
    BY <2>1, <2>3 DEF NoHandler
<1>8. CASE \/ (\E t \in Timers : TimerFires(t)) \/ ConfigSave
           \/ (\E c \in Clients : BrokerAccepts(c) \/ ClientFails(c) \/ SubscribedPost(c))
  <2>1. UNCHANGED <<link, eth, handler>>
    BY <1>8 DEF TimerFires, BrokerAccepts, ClientFails, SubscribedPost, ConfigSave
  <2>2. \/ UNCHANGED queue
        \/ \E e \in {"APP_CONNECT", "APP_DISCONNECT", "APP_POST_DATA", "APP_UPDATE_CONFIG"} : Post(e)
    BY <1>8 DEF TimerFires, TimerEvent, BrokerAccepts, ClientFails, SubscribedPost,
                ConfigSave
  <2>3. LossQueued' /\ \A f : Contains(queue, f) => Contains(queue', f)
    <3>1. CASE UNCHANGED queue
      BY <2>1, <3>1 DEF LossQueued
    <3>2. ASSUME NEW e \in {"APP_CONNECT", "APP_DISCONNECT", "APP_POST_DATA", "APP_UPDATE_CONFIG"},
                 Post(e)
          PROVE  LossQueued' /\ \A f : Contains(queue, f) => Contains(queue', f)
      BY <2>1, <3>2, PostKeepsLoss, PostProperties
    <3> QED
      BY <2>2, <3>1, <3>2
  <2> QED
    BY <2>1, <2>3
<1>9. CASE ConfigSet \/ \E c \in Clients : SubscribedMark(c) \/ SubscribedWork(c)
  <2> UNCHANGED <<link, eth, queue, handler, halted>>
    BY <1>9 DEF ConfigSet, SubscribedMark, SubscribedWork
  <2> QED
    BY DEF LossQueued
<1>10. ASSUME NEW up \in BOOLEAN, NetworkManagerPosts(up), ~halted' PROVE LossInv'
  <2>1. /\ link' = up /\ UNCHANGED <<eth, handler>>
        /\ queue' = Append(queue, IF up THEN "ETH_CONNECTED" ELSE "ETH_DISCONNECTED")
    BY <1>10 DEF NetworkManagerPosts, Post, Send
  <2>2. CASE up
    BY <2>1, <2>2 DEF LossQueued
  <2>3. CASE ~up
    <3>1. /\ Len(queue') = Len(queue) + 1 /\ Len(queue) \in Nat
          /\ queue'[Len(queue) + 1] = "ETH_DISCONNECTED"
          /\ \A i \in 1..Len(queue') : queue'[i] = "ETH_CONNECTED" => i < Len(queue) + 1
      BY <2>1, <2>3 DEF TypeOK
    <3>2. LossQueued' /\ Contains(queue', "ETH_DISCONNECTED")
      BY <3>1 DEF LossQueued, Contains
    <3> QED
      BY <3>2
  <2> QED
    BY <2>2, <2>3
<1>11. CASE UNCHANGED vars
  BY <1>11 DEF vars, LossQueued
<1> QED
  BY <1>1, <1>2, <1>3, <1>5, <1>6, <1>7, <1>8, <1>9, <1>10, <1>11
     DEF Next, Task, Callback

\* A task that believes in a link that is gone still has the loss to handle:
\* every table but that of DISABLED lists it, and it comes after every
\* ETH_CONNECTED posted before it (mqtt_app.c 96-126).
THEOREM LossRemembered == Spec => []LossNeverForgotten
<1>1. Init => LossInv
  BY DEF Init, LossInv, LossQueued, LossNeverForgotten, NoHandler
<1>2. LossInv => LossNeverForgotten
  BY DEF LossInv, LossNeverForgotten
<1> QED
  BY <1>1, <1>2, NextLoss, ControlAlways, PTL DEF Spec
-----------------------------------------------------------------------------
(* The session.                                                            *)

\* A handle is that of a client that runs; the callbacks found in DISABLED and
\* in IDLE run where they were found; and, unless a client was orphaned, a client
\* that has been marked or made the task work has made it connected.
SessionInv ==
  /\ client # Null => phase[client] # "free"
  /\ handler \in {"mqtt_disconnect", "idle_connect"} => state # "DISABLED"
  /\ \/ orphaned
     \/ /\ \A c \in Clients : phase[c] \in InCallback => connected
        /\ state = "WORK" /\ at # "idle" => connected
        /\ connected => client # Null
        /\ handler = "idle_connect" => state = "IDLE"

\* What the other invariants say of a task that never orphaned a client.
LEMMA OwnClient ==
  ASSUME TypeOK, ControlInv, OneClient, SessionInv, ~orphaned,
         NEW c \in Clients, phase[c] # "free"
  PROVE  c = client /\ client # Null /\ state \in {"CONNECT", "WORK"} /\ at # "idle"
  BY ClientsAssumption DEF OneClient, ControlInv

LEMMA NextSession ==
  TypeOK /\ ControlInv /\ OneClient /\ FitInv /\ SessionInv /\ [Next]_vars => SessionInv'
<1> SUFFICES ASSUME TypeOK, ControlInv, OneClient, FitInv, SessionInv, [Next]_vars
             PROVE  SessionInv'
  OBVIOUS
<1> USE DEF SessionInv, InCallback, task, environment, Done, Runs, NoHandler
<1>1. CASE Receive
  <2>1. \A s \in States : \A e \in DOMAIN Tables[s] :
          /\ Tables[s][e] = "mqtt_disconnect" => s # "DISABLED"
          /\ Tables[s][e] = "idle_connect" => s = "IDLE"
    BY TableProperties DEF States
  <2>2. at' = "handle" => /\ handler' = Tables[state][Head(queue)]
                          /\ Head(queue) \in DOMAIN Tables[state]
    BY <1>1 DEF Receive
  <2>3. state \in States
    BY DEF TypeOK
  <2> QED
    BY <1>1, <2>1, <2>2, <2>3 DEF Receive
<1>2. CASE DisabledInit \/ EthConnect \/ EthDisconnect \/ UpdateConfig \/ PostData
  BY <1>2 DEF DisabledInit, EthConnect, EthDisconnect, UpdateConfig, PostData
<1>3. CASE Destroy
  <2>1. \A c \in Clients : phase'[c] \in InCallback => orphaned
    <3> SUFFICES ASSUME NEW c \in Clients, phase'[c] \in InCallback, ~orphaned
                 PROVE  FALSE
      OBVIOUS
    <3>1. phase[c] \in InCallback /\ c # client
      BY <1>3 DEF Destroy, AfterDestroy
    <3> QED
      BY <3>1 DEF OneClient
  <2> QED
    BY <1>3, <2>1 DEF Destroy
<1>4. CASE BecomeIdle \/ IdleConnect \/ ArmTimeout
  BY <1>4 DEF BecomeIdle, IdleConnect, ArmTimeout, ControlInv, FitInv
<1>5. CASE CreateClient
  <2>1. client' # Null => phase'[client'] = "connecting"
    BY <1>5 DEF CreateClient, TypeOK
  <2>2. \A c \in Clients : phase'[c] \in InCallback => phase[c] \in InCallback
    BY <1>5 DEF CreateClient, TypeOK
  <2>3. CASE client # Null
    BY <1>5, <2>1, <2>3 DEF CreateClient
  <2>4. CASE client = Null
    BY <1>5, <2>1, <2>2, <2>4 DEF CreateClient
  <2> QED
    BY <2>3, <2>4
<1>6. CASE \/ (\E t \in Timers : TimerFires(t)) \/ ConfigSet \/ ConfigSave
           \/ (\E up \in BOOLEAN : NetworkManagerPosts(up))
  BY <1>6 DEF TimerFires, ConfigSet, ConfigSave, NetworkManagerPosts
<1>7. ASSUME NEW c \in Clients, BrokerAccepts(c) \/ SubscribedPost(c) \/ ClientFails(c)
      PROVE  SessionInv'
  <2>1. UNCHANGED <<task, client, state, connected, orphaned>>
    BY <1>7 DEF BrokerAccepts, SubscribedPost, ClientFails
  <2>2. \A d \in Clients : phase'[d] \in InCallback => phase[d] \in InCallback
    BY <1>7 DEF BrokerAccepts, SubscribedPost, ClientFails, Move, TypeOK
  <2>3. client # Null => phase'[client] # "free"
    BY <1>7 DEF BrokerAccepts, SubscribedPost, ClientFails, Move, TypeOK
  <2> QED
    BY <2>1, <2>2, <2>3
<1>8. ASSUME NEW c \in Clients, SubscribedMark(c) PROVE SessionInv'
  <2>1. client # Null => phase'[client] # "free"
    BY <1>8 DEF SubscribedMark, Move, TypeOK
  <2>2. ~orphaned => client # Null /\ connected'
    BY <1>8, OwnClient DEF SubscribedMark
  <2> QED
    BY <1>8, <2>1, <2>2 DEF SubscribedMark
<1>9. ASSUME NEW c \in Clients, SubscribedWork(c) PROVE SessionInv'
  <2>1. client # Null => phase'[client] # "free"
    BY <1>9 DEF SubscribedWork, Move, TypeOK
  <2>2. ~orphaned => connected /\ state \in {"CONNECT", "WORK"}
    BY <1>9, OwnClient DEF SubscribedWork
  <2> QED
    BY <1>9, <2>1, <2>2 DEF SubscribedWork
<1>10. CASE UNCHANGED vars
  BY <1>10 DEF vars
<1> QED
  BY <1>1, <1>2, <1>3, <1>4, <1>5, <1>6, <1>7, <1>8, <1>9, <1>10 DEF Next, Task, Callback

LEMMA SessionAlways == Spec => [](TypeOK /\ ControlInv /\ OneClient /\ FitInv /\ SessionInv)
<1>1. Init => OneClient /\ FitInv /\ SessionInv
  BY DEF Init, OneClient, FitInv, SessionInv, NoHandler, InCallback
<1> QED
  BY <1>1, NextFit, NextSession, ControlAlways, ClientUnique, PTL DEF Spec
\* Every step is a step of the session or changes nothing of it.
LEMMA StepSessions ==
  ASSUME TypeOK, ControlInv, OneClient, FitInv, SessionInv, [Next]_vars
  PROVE  [Abstract!Next]_(Abstract!vars)
<1> USE DEF task, environment, Done, Runs, NoHandler
<1> DEFINE Silent == UNCHANGED <<Mode, Running, connected /\ ~orphaned>>
<1>0. Silent => UNCHANGED Abstract!vars
  BY DEF Abstract!vars
<1>1. CASE orphaned
  <2>1. orphaned'
    BY <1>1, OrphanStays
  <2> QED
    BY <1>0, <1>1, <2>1 DEF Mode, Running
<1> SUFFICES ASSUME ~orphaned PROVE [Abstract!Next]_(Abstract!vars)
  BY <1>1
<1>2. CASE Receive
  BY <1>0, <1>2 DEF Receive, Mode, Running
<1>3. CASE DisabledInit
  <2>1. state = "DISABLED" /\ at = "handle" /\ state' = "IDLE" /\ at' = "receive"
        /\ UNCHANGED <<phase, connected, orphaned>>
    BY <1>3 DEF DisabledInit, ControlInv
  <2>2. Abstract!Start
    BY <2>1 DEF Abstract!Start, Mode, Running
  <2> QED
    BY <2>2 DEF Abstract!Next
<1>4. CASE EthConnect \/ EthDisconnect \/ UpdateConfig \/ PostData
  BY <1>0, <1>4 DEF EthConnect, EthDisconnect, UpdateConfig, PostData, Mode, Running
<1>5. CASE Destroy
  <2>1. Mode \in {"idle", "connecting", "working"}
    BY <1>5 DEF Destroy, Mode, SessionInv, TypeOK, States
  <2>2. Mode' = "idle" /\ ~connected' /\ UNCHANGED orphaned
    BY <1>5 DEF Destroy, Mode
  <2>3. Running' = {}
    <3>1. \A c \in Clients : phase'[c] = "free"
      BY <1>5 DEF Destroy, AfterDestroy, OneClient
    <3> QED
      BY <3>1 DEF Running
  <2>4. Abstract!Close
    BY <2>1, <2>2, <2>3 DEF Abstract!Close
  <2> QED
    BY <2>4 DEF Abstract!Next
<1>6. CASE BecomeIdle
  BY <1>0, <1>6 DEF BecomeIdle, Mode, Running
<1>7. CASE IdleConnect
  <2>1. state = "IDLE" /\ ~connected /\ at = "handle"
    BY <1>7 DEF IdleConnect, SessionInv, FitInv
  <2>2. state' = "CONNECT" /\ at' = "receive" /\ UNCHANGED <<phase, connected, orphaned>>
    BY <1>7, <2>1 DEF IdleConnect
  <2>3. Abstract!Connect
    BY <2>1, <2>2 DEF Abstract!Connect, Mode, Running
  <2> QED
    BY <2>3 DEF Abstract!Next
<1>8. CASE CreateClient
  <2>1. state \in {"CONNECT", "WORK"} /\ at = "handle" /\ at' = "arm"
        /\ UNCHANGED <<state, connected>>
    BY <1>8 DEF CreateClient, ControlInv
  <2>2. CASE client # Null
    <3>1. orphaned'
      BY <1>8, <2>2 DEF CreateClient
    <3>2. client \in Running
      BY <2>2 DEF Running, SessionInv, TypeOK
    <3>3. Abstract!Lose
      BY <2>1, <3>1, <3>2 DEF Abstract!Lose, Mode, Running
    <3> QED
      BY <3>3 DEF Abstract!Next
  <2>3. CASE client = Null
    <3>1. Running = {}
      BY <2>3, ClientsAssumption DEF Running, OneClient
    <3>2. Mode = "connecting" /\ Mode' = "connecting" /\ ~orphaned'
      <4>1. state = "CONNECT"
        BY <2>1, <2>3 DEF FitInv
      <4>2. ~orphaned'
        BY <1>8, <2>3 DEF CreateClient
      <4> QED
        BY <2>1, <4>1, <4>2 DEF Mode
    <3>3. CASE UNCHANGED phase
      BY <1>0, <2>1, <3>2, <3>3 DEF Running
    <3>4. ASSUME NEW c \in Clients, phase' = [phase EXCEPT ![c] = "connecting"]
          PROVE  Abstract!Open(c)
      <4>1. Running' = {c}
        BY <3>1, <3>2, <3>4 DEF Running, TypeOK
      <4> QED
        BY <2>1, <3>1, <3>2, <4>1 DEF Abstract!Open
    <3> QED
      BY <1>8, <3>3, <3>4 DEF CreateClient, Abstract!Next
  <2> QED
    BY <2>2, <2>3
<1>9. CASE ArmTimeout
  BY <1>0, <1>9 DEF ArmTimeout, Mode, Running
<1>10. CASE \/ (\E t \in Timers : TimerFires(t)) \/ ConfigSet \/ ConfigSave
            \/ (\E up \in BOOLEAN : NetworkManagerPosts(up))
  BY <1>0, <1>10 DEF TimerFires, ConfigSet, ConfigSave, NetworkManagerPosts, Mode, Running
<1>11. ASSUME NEW c \in Clients, BrokerAccepts(c) \/ Callback(c) \/ ClientFails(c)
       PROVE  Running' = Running /\ Running # {}
  <2>1. phase[c] # "free" /\ UNCHANGED orphaned
    BY <1>11 DEF BrokerAccepts, Callback, SubscribedMark, SubscribedWork, SubscribedPost,
                 ClientFails
  <2>2. client = c
    BY <2>1, OwnClient
  <2>3. \A d \in Clients : phase'[d] = "free" <=> phase[d] = "free"
    BY <1>11, <2>1, <2>2 DEF BrokerAccepts, Callback, SubscribedMark, SubscribedWork,
       SubscribedPost, ClientFails, Move, TypeOK
  <2> QED
    BY <2>1, <2>3 DEF Running
<1>12. ASSUME NEW c \in Clients, BrokerAccepts(c) \/ SubscribedPost(c) \/ ClientFails(c)
       PROVE  Silent
  <2>1. UNCHANGED <<state, at, connected, orphaned>>
    BY <1>12 DEF BrokerAccepts, SubscribedPost, ClientFails
  <2> QED
    BY <1>11, <1>12, <2>1 DEF Mode, Callback
<1>13. ASSUME NEW c \in Clients, SubscribedMark(c) PROVE Abstract!Subscribed
  <2>1. connected' /\ UNCHANGED <<state, at, orphaned>>
    BY <1>13 DEF SubscribedMark
  <2>2. Running' = Running /\ Running # {}
    BY <1>11, <1>13 DEF Callback
  <2> QED
    BY <2>1, <2>2 DEF Abstract!Subscribed, Mode
<1>14. ASSUME NEW c \in Clients, SubscribedWork(c) PROVE Abstract!Work
  <2>1. state' = "WORK" /\ UNCHANGED <<at, connected, orphaned>> /\ phase[c] = "marked"
    BY <1>14 DEF SubscribedWork
  <2>2. Running' = Running /\ Running # {}
    BY <1>11, <1>14 DEF Callback
  <2>3. connected /\ at # "idle"
    BY <2>1, OwnClient DEF SessionInv, InCallback
  <2> QED
    BY <2>1, <2>2, <2>3 DEF Abstract!Work, Mode
<1>15. CASE UNCHANGED vars
  BY <1>0, <1>15 DEF vars, Mode, Running
<1> QED
  BY <1>0, <1>2, <1>3, <1>4, <1>5, <1>6, <1>7, <1>8, <1>9, <1>10, <1>12, <1>13, <1>14, <1>15
     DEF Next, Task, Callback, Abstract!Next

\* The task implements the session, for any handles, failures and saves: the
\* clients' tasks may write state and is_mqtt_connected between any two of its
\* steps, and yet clients come one at a time, work follows a subscription, and
\* what is closed is closed before the next attempt (mqtt_app.c 228-230,
\* 293-307, 319-326, 353-363).
THEOREM Refinement == Spec => ImplementsSession
<1>1. Init => Abstract!Init
  BY DEF Init, Abstract!Init, Mode, Running
<1>2. TypeOK /\ ControlInv /\ OneClient /\ FitInv /\ SessionInv /\ [Next]_vars
        => [Abstract!Next]_(Abstract!vars)
  BY StepSessions
<1> QED
  BY <1>1, <1>2, SessionAlways, PTL DEF Spec, ImplementsSession, Abstract!Spec

\* What holds of every session holds of the task: idle it has no client and is
\* not connected, working it is connected, and connected it has exactly one
\* client, which runs (mqtt_app.c 321, 385, 444).
THEOREM SessionDisciplined == Spec => []Abstract!Discipline
<1>1. Abstract!Init => Abstract!Discipline
  BY DEF Abstract!Init, Abstract!Discipline
<1>2. Abstract!Discipline /\ [Abstract!Next]_(Abstract!vars) => Abstract!Discipline'
  BY DEF Abstract!Discipline, Abstract!Next, Abstract!vars, Abstract!Start,
     Abstract!Connect, Abstract!Open, Abstract!Subscribed, Abstract!Work,
     Abstract!Close, Abstract!Lose
<1> QED
  BY <1>1, <1>2, Refinement, PTL DEF ImplementsSession, Abstract!Spec
=============================================================================
