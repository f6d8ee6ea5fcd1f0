------------------------------- MODULE Session -------------------------------
(***************************************************************************)
(* What the MQTT task promises of its connection to the broker, without    *)
(* events, timers and retries (components/application/mqtt_app.c).         *)
(*                                                                         *)
(* One client runs at a time.  It is created by an attempt to connect that *)
(* has none yet; once it has been subscribed the task is online and may    *)
(* work, that is publish through it.  The client ends before the task is   *)
(* idle and before the next one is created, and takes the connection with  *)
(* it.  The one exception is a second attempt made while a client runs:    *)
(* the handle is lost, and nothing is promised from then on.               *)
(***************************************************************************)

CONSTANT Clients

VARIABLES
  mode,     \* "off", "idle", "connecting", "working"; or "lost"
  running,  \* the clients that run
  online    \* the task takes the broker for connected

vars == <<mode, running, online>>

Init == mode = "off" /\ running = {} /\ online = FALSE

Start ==
  /\ mode = "off"
  /\ mode' = "idle"
  /\ UNCHANGED <<running, online>>

Connect ==
  /\ mode = "idle" /\ ~online
  /\ mode' = "connecting"
  /\ UNCHANGED <<running, online>>

Open(c) ==
  /\ mode = "connecting" /\ running = {}
  /\ running' = {c}
  /\ UNCHANGED <<mode, online>>

Subscribed ==
  /\ running # {}
  /\ online' = TRUE
  /\ UNCHANGED <<mode, running>>

Work ==
  /\ running # {} /\ online
  /\ mode' = "working"
  /\ UNCHANGED <<running, online>>

Close ==
  /\ mode \in {"idle", "connecting", "working"}
  /\ mode' = "idle" /\ running' = {} /\ online' = FALSE

Lose ==
  /\ mode \in {"connecting", "working"} /\ running # {}
  /\ mode' = "lost" /\ running' = {} /\ online' = FALSE

Next ==
  \/ Start \/ Connect
  \/ \E c \in Clients : Open(c)
  \/ Subscribed \/ Work
  \/ Close \/ Lose

Spec == Init /\ [][Next]_vars

\* Who is idle runs no client and is not online, who works is online, and who
\* is online has exactly one client that runs.
Discipline ==
  /\ mode \in {"off", "idle", "lost"} => running = {}
  /\ mode = "working" => online
  /\ online => running # {}
  /\ \A c, d \in running : c = d
=============================================================================
