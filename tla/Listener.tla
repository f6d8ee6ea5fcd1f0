------------------------------- MODULE Listener -------------------------------
(***************************************************************************)
(* What the TCP configuration server promises, without its events, queue   *)
(* and descriptors (components/application/tcp_server.c).                  *)
(*                                                                         *)
(* It serves one client at a time, through a listener that outlives the    *)
(* client.  It takes a client only while it believes the Wi-Fi link to be  *)
(* up, and tells the network manager of every client it takes and of the   *)
(* end of every service.  It closes the client first and the listener      *)
(* after it, and what is shut down holds neither.                          *)
(***************************************************************************)

VARIABLES
  service,   \* "off", "closed", "listening", "serving", "closing"; or
             \* "reset" when an assertion failed and the device restarts
  up,        \* the server believes the link is up
  listener,  \* a listening socket is open
  client,    \* a client's socket is open
  told       \* the network manager believes that a client is served

vars == <<service, up, listener, client, told>>

Services == {"off", "closed", "listening", "serving", "closing", "reset"}

TypeOK ==
  /\ service \in Services
  /\ {up, listener, client, told} \subseteq BOOLEAN

Init ==
  /\ service = "off"
  /\ up = FALSE /\ listener = FALSE /\ client = FALSE /\ told = FALSE

Start ==
  /\ service = "off"
  /\ service' = "closed"
  /\ UNCHANGED <<up, listener, client, told>>

\* The link's return is only noticed by a server that neither listens nor
\* serves, its loss by every server that is not just closing.
LinkUp ==
  /\ service = "closed"
  /\ up' = TRUE
  /\ UNCHANGED <<service, listener, client, told>>

LinkDown ==
  /\ service \in {"closed", "listening", "serving"}
  /\ up' = FALSE
  /\ UNCHANGED <<service, listener, client, told>>

\* The socket is created; binding it or listening on it may fail.
Listen ==
  /\ service = "closed" /\ ~listener
  /\ listener' = TRUE
  /\ service' \in {"closed", "listening"}
  /\ UNCHANGED <<up, client, told>>

Accept ==
  /\ service = "listening" /\ up
  /\ service' = "serving"
  /\ client' = TRUE
  /\ told' = TRUE
  /\ UNCHANGED <<up, listener>>

\* Closing begins with the client, if there is one ...
CloseClient ==
  /\ service \in {"closed", "listening", "serving"}
  /\ service' = "closing"
  /\ client' = FALSE
  /\ UNCHANGED <<up, listener, told>>

\* ... and ends with the listener, for good when the server is shut down.
CloseListener ==
  /\ service = "closing"
  /\ service' \in {"closed", "off"}
  /\ listener' = FALSE
  /\ told' = FALSE
  /\ UNCHANGED <<up, client>>

\* A restart of the device closes everything.
Reset ==
  /\ service' = "reset"
  /\ up' = FALSE /\ listener' = FALSE /\ client' = FALSE /\ told' = FALSE

Next ==
  \/ Start
  \/ LinkUp \/ LinkDown
  \/ Listen
  \/ Accept
  \/ CloseClient \/ CloseListener
  \/ Reset

Spec == Init /\ [][Next]_vars

-----------------------------------------------------------------------------
(* What follows from the specification.                                    *)

\* A client is served only next to a listener and is known to the network
\* manager, which believes in a client for as long as its service is closed.
Discipline ==
  /\ client => listener /\ told /\ service = "serving"
  /\ told => listener /\ service \in {"serving", "closing"}
  /\ service \in {"off", "reset"} => ~listener /\ ~client /\ ~told
  /\ service \in {"listening", "serving"} => listener

-----------------------------------------------------------------------------
(* What the server does in the end, as long as the device is not restarted. *)

\* A server with a link listens, the client of a lost link is dropped, and
\* closing ends.
Promises ==
  /\ service = "closed" /\ up ~>
       service \in {"listening", "off", "reset"} \/ ~up
  /\ service = "serving" /\ ~up ~> service # "serving"
  /\ service = "closing" ~> service # "closing"
=============================================================================
