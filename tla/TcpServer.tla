------------------------------ MODULE TcpServer ------------------------------
(***************************************************************************)
(* The TCP configuration server (components/application/tcp_server.c).     *)
(*                                                                         *)
(* One task owns a listening socket and at most one client.  It has no     *)
(* loop of its own over the sockets: each step of the life of a connection *)
(* is an event the task posts to itself (PREPARE_SOCKET, WAIT_CONNECTION,  *)
(* WAIT_CLIENT_DATA, CLOSE_SOCKET), so the server goes on working only as  *)
(* long as such an event is in its own queue.  The network manager task    *)
(* posts INIT_REQ and then one event per change of the Wi-Fi link.         *)
(*                                                                         *)
(* A handler is split where it can be overtaken: between the receive and   *)
(* the handler's first post, at each blocking call (accept, select, the    *)
(* 50 ms delay of close_socket), and between two posts of one handler.     *)
(* Between those points only the task itself reads or writes ctx.          *)
(***************************************************************************)
EXTENDS AppEvents

CONSTANTS
  Sockets,      \* the descriptors lwIP can hand out
  NoSocket,     \* the value -1 of ctx.server_socket and ctx.client_socket
  QueueLength,  \* xQueueCreate( 8, ... )
  MaxPosts,     \* bound: events the network manager posts in a behaviour
  Requests      \* lifecycle requests posted after the first INIT_REQ: the
                \* code handles both, the firmware never sends another one

States == {"DISABLED", "IDLE", "WAIT_CONNECTION", "WORKING"}

LinkEvents == {"ETHERNET_CONNECTED", "ETHERNET_DISCONNECTED"}
OwnEvents == {"PREPARE_SOCKET", "WAIT_CONNECTION", "WAIT_CLIENT_DATA", "CLOSE_SOCKET"}
Lifecycle == {"INIT_REQ", "DEINIT_REQ"}
Events == LinkEvents \cup OwnEvents \cup Lifecycle

\* Points of the task: waiting in xQueueReceive, about to run the handler of
\* the received event, blocked in accept, in select, or in the delay of
\* close_socket, and between the two posts that follow a failed read.
Points == {"receive", "handle", "accept", "select", "delay", "repost"}

NoEvent == "NONE"

ASSUME SocketsAssumption == NoSocket \notin Sockets
ASSUME QueueAssumption == QueueLength \in Nat \ {0}
ASSUME PostsAssumption == MaxPosts \in Nat /\ Requests \subseteq Lifecycle

VARIABLES
  state,        \* ctx.state
  eth,          \* ctx.ethernet_is_connected
  server,       \* ctx.server_socket
  client,       \* ctx.client_socket
  open,         \* descriptors open in the network stack
  queue,        \* ctx.queue
  at,           \* where the task is
  event,        \* the event being handled
  clientStatus, \* last CLIENT_STATUS reported to the network manager
  posts,        \* events the network manager has posted
  link,         \* the link status the last posted event carried
  halted        \* an assert failed

vars == <<state, eth, server, client, open, queue, at, event, clientStatus,
          posts, link, halted>>
ctx == <<state, eth, server, client, open, clientStatus>>
manager == <<posts, link>>

\* Variant: the WORKING table has no entry for a lost link.
WorkingEventsNoLoss ==
  {"WAIT_CLIENT_DATA", "INIT_REQ", "DEINIT_REQ", "CLOSE_SOCKET"}
WorkingEvents == {"WAIT_CLIENT_DATA", "INIT_REQ", "DEINIT_REQ", "CLOSE_SOCKET",
                  "ETHERNET_DISCONNECTED"}

\* The handler tables, one per state.
Handlers ==
  [DISABLED |-> {"INIT_REQ"},
   IDLE |-> {"PREPARE_SOCKET", "CLOSE_SOCKET", "DEINIT_REQ"} \cup LinkEvents,
   WAIT_CONNECTION |-> {"WAIT_CONNECTION", "INIT_REQ", "DEINIT_REQ",
                        "CLOSE_SOCKET", "ETHERNET_DISCONNECTED"},
   WORKING |-> WorkingEvents]

\* Variant: TCPServer_Init leaves client_socket at the 0 of static storage.
InitClientZero ==
  /\ state = "DISABLED"
  /\ eth = FALSE
  /\ server = NoSocket
  /\ client = 0
  /\ open = {}
  /\ queue = <<>>
  /\ at = "receive"
  /\ event = NoEvent
  /\ clientStatus = FALSE
  /\ posts = 0
  /\ link = FALSE
  /\ halted = FALSE

Init ==
  /\ state = "DISABLED"
  /\ eth = FALSE
  /\ server = NoSocket
  /\ client = NoSocket
  /\ open = {}
  /\ queue = <<>>
  /\ at = "receive"
  /\ event = NoEvent
  /\ clientStatus = FALSE
  /\ posts = 0
  /\ link = FALSE
  /\ halted = FALSE

-----------------------------------------------------------------------------
(* The task.                                                               *)

Post(e) ==
  /\ queue' = Send(queue, QueueLength, e)
  /\ halted' = Full(queue, QueueLength)

NoPost == UNCHANGED <<queue, halted>>

Goto(point) == at' = point /\ UNCHANGED event

\* Back to xQueueReceive; the event is deleted.
Return == at' = "receive" /\ event' = NoEvent

Receive ==
  /\ at = "receive"
  /\ queue # <<>>
  /\ event' = Head(queue)
  /\ queue' = Tail(queue)
  /\ at' = "handle"
  /\ UNCHANGED <<ctx, manager, halted>>

\* The handler of event e is entered.
Handling(e) ==
  /\ at = "handle"
  /\ event = e
  /\ HasHandler(Handlers, state, e)

\* AppEventSearchAndExecute returns false: the event is lost.
Ignore ==
  /\ at = "handle"
  /\ ~HasHandler(Handlers, state, event)
  /\ Return
  /\ NoPost
  /\ UNCHANGED <<ctx, manager>>

InitRequest ==
  /\ Handling("INIT_REQ")
  /\ state' = "IDLE"
  /\ Return
  /\ NoPost
  /\ UNCHANGED <<eth, server, client, open, clientStatus, manager>>

EthernetConnected ==
  /\ Handling("ETHERNET_CONNECTED")
  /\ eth' = TRUE
  /\ Post("PREPARE_SOCKET")
  /\ Return
  /\ UNCHANGED <<state, server, client, open, clientStatus, manager>>

EthernetDisconnected ==
  /\ Handling("ETHERNET_DISCONNECTED")
  /\ eth' = FALSE
  /\ Post("CLOSE_SOCKET")
  /\ Return
  /\ UNCHANGED <<state, server, client, open, clientStatus, manager>>

\* close_socket, up to osDelay( 50 ); deinit_request calls it first.
CloseClient ==
  /\ Handling("CLOSE_SOCKET") \/ Handling("DEINIT_REQ")
  /\ client' = NoSocket
  /\ open' = open \ {client}
  /\ Goto("delay")
  /\ NoPost
  /\ UNCHANGED <<state, eth, server, clientStatus, manager>>

CloseListener == server' = NoSocket /\ open' = open \ {server}

\* Variant: the network manager is not told of the end.
ReportClosedNot == UNCHANGED clientStatus
ReportClosed == clientStatus' = IF state = "WORKING" THEN FALSE ELSE clientStatus

\* Variant: the server is not started again.
RestartNot == NoPost
Restart == IF eth THEN Post("PREPARE_SOCKET") ELSE NoPost

LeaveState == state' = IF event = "DEINIT_REQ" THEN "DISABLED" ELSE "IDLE"

\* close_socket after the delay, and the change_state of deinit_request.
CloseServer ==
  /\ at = "delay"
  /\ CloseListener
  /\ ReportClosed
  /\ Restart
  /\ LeaveState
  /\ Return
  /\ UNCHANGED <<eth, client, manager>>

\* prepare_socket when a socket is already there, or when socket() fails.
PrepareRefused ==
  /\ Handling("PREPARE_SOCKET")
  /\ Post("CLOSE_SOCKET")
  /\ Return
  /\ UNCHANGED <<ctx, manager>>

\* Variant: an existing listening socket is overwritten.
PrepareUnguarded ==
  /\ Handling("PREPARE_SOCKET")
  /\ \E s \in Sockets \ open :
       /\ server' = s
       /\ open' = open \cup {s}
  /\ Post("CLOSE_SOCKET")
  /\ Return
  /\ UNCHANGED <<state, eth, client, clientStatus, manager>>

\* prepare_socket when bind() or listen() fails: the socket stays open.
PrepareFails ==
  /\ Handling("PREPARE_SOCKET")
  /\ server = NoSocket
  /\ \E s \in Sockets \ open :
       /\ server' = s
       /\ open' = open \cup {s}
  /\ Post("CLOSE_SOCKET")
  /\ Return
  /\ UNCHANGED <<state, eth, client, clientStatus, manager>>

PrepareSucceeds ==
  /\ Handling("PREPARE_SOCKET")
  /\ server = NoSocket
  /\ \E s \in Sockets \ open :
       /\ server' = s
       /\ open' = open \cup {s}
  /\ state' = "WAIT_CONNECTION"
  /\ Post("WAIT_CONNECTION")
  /\ Return
  /\ UNCHANGED <<eth, client, clientStatus, manager>>

\* wait_connection and wait_client_data when the link is down.
LinkDown ==
  /\ Handling("WAIT_CONNECTION") \/ Handling("WAIT_CLIENT_DATA")
  /\ ~eth
  /\ Post("CLOSE_SOCKET")
  /\ Return
  /\ UNCHANGED <<ctx, manager>>

\* wait_connection enters accept(), which has no timeout.
Accept ==
  /\ Handling("WAIT_CONNECTION")
  /\ eth
  /\ Goto("accept")
  /\ NoPost
  /\ UNCHANGED <<ctx, manager>>

\* Variant: a failed accept only returns.
AcceptFailsSilently ==
  /\ at = "accept"
  /\ NoPost
  /\ Return
  /\ UNCHANGED <<ctx, manager>>

AcceptFails ==
  /\ at = "accept"
  /\ Post("CLOSE_SOCKET")
  /\ Return
  /\ UNCHANGED <<ctx, manager>>

AcceptReturns ==
  /\ at = "accept"
  /\ \E s \in Sockets \ open :
       /\ client' = s
       /\ open' = open \cup {s}
  /\ clientStatus' = TRUE
  /\ Post("WAIT_CLIENT_DATA")
  /\ state' = "WORKING"
  /\ Return
  /\ UNCHANGED <<eth, server, manager>>

\* wait_client_data enters select(), which waits one second at most.
Select ==
  /\ Handling("WAIT_CLIENT_DATA")
  /\ eth
  /\ Goto("select")
  /\ NoPost
  /\ UNCHANGED <<ctx, manager>>

SelectFails ==
  /\ at = "select"
  /\ Post("CLOSE_SOCKET")
  /\ Return
  /\ UNCHANGED <<ctx, manager>>

\* Variant: the branch that serves a request posts the event as well.
ClientServedPostsTwice ==
  /\ at = "select"
  /\ Post("WAIT_CLIENT_DATA")
  /\ Goto("repost")
  /\ UNCHANGED <<ctx, manager>>

\* Nothing arrived, or what arrived was read and answered.
ClientServed ==
  /\ at = "select"
  /\ Post("WAIT_CLIENT_DATA")
  /\ Return
  /\ UNCHANGED <<ctx, manager>>

\* read() returned 0 or an error: the first of the two posts.
ReadFails ==
  /\ at = "select"
  /\ Post("CLOSE_SOCKET")
  /\ Goto("repost")
  /\ UNCHANGED <<ctx, manager>>

\* ... and the second one, which the code makes in every case.
Repost ==
  /\ at = "repost"
  /\ Post("WAIT_CLIENT_DATA")
  /\ Return
  /\ UNCHANGED <<ctx, manager>>

-----------------------------------------------------------------------------
(* The network manager posts from its own task.                            *)

NetworkManagerPosts ==
  /\ posts < MaxPosts
  /\ \E e \in IF posts = 0 THEN {"INIT_REQ"} ELSE LinkEvents \cup Requests :
       /\ Post(e)
       /\ link' = IF e \in LinkEvents THEN e = "ETHERNET_CONNECTED" ELSE link
  /\ posts' = posts + 1
  /\ UNCHANGED <<ctx, at, event>>

Handle ==
  \/ Ignore
  \/ InitRequest
  \/ EthernetConnected
  \/ EthernetDisconnected
  \/ CloseClient
  \/ PrepareRefused
  \/ PrepareFails
  \/ PrepareSucceeds
  \/ LinkDown
  \/ Accept
  \/ Select

Resume ==
  \/ CloseServer
  \/ AcceptFails
  \/ AcceptReturns
  \/ SelectFails
  \/ ClientServed
  \/ ReadFails
  \/ Repost

Next == ~halted /\ (Receive \/ Handle \/ Resume \/ NetworkManagerPosts)

Spec == Init /\ [][Next]_vars

\* The task runs whenever it can (it is never blocked for good except in
\* accept, which may wait for a client that never comes), and opening the
\* listening socket does not fail every time it is tried.
Fairness ==
  /\ WF_vars(~halted /\ (Receive \/ Handle))
  /\ WF_vars(~halted /\ Resume /\ at # "accept")
  /\ SF_vars(~halted /\ PrepareSucceeds)

FairSpec == Spec /\ Fairness

-----------------------------------------------------------------------------
(* Properties.                                                             *)

TypeOK ==
  /\ state \in States
  /\ eth \in BOOLEAN
  /\ server \in Sockets \cup {NoSocket}
  /\ client \in Sockets \cup {NoSocket}
  /\ open \subseteq Sockets
  /\ queue \in Seq(Events)
  /\ Len(queue) <= QueueLength
  /\ at \in Points
  /\ event \in Events \cup {NoEvent}
  /\ clientStatus \in BOOLEAN
  /\ posts \in 0..MaxPosts
  /\ link \in BOOLEAN
  /\ halted \in BOOLEAN

\* Event e is queued, or received and its handler has not run yet.
Pending(e) == Contains(queue, e) \/ (at = "handle" /\ event = e)

\* No descriptor is leaked and none is closed under its user: the descriptors
\* open in the stack are exactly the two the context holds (lines 254-327,
\* where ctx.server_socket and ctx.client_socket are overwritten).
SocketsOwned ==
  /\ open = {server, client} \ {NoSocket}
  /\ server = client => server = NoSocket

\* Each state has the sockets its handlers use: accept is only called on an
\* open listening socket with no client held, select, read and send only on
\* a client socket.
StateSockets ==
  /\ state = "WAIT_CONNECTION" =>
       server # NoSocket /\ client = NoSocket
  /\ state = "WORKING" /\ at # "delay" =>
       server # NoSocket /\ client # NoSocket
  /\ at = "accept" => state = "WAIT_CONNECTION"
  /\ at = "select" => state = "WORKING"

\* The server never stalls: whatever the order of link events and failures,
\* the event that drives the current state forward, or the one that closes
\* the socket and starts again, is on its way.  A state in which it is not
\* would be left only by another link event.
NeverStalls ==
  ~halted =>
    /\ state = "IDLE" /\ eth /\ at # "delay" =>
         Pending("PREPARE_SOCKET") \/ Pending("CLOSE_SOCKET")
    /\ state = "WAIT_CONNECTION" /\ at \notin {"accept", "delay"} =>
         Pending("WAIT_CONNECTION") \/ Pending("CLOSE_SOCKET")
    /\ state = "WORKING" /\ at \notin {"select", "delay", "repost"} =>
         Pending("WAIT_CLIENT_DATA") \/ Pending("CLOSE_SOCKET")

\* A lost link is never forgotten: when a server that was not shut down still
\* believes the link is up and the last event said it is down, that event is
\* still to be handled (tcp_server.c 98-128, 242-252).  (The converse is
\* false: a link that came back can be forgotten.)
LossNeverForgotten ==
  ~halted /\ state # "DISABLED" /\ eth /\ ~link => Pending("ETHERNET_DISCONNECTED")

\* The task never makes events out of events: a failed read posts two for
\* one, yet no more events are ever queued or in hand than the network manager
\* has posted, so QueueLength posts cannot overflow the queue and fail the
\* assertion of TCPServer_PostMsg, however long the server runs.
QueueLoad ==
  Len(queue) + (IF at = "receive" THEN 0 ELSE 1) <= posts

\* TCPServer_PostMsg asserts that its send succeeded (tcp_server.c lines
\* 439-442).  Here it is asked only of a task that waits for a client in
\* accept, for as long as nobody connects: a state the server is meant to
\* stay in, not one of a task that was never scheduled.
PostFitsInAccept == ~(halted /\ at = "accept")

\* A server that was shut down (DEINIT_REQ) holds no descriptor, whatever it
\* was doing before (lines 236-240, 254-267).
ShutdownReleases ==
  state = "DISABLED" => open = {}

-----------------------------------------------------------------------------
(* The server implements the listener of module Listener.                  *)

Service ==
  CASE halted -> "reset"
    [] ~halted /\ at = "delay" -> "closing"
    [] ~halted /\ at # "delay" /\ state = "DISABLED" -> "off"
    [] ~halted /\ at # "delay" /\ state = "IDLE" -> "closed"
    [] ~halted /\ at # "delay" /\ state = "WAIT_CONNECTION" -> "listening"
    [] ~halted /\ at # "delay" /\ state = "WORKING" -> "serving"

Abstract == INSTANCE Listener WITH
  service <- Service,
  up <- eth /\ ~halted,
  listener <- server # NoSocket /\ ~halted,
  client <- client # NoSocket /\ ~halted,
  told <- clientStatus /\ ~halted

\* Events, posts and failures do not show: seen from outside, the server takes
\* a client only through a listener and on a link it believes in, closes the
\* client before the listener, reports each client and the end of each service,
\* and keeps nothing open when it is shut down (tcp_server.c 236-352).
ImplementsListener == Abstract!Spec

\* Unless an assertion fails: while the link is up a server without a listening
\* socket gets one (lines 242-246, 277-280, 293-325); a client is never kept on
\* a dead link, because the task polls it with a timeout and notices the flag
\* (354-362, 387-388); and closing ends.
KeepsPromises == Abstract!Promises
=============================================================================
