--------------------------- MODULE TcpServerProofs ---------------------------
(***************************************************************************)
(* Proofs about the TCP server, for every set of descriptors, every queue  *)
(* length and any number of events from the network manager.               *)
(***************************************************************************)
EXTENDS TcpServer, TLAPS, SequenceTheorems

-----------------------------------------------------------------------------
(* What posting to and receiving from a queue do to it.                    *)

\* Posting keeps a queue a queue within its capacity, loses nothing that was
\* in it, and delivers the event unless the queue was full.
LEMMA SendProperties ==
  ASSUME NEW q \in Seq(Events), NEW n \in Nat, NEW e \in Events
  PROVE  /\ Send(q, n, e) \in Seq(Events)
         /\ Len(q) <= n => Len(Send(q, n, e)) <= n
         /\ \A f : Contains(q, f) => Contains(Send(q, n, e), f)
         /\ ~Full(q, n) => Contains(Send(q, n, e), e)
         /\ \A f : Contains(Send(q, n, e), f) => f = e \/ Contains(q, f)
  BY DEF Send, Full, Contains

\* Receiving takes the head and leaves the rest.
LEMMA ReceiveProperties ==
  ASSUME NEW q \in Seq(Events), q # <<>>
  PROVE  /\ Head(q) \in Events
         /\ Tail(q) \in Seq(Events)
         /\ Len(Tail(q)) <= Len(q)
         /\ \A f : Contains(q, f) => Head(q) = f \/ Contains(Tail(q), f)
         /\ \A f : Contains(Tail(q), f) => Contains(q, f)
  BY DEF Contains

-----------------------------------------------------------------------------
(* Type correctness.                                                       *)

\* The type invariant only depends on the context, the task and the manager.
LEMMA PostType ==
  ASSUME TypeOK, NEW e \in Events, Post(e)
  PROVE  /\ queue' \in Seq(Events)
         /\ Len(queue') <= QueueLength
         /\ halted' \in BOOLEAN
  BY SendProperties, QueueAssumption DEF TypeOK, Post, Full

\* Every variable of the server stays in its type (the fields of ctx, the
\* queue within its length) in every behaviour.
THEOREM TypeCorrect == Spec => []TypeOK
<1>1. Init => TypeOK
  <2> SUFFICES ASSUME Init PROVE TypeOK
    OBVIOUS
  <2>1. <<>> \in Seq(Events) /\ Len(<<>>) <= QueueLength
    BY QueueAssumption
  <2>2. 0 \in 0..MaxPosts
    BY PostsAssumption
  <2> QED
    BY <2>1, <2>2 DEF Init, TypeOK, States, Points
<1>2. TypeOK /\ [Next]_vars => TypeOK'
  <2> SUFFICES ASSUME TypeOK, [Next]_vars PROVE TypeOK'
    OBVIOUS
  <2> USE DEF TypeOK, ctx, manager, Return, Goto, NoPost
  <2> Events \cap {NoEvent} = {} /\ OwnEvents \subseteq Events
      /\ LinkEvents \subseteq Events /\ Lifecycle \subseteq Events
    BY DEF Events, NoEvent, OwnEvents, LinkEvents, Lifecycle
  <2>1. CASE Receive
    <3>1. Len(queue') <= QueueLength
      BY <2>1, ReceiveProperties, QueueAssumption DEF Receive
    <3> QED
      BY <2>1, <3>1, ReceiveProperties DEF Receive, Points
  <2>2. CASE Ignore
    BY <2>2 DEF Ignore, Points
  <2>3. CASE InitRequest
    BY <2>3 DEF InitRequest, Points, States
  <2>4. CASE EthernetConnected
    BY <2>4, PostType DEF EthernetConnected, Points, OwnEvents
  <2>5. CASE EthernetDisconnected
    BY <2>5, PostType DEF EthernetDisconnected, Points, OwnEvents
  <2>6. CASE CloseClient
    BY <2>6 DEF CloseClient, Points
  <2>7. CASE PrepareRefused
    BY <2>7, PostType DEF PrepareRefused, Points, OwnEvents
  <2>8. CASE PrepareFails
    BY <2>8, PostType DEF PrepareFails, Points, OwnEvents
  <2>9. CASE PrepareSucceeds
    BY <2>9, PostType DEF PrepareSucceeds, Points, States, OwnEvents
  <2>10. CASE LinkDown
    BY <2>10, PostType DEF LinkDown, Points, OwnEvents
  <2>11. CASE Accept
    BY <2>11 DEF Accept, Points
  <2>12. CASE Select
    BY <2>12 DEF Select, Points
  <2>13. CASE CloseServer
    BY <2>13, PostType DEF CloseServer, CloseListener, ReportClosed, Restart, LeaveState, Points, States, OwnEvents
  <2>14. CASE AcceptFails
    BY <2>14, PostType DEF AcceptFails, Points, OwnEvents
  <2>15. CASE AcceptReturns
    BY <2>15, PostType DEF AcceptReturns, Points, States, OwnEvents
  <2>16. CASE SelectFails
    BY <2>16, PostType DEF SelectFails, Points, OwnEvents
  <2>17. CASE ClientServed
    BY <2>17, PostType DEF ClientServed, Points, OwnEvents
  <2>18. CASE ReadFails
    BY <2>18, PostType DEF ReadFails, Points, OwnEvents
  <2>19. CASE Repost
    BY <2>19, PostType DEF Repost, Points, OwnEvents
  <2>20. CASE NetworkManagerPosts
    <3>1. PICK e \in LinkEvents \cup Lifecycle :
            /\ Post(e)
            /\ link' = IF e \in LinkEvents THEN e = "ETHERNET_CONNECTED" ELSE link
      BY <2>20, PostsAssumption DEF NetworkManagerPosts, Lifecycle
    <3>2. posts' \in 0..MaxPosts
      BY <2>20, PostsAssumption DEF NetworkManagerPosts
    <3> QED
      BY <2>20, <3>1, <3>2, PostType DEF NetworkManagerPosts
  <2>21. CASE UNCHANGED vars
    BY <2>21 DEF vars
  <2> QED
    BY <2>1, <2>2, <2>3, <2>4, <2>5, <2>6, <2>7, <2>8, <2>9, <2>10, <2>11,
       <2>12, <2>13, <2>14, <2>15, <2>16, <2>17, <2>18, <2>19, <2>20, <2>21
       DEF Next, Handle, Resume
<1> QED
  BY <1>1, <1>2, PTL DEF Spec

-----------------------------------------------------------------------------
(* The sockets.                                                            *)

\* The inductive strengthening: while close_socket waits, the client is gone
\* and the server is not shut down yet, and a client is only ever held next
\* to a listening socket.  The last fact is what makes the guard of
\* prepare_socket (no listening socket) enough to know that no client is held.
SocketInv ==
  /\ SocketsOwned
  /\ StateSockets
  /\ ShutdownReleases
  /\ at = "delay" => client = NoSocket /\ state # "DISABLED"
  /\ at # "delay" /\ client # NoSocket => server # NoSocket

\* The socket invariant holds of a server that was just created.
LEMMA SocketInvInit == Init => SocketInv
  BY DEF Init, SocketInv, SocketsOwned, StateSockets, ShutdownReleases

\* Every handler of the task preserves the socket invariant.
LEMMA SocketInvariance == Spec => []SocketInv
<1>1. TypeOK /\ SocketInv /\ [Next]_vars => SocketInv'
  <2> SUFFICES ASSUME TypeOK, SocketInv, [Next]_vars PROVE SocketInv'
    OBVIOUS
  <2> USE SocketsAssumption
      DEF TypeOK, SocketInv, SocketsOwned, StateSockets, ShutdownReleases,
          ctx, Return, Goto, Handling, HasHandler, Handlers, WorkingEvents, States, LinkEvents
  <2>1. CASE Receive
    BY <2>1 DEF Receive
  <2>2. CASE Ignore
    BY <2>2 DEF Ignore
  <2>3. CASE InitRequest
    BY <2>3 DEF InitRequest
  <2>4. CASE EthernetConnected
    BY <2>4 DEF EthernetConnected
  <2>5. CASE EthernetDisconnected
    BY <2>5 DEF EthernetDisconnected
  <2>6. CASE CloseClient
    BY <2>6 DEF CloseClient
  <2>7. CASE PrepareRefused
    BY <2>7 DEF PrepareRefused
  <2>8. CASE PrepareFails
    BY <2>8 DEF PrepareFails
  <2>9. CASE PrepareSucceeds
    BY <2>9 DEF PrepareSucceeds
  <2>10. CASE LinkDown
    BY <2>10 DEF LinkDown
  <2>11. CASE Accept
    BY <2>11 DEF Accept
  <2>12. CASE Select
    BY <2>12 DEF Select
  <2>13. CASE CloseServer
    <3>1. /\ client' = NoSocket /\ server' = NoSocket /\ open' = {}
          /\ at' = "receive" /\ state' \in {"IDLE", "DISABLED"}
      BY <2>13 DEF CloseServer, CloseListener, ReportClosed, Restart, LeaveState
    <3> QED
      BY <3>1
  <2>14. CASE AcceptFails
    BY <2>14 DEF AcceptFails
  <2>15. CASE AcceptReturns
    <3>1. server # NoSocket /\ client = NoSocket /\ open = {server}
      BY <2>15 DEF AcceptReturns
    <3>2. PICK s \in Sockets \ open : client' = s /\ open' = open \cup {s}
      BY <2>15 DEF AcceptReturns
    <3>3. at' = "receive" /\ state' = "WORKING" /\ server' = server
      BY <2>15 DEF AcceptReturns
    <3> QED
      BY <3>1, <3>2, <3>3
  <2>16. CASE SelectFails
    BY <2>16 DEF SelectFails
  <2>17. CASE ClientServed
    BY <2>17 DEF ClientServed
  <2>18. CASE ReadFails
    BY <2>18 DEF ReadFails
  <2>19. CASE Repost
    BY <2>19 DEF Repost
  <2>20. CASE NetworkManagerPosts
    BY <2>20 DEF NetworkManagerPosts
  <2>21. CASE UNCHANGED vars
    BY <2>21 DEF vars
  <2> QED
    BY <2>1, <2>2, <2>3, <2>4, <2>5, <2>6, <2>7, <2>8, <2>9, <2>10, <2>11,
       <2>12, <2>13, <2>14, <2>15, <2>16, <2>17, <2>18, <2>19, <2>20, <2>21
       DEF Next, Handle, Resume
<1> QED
  BY <1>1, SocketInvInit, TypeCorrect, PTL DEF Spec

\* No descriptor leaks, every state has the sockets its handlers use, and a
\* shut down server holds none (tcp_server.c lines 236-352), also when INIT_REQ
\* and DEINIT_REQ arrive at any time.
THEOREM SocketSafety == Spec => [](SocketsOwned /\ StateSockets /\ ShutdownReleases)
<1>1. SocketInv => SocketsOwned /\ StateSockets /\ ShutdownReleases
  BY DEF SocketInv
<1> QED
  BY <1>1, SocketInvariance, PTL

-----------------------------------------------------------------------------
(* Progress: the next event of a connection is always on its way.          *)

\* What a post leaves in the queue: everything that was there, and the event
\* itself unless the assertion failed.
LEMMA PostDelivers ==
  ASSUME TypeOK, NEW e \in OwnEvents \cup LinkEvents \cup Lifecycle, Post(e)
  PROVE  /\ \A f : Contains(queue, f) => Contains(queue', f)
         /\ ~halted' => Contains(queue', e)
  BY SendProperties, QueueAssumption DEF TypeOK, Post, Events

\* Where the elements of the queue are after a post.
LEMMA PostPositions ==
  ASSUME TypeOK, NEW e, Post(e)
  PROVE  \A i \in 1..Len(queue') :
           \/ i \in 1..Len(queue) /\ queue'[i] = queue[i]
           \/ i = Len(queue) + 1 /\ queue'[i] = e
  BY DEF TypeOK, Post, Send

\* INIT_REQ is the first event ever posted and is handled once, before the
\* server was told of any link.
InitOnce ==
  /\ posts = 0 => queue = <<>> /\ at = "receive" /\ state = "DISABLED" /\ ~eth
  /\ \A i \in 1..Len(queue) :
       queue[i] = "INIT_REQ" => i = 1 /\ at = "receive" /\ state = "DISABLED" /\ ~eth
  /\ event = "INIT_REQ" => at = "handle" /\ state = "DISABLED" /\ ~eth

\* Nobody repeats INIT_REQ, so it is handled at most once (tcp_server.c
\* 284-291), whatever else was posted.
LEMMA StartedOnce ==
  ASSUME "INIT_REQ" \notin Requests
  PROVE  Spec => []InitOnce
<1>1. Init => InitOnce
  BY DEF Init, InitOnce, Lifecycle, NoEvent
<1>2. TypeOK /\ SocketInv /\ InitOnce /\ [Next]_vars => InitOnce'
  <2> SUFFICES ASSUME TypeOK, SocketInv, InitOnce, [Next]_vars
               PROVE  InitOnce'
    OBVIOUS
  <2> USE DEF InitOnce, ctx, manager, Return, Goto, NoPost, Handling,
              HasHandler, Handlers, WorkingEvents, States, Lifecycle, LinkEvents, NoEvent
  <2>1. CASE Receive
    <3>1. /\ at' = "handle" /\ event' = queue[1] /\ state' = state
          /\ eth' = eth /\ posts' = posts /\ posts # 0
          /\ Len(queue') = Len(queue) - 1
          /\ \A i \in 1..Len(queue') : queue'[i] = queue[i + 1]
          /\ Len(queue) \in Nat /\ Len(queue) > 0
      BY <2>1, HeadTailProperties DEF Receive, TypeOK
    <3>2. at = "receive" /\ 1 \in 1..Len(queue)
      BY <2>1, <3>1 DEF Receive
    <3>3. event' = "INIT_REQ" => state' = "DISABLED" /\ ~eth'
      BY <3>1, <3>2
    <3>4. \A i \in 1..Len(queue') : queue'[i] # "INIT_REQ"
      <4> SUFFICES ASSUME NEW i \in 1..Len(queue'), queue'[i] = "INIT_REQ"
                   PROVE  FALSE
        OBVIOUS
      <4>1. i + 1 \in 1..Len(queue) /\ queue[i + 1] = "INIT_REQ" /\ i \in Nat
        BY <3>1
      <4>2. i + 1 = 1
        BY <4>1
      <4> QED
        BY <4>1, <4>2
    <3> QED
      BY <3>1, <3>3, <3>4
  <2>2. CASE Ignore
    BY <2>2 DEF Ignore, TypeOK
  <2>3. CASE InitRequest
    BY <2>3 DEF InitRequest
  <2>4. CASE EthernetConnected
    BY <2>4, PostPositions DEF EthernetConnected
  <2>5. CASE EthernetDisconnected
    BY <2>5, PostPositions DEF EthernetDisconnected
  <2>6. CASE CloseClient
    BY <2>6 DEF CloseClient
  <2>7. CASE PrepareRefused
    BY <2>7, PostPositions DEF PrepareRefused
  <2>8. CASE PrepareFails
    BY <2>8, PostPositions DEF PrepareFails
  <2>9. CASE PrepareSucceeds
    BY <2>9, PostPositions DEF PrepareSucceeds
  <2>10. CASE LinkDown
    BY <2>10, PostPositions DEF LinkDown
  <2>11. CASE Accept
    BY <2>11 DEF Accept
  <2>12. CASE Select
    BY <2>12 DEF Select
  <2>13. CASE CloseServer
    BY <2>13, PostPositions DEF CloseServer, CloseListener, ReportClosed, Restart, LeaveState
  <2>14. CASE AcceptFails
    BY <2>14, PostPositions DEF AcceptFails
  <2>15. CASE AcceptReturns
    BY <2>15, PostPositions DEF AcceptReturns
  <2>16. CASE SelectFails
    BY <2>16, PostPositions DEF SelectFails
  <2>17. CASE ClientServed
    BY <2>17, PostPositions DEF ClientServed
  <2>18. CASE ReadFails
    BY <2>18, PostPositions DEF ReadFails
  <2>19. CASE Repost
    BY <2>19, PostPositions DEF Repost
  <2>20. CASE NetworkManagerPosts
    BY <2>20, PostPositions DEF NetworkManagerPosts, TypeOK
  <2>21. CASE UNCHANGED vars
    BY <2>21 DEF vars
  <2> QED
    BY <2>1, <2>2, <2>3, <2>4, <2>5, <2>6, <2>7, <2>8, <2>9, <2>10, <2>11,
       <2>12, <2>13, <2>14, <2>15, <2>16, <2>17, <2>18, <2>19, <2>20, <2>21
       DEF Next, Handle, Resume
<1> QED
  BY <1>1, <1>2, TypeCorrect, SocketInvariance, PTL DEF Spec

\* Unless an assertion failed, an idle server with a link, a listening server
\* and a serving one always have their next event, or the one that closes the
\* socket and starts over, in the queue or in hand (tcp_server.c lines 242-389).
\* With InitOnce the property is inductive: INIT_REQ cannot make an idle server
\* that waits for an event nobody posted, because it finds the link down.
THEOREM Progress ==
  ASSUME "INIT_REQ" \notin Requests
  PROVE  Spec => []NeverStalls
<1>1. Init => NeverStalls
  BY DEF Init, NeverStalls
<1>2. TypeOK /\ SocketInv /\ InitOnce /\ NeverStalls /\ [Next]_vars
        => NeverStalls'
  <2> SUFFICES ASSUME TypeOK, SocketInv, InitOnce, NeverStalls, ~halted,
                      [Next]_vars
               PROVE  NeverStalls'
    BY DEF Next, vars, NeverStalls, Pending
  <2> USE DEF NeverStalls, Pending, SocketInv, StateSockets,
              ctx, manager, Return, Goto, NoPost, Handling, HasHandler,
              Handlers, WorkingEvents, States, OwnEvents, LinkEvents
  <2>1. CASE Receive
    <3>1. \A f : Contains(queue, f) =>
                   event' = f \/ Contains(queue', f)
      BY <2>1, ReceiveProperties DEF Receive, TypeOK
    <3> QED
      BY <2>1, <3>1 DEF Receive
  <2>2. CASE Ignore
    BY <2>2 DEF Ignore, TypeOK
  <2>3. CASE InitRequest
    BY <2>3 DEF InitRequest, InitOnce, Lifecycle
  <2>4. CASE EthernetConnected
    BY <2>4, PostDelivers DEF EthernetConnected
  <2>5. CASE EthernetDisconnected
    BY <2>5, PostDelivers DEF EthernetDisconnected
  <2>6. CASE CloseClient
    BY <2>6 DEF CloseClient
  <2>7. CASE PrepareRefused
    BY <2>7, PostDelivers DEF PrepareRefused
  <2>8. CASE PrepareFails
    BY <2>8, PostDelivers DEF PrepareFails
  <2>9. CASE PrepareSucceeds
    BY <2>9, PostDelivers DEF PrepareSucceeds
  <2>10. CASE LinkDown
    BY <2>10, PostDelivers DEF LinkDown
  <2>11. CASE Accept
    BY <2>11 DEF Accept
  <2>12. CASE Select
    BY <2>12 DEF Select
  <2>13. CASE CloseServer
    <3>2. state' \in {"IDLE", "DISABLED"} /\ eth' = eth /\ at' = "receive"
      BY <2>13 DEF CloseServer, CloseListener, ReportClosed, Restart, LeaveState
    <3>3. eth /\ ~halted' => Contains(queue', "PREPARE_SOCKET")
      BY <2>13, PostDelivers DEF CloseServer, CloseListener, ReportClosed, Restart, LeaveState
    <3> QED
      BY <3>2, <3>3
  <2>14. CASE AcceptFails
    BY <2>14, PostDelivers DEF AcceptFails
  <2>15. CASE AcceptReturns
    BY <2>15, PostDelivers DEF AcceptReturns
  <2>16. CASE SelectFails
    BY <2>16, PostDelivers DEF SelectFails
  <2>17. CASE ClientServed
    BY <2>17, PostDelivers DEF ClientServed
  <2>18. CASE ReadFails
    BY <2>18, PostDelivers DEF ReadFails
  <2>19. CASE Repost
    BY <2>19, PostDelivers DEF Repost
  <2>20. CASE NetworkManagerPosts
    <3>1. \A f : Contains(queue, f) => Contains(queue', f)
      BY <2>20, PostDelivers, PostsAssumption DEF NetworkManagerPosts, Lifecycle
    <3> QED
      BY <2>20, <3>1 DEF NetworkManagerPosts
  <2>21. CASE UNCHANGED vars
    BY <2>21 DEF vars
  <2> QED
    BY <2>1, <2>2, <2>3, <2>4, <2>5, <2>6, <2>7, <2>8, <2>9, <2>10, <2>11,
       <2>12, <2>13, <2>14, <2>15, <2>16, <2>17, <2>18, <2>19, <2>20, <2>21
       DEF Next, Handle, Resume
<1> QED
  BY <1>1, <1>2, TypeCorrect, SocketInvariance, StartedOnce, PTL DEF Spec

-----------------------------------------------------------------------------
(* A lost link is remembered.                                              *)

\* While the link is down, a "connected" event still in the queue has the
\* "disconnected" event behind it.
LossQueued ==
  ~link => \A i \in 1..Len(queue) :
             queue[i] = "ETHERNET_CONNECTED" =>
               \E j \in 1..Len(queue) : j > i /\ queue[j] = "ETHERNET_DISCONNECTED"

LossInv ==
  ~halted =>
    /\ LossQueued
    /\ ~link /\ event = "ETHERNET_CONNECTED" => Contains(queue, "ETHERNET_DISCONNECTED")
    /\ ~link /\ eth /\ state # "DISABLED" => Pending("ETHERNET_DISCONNECTED")

\* The events the task posts to itself do not disturb the link events.
LEMMA PostKeepsLoss ==
  ASSUME TypeOK, NEW e \in OwnEvents, Post(e), link' = link, LossQueued
  PROVE  /\ LossQueued'
         /\ Contains(queue, "ETHERNET_DISCONNECTED")
              => Contains(queue', "ETHERNET_DISCONNECTED")
  BY DEF TypeOK, Post, Send, LossQueued, Contains, OwnEvents

\* As long as no assertion failed, a server that believes in a link that is
\* gone still has the loss to handle: ETHERNET_DISCONNECTED is handled in
\* every state after the start, after any ETHERNET_CONNECTED posted before it
\* (tcp_server.c lines 105-128 and 242-252).
THEOREM LossRemembered ==
  ASSUME "INIT_REQ" \notin Requests
  PROVE  Spec => []LossNeverForgotten
<1>1. Init => LossInv
  BY DEF Init, LossInv, LossQueued, NoEvent
<1>2. TypeOK /\ SocketInv /\ InitOnce /\ LossInv /\ [Next]_vars => LossInv'
  <2> SUFFICES ASSUME TypeOK, SocketInv, InitOnce, LossInv, ~halted, [Next]_vars
               PROVE  LossInv'
    BY DEF Next, vars, LossInv, LossQueued, Pending
  <2> USE DEF LossInv, Pending, ctx, manager, Return, Goto, NoPost,
              Handling, HasHandler, Handlers, WorkingEvents, States, LinkEvents, OwnEvents,
              NoEvent
  <2>1. CASE Receive
    <3>1. /\ event' = queue[1] /\ at' = "handle"
          /\ Len(queue') = Len(queue) - 1
          /\ \A i \in 1..Len(queue') : queue'[i] = queue[i + 1]
          /\ Len(queue) \in Nat /\ Len(queue) > 0
      BY <2>1, HeadTailProperties DEF Receive, TypeOK
    <3>2. link' = link /\ eth' = eth /\ state' = state /\ at = "receive"
      BY <2>1 DEF Receive
    <3>3. \A f : Contains(queue, f) => event' = f \/ Contains(queue', f)
      BY <2>1, ReceiveProperties DEF Receive, TypeOK
    <3>4. ASSUME ~link, NEW i \in 1..Len(queue),
                 queue[i] = "ETHERNET_CONNECTED"
          PROVE  \E k \in 1..Len(queue') :
                   k + 1 > i /\ queue'[k] = "ETHERNET_DISCONNECTED"
      <4>1. PICK j \in 1..Len(queue) :
              j > i /\ queue[j] = "ETHERNET_DISCONNECTED"
        BY <3>4 DEF LossQueued
      <4>2. j - 1 \in 1..Len(queue') /\ queue'[j - 1] = queue[j]
        BY <3>1, <4>1
      <4> QED
        BY <4>1, <4>2
    <3>5. LossQueued'
      <4> SUFFICES ASSUME ~link, NEW i \in 1..Len(queue'),
                          queue'[i] = "ETHERNET_CONNECTED"
                   PROVE  \E k \in 1..Len(queue') :
                            k > i /\ queue'[k] = "ETHERNET_DISCONNECTED"
        BY <3>2 DEF LossQueued
      <4>1. i + 1 \in 1..Len(queue) /\ queue[i + 1] = "ETHERNET_CONNECTED"
        BY <3>1
      <4>2. PICK k \in 1..Len(queue') :
              k + 1 > i + 1 /\ queue'[k] = "ETHERNET_DISCONNECTED"
        BY <3>4, <4>1
      <4> QED
        BY <4>2, <3>1
    <3>6. ~link /\ event' = "ETHERNET_CONNECTED"
            => Contains(queue', "ETHERNET_DISCONNECTED")
      <4> SUFFICES ASSUME ~link, event' = "ETHERNET_CONNECTED"
                   PROVE  Contains(queue', "ETHERNET_DISCONNECTED")
        OBVIOUS
      <4>1. 1 \in 1..Len(queue) /\ queue[1] = "ETHERNET_CONNECTED"
        BY <3>1
      <4>2. PICK k \in 1..Len(queue') : queue'[k] = "ETHERNET_DISCONNECTED"
        BY <3>4, <4>1
      <4> QED
        BY <4>2 DEF Contains
    <3> QED
      BY <3>2, <3>3, <3>5, <3>6, <3>1
  <2>2. CASE Ignore
    BY <2>2 DEF Ignore, TypeOK, LossQueued
  <2>3. CASE InitRequest
    BY <2>3 DEF InitRequest, LossQueued, InitOnce
  <2>4. CASE EthernetConnected
    BY <2>4, PostKeepsLoss DEF EthernetConnected
  <2>5. CASE EthernetDisconnected
    BY <2>5, PostKeepsLoss DEF EthernetDisconnected
  <2>6. CASE CloseClient
    BY <2>6 DEF CloseClient, LossQueued
  <2>7. CASE PrepareRefused
    BY <2>7, PostKeepsLoss DEF PrepareRefused
  <2>8. CASE PrepareFails
    BY <2>8, PostKeepsLoss DEF PrepareFails
  <2>9. CASE PrepareSucceeds
    BY <2>9, PostKeepsLoss DEF PrepareSucceeds
  <2>10. CASE LinkDown
    BY <2>10, PostKeepsLoss DEF LinkDown
  <2>11. CASE Accept
    BY <2>11 DEF Accept, LossQueued
  <2>12. CASE Select
    BY <2>12 DEF Select, LossQueued
  <2>13. CASE CloseServer
    <3>1. CASE eth
      BY <2>13, <3>1, PostKeepsLoss
         DEF CloseServer, CloseListener, ReportClosed, Restart, LeaveState, SocketInv
    <3>2. CASE ~eth
      BY <2>13, <3>2 DEF CloseServer, CloseListener, ReportClosed, Restart, LeaveState, LossQueued
    <3> QED
      BY <3>1, <3>2
  <2>14. CASE AcceptFails
    BY <2>14, PostKeepsLoss DEF AcceptFails
  <2>15. CASE AcceptReturns
    BY <2>15, PostKeepsLoss DEF AcceptReturns, SocketInv, StateSockets
  <2>16. CASE SelectFails
    BY <2>16, PostKeepsLoss DEF SelectFails
  <2>17. CASE ClientServed
    BY <2>17, PostKeepsLoss DEF ClientServed
  <2>18. CASE ReadFails
    BY <2>18, PostKeepsLoss DEF ReadFails
  <2>19. CASE Repost
    BY <2>19, PostKeepsLoss DEF Repost
  <2>20. CASE NetworkManagerPosts
    <3>1. PICK e \in LinkEvents \cup Lifecycle :
            /\ Post(e)
            /\ link' = IF e \in LinkEvents THEN e = "ETHERNET_CONNECTED" ELSE link
      BY <2>20, PostsAssumption DEF NetworkManagerPosts, Lifecycle
    <3>2. event' = event /\ at' = at /\ eth' = eth /\ state' = state
      BY <2>20 DEF NetworkManagerPosts
    <3>3. CASE ~halted'
      <4>1. queue' = Append(queue, e)
        BY <3>1, <3>3 DEF Post, Send
      <4>2. /\ Len(queue') = Len(queue) + 1 /\ queue'[Len(queue) + 1] = e
            /\ \A i \in 1..Len(queue) : queue'[i] = queue[i]
            /\ Len(queue) \in Nat
        BY <4>1, <3>1 DEF TypeOK, Events
      <4>3. CASE e = "ETHERNET_DISCONNECTED"
        BY <4>2, <4>3, <3>2 DEF LossQueued, Contains
      <4>4. CASE e = "ETHERNET_CONNECTED"
        BY <4>4, <3>1 DEF LossQueued
      <4>5. CASE e \in Lifecycle
        <5>1. link' = link /\ e # "ETHERNET_CONNECTED"
          BY <4>5, <3>1 DEF Lifecycle
        <5>2. LossQueued'
          BY <4>2, <5>1 DEF LossQueued
        <5>3. Contains(queue, "ETHERNET_DISCONNECTED")
                => Contains(queue', "ETHERNET_DISCONNECTED")
          BY <4>2 DEF Contains
        <5> QED
          BY <5>1, <5>2, <5>3, <3>2
      <4> QED
        BY <4>3, <4>4, <4>5
    <3> QED
      BY <3>3
  <2>21. CASE UNCHANGED vars
    BY <2>21 DEF vars, LossQueued
  <2> QED
    BY <2>1, <2>2, <2>3, <2>4, <2>5, <2>6, <2>7, <2>8, <2>9, <2>10, <2>11,
       <2>12, <2>13, <2>14, <2>15, <2>16, <2>17, <2>18, <2>19, <2>20, <2>21
       DEF Next, Handle, Resume
<1>3. LossInv => LossNeverForgotten
  BY DEF LossInv, LossNeverForgotten
<1> QED
  BY <1>1, <1>2, <1>3, TypeCorrect, SocketInvariance, StartedOnce, PTL DEF Spec

-----------------------------------------------------------------------------
(* The refinement.                                                         *)

\* The service the server gives, state by state.
LEMMA ServiceValues ==
  ASSUME TypeOK
  PROVE  /\ halted => Service = "reset"
         /\ ~halted /\ at = "delay" => Service = "closing"
         /\ ~halted /\ at # "delay" =>
              /\ state = "DISABLED" <=> Service = "off"
              /\ state = "IDLE" <=> Service = "closed"
              /\ state = "WAIT_CONNECTION" <=> Service = "listening"
              /\ state = "WORKING" <=> Service = "serving"
  BY DEF TypeOK, States, Service

\* The same after a step.
LEMMA NextServiceValues ==
  ASSUME TypeOK'
  PROVE  /\ halted' => Service' = "reset"
         /\ ~halted' /\ at' = "delay" => Service' = "closing"
         /\ ~halted' /\ at' # "delay" =>
              /\ state' = "DISABLED" <=> Service' = "off"
              /\ state' = "IDLE" <=> Service' = "closed"
              /\ state' = "WAIT_CONNECTION" <=> Service' = "listening"
              /\ state' = "WORKING" <=> Service' = "serving"
  BY DEF TypeOK, States, Service

\* The network manager believes in a client only while the server is WORKING,
\* and a client is there until the delay of close_socket begins; accept is
\* entered only on a link the server believes in, and nothing is handled in it.
ReportInv ==
  /\ clientStatus => state = "WORKING"
  /\ at = "accept" => eth

LEMMA Reported ==
  ASSUME "INIT_REQ" \notin Requests
  PROVE  Spec => []ReportInv
<1>1. Init => ReportInv
  BY DEF Init, ReportInv
<1>2. TypeOK /\ SocketInv /\ InitOnce /\ ReportInv /\ [Next]_vars => ReportInv'
  <2> SUFFICES ASSUME TypeOK, SocketInv, InitOnce, ReportInv, [Next]_vars
               PROVE  ReportInv'
    OBVIOUS
  <2> USE DEF ReportInv, SocketInv, StateSockets, ctx, Return, Goto, Handling,
              HasHandler, Handlers, WorkingEvents, LinkEvents
  <2>1. CASE Receive
    BY <2>1 DEF Receive
  <2>2. CASE Ignore
    BY <2>2 DEF Ignore
  <2>3. CASE InitRequest
    BY <2>3 DEF InitRequest, InitOnce
  <2>4. CASE EthernetConnected
    BY <2>4 DEF EthernetConnected
  <2>5. CASE EthernetDisconnected
    BY <2>5 DEF EthernetDisconnected
  <2>6. CASE CloseClient
    BY <2>6 DEF CloseClient
  <2>7. CASE PrepareRefused \/ PrepareFails \/ PrepareSucceeds
    BY <2>7, TypeOK DEF PrepareRefused, PrepareFails, PrepareSucceeds, TypeOK, States
  <2>8. CASE LinkDown \/ Accept \/ Select
    BY <2>8 DEF LinkDown, Accept, Select
  <2>9. CASE CloseServer
    BY <2>9 DEF CloseServer, CloseListener, ReportClosed, Restart, LeaveState
  <2>10. CASE AcceptFails \/ AcceptReturns
    BY <2>10 DEF AcceptFails, AcceptReturns
  <2>11. CASE SelectFails \/ ClientServed \/ ReadFails \/ Repost
    BY <2>11 DEF SelectFails, ClientServed, ReadFails, Repost
  <2>12. CASE NetworkManagerPosts
    BY <2>12 DEF NetworkManagerPosts
  <2>13. CASE UNCHANGED vars
    BY <2>13 DEF vars
  <2> QED
    BY <2>1, <2>2, <2>3, <2>4, <2>5, <2>6, <2>7, <2>8, <2>9, <2>10, <2>11,
       <2>12, <2>13 DEF Next, Handle, Resume
<1> QED
  BY <1>1, <1>2, TypeCorrect, SocketInvariance, StartedOnce, PTL DEF Spec

\* The server implements its abstract specification, for every set of
\* descriptors, queue length and number of events: each step of tcp_server.c
\* is a step of the listener, a failed assertion its reset, and the rest
\* (events received, posted or ignored, calls that block) stutters.
THEOREM Refinement ==
  ASSUME "INIT_REQ" \notin Requests
  PROVE  Spec => ImplementsListener
<1> USE DEF ImplementsListener
<1>1. Init => Abstract!Init
  <2> SUFFICES ASSUME Init PROVE Abstract!Init
    OBVIOUS
  <2>1. Service = "off"
    BY DEF Init, Service
  <2> QED
    BY <2>1 DEF Init, Abstract!Init
<1>2. /\ TypeOK /\ TypeOK' /\ SocketInv /\ SocketInv' /\ InitOnce
      /\ ReportInv /\ ReportInv' /\ [Next]_vars
      => [Abstract!Next]_(Abstract!vars)
  <2> SUFFICES ASSUME TypeOK, TypeOK', SocketInv, SocketInv', InitOnce,
                      ReportInv, ReportInv', [Next]_vars
               PROVE  [Abstract!Next]_(Abstract!vars)
    OBVIOUS
  <2>a. CASE UNCHANGED vars
    <3>1. Service' = Service
      BY <2>a DEF vars, Service
    <3> QED
      BY <2>a, <3>1 DEF vars, Abstract!vars
  <2>b. CASE halted'
    <3>1. Service' = "reset"
      BY <2>b, NextServiceValues
    <3> QED
      BY <2>b, <3>1 DEF Abstract!Next, Abstract!Reset
  <2>c. CASE ~halted /\ ~halted' /\ Next
    <3> USE <2>c, ServiceValues, NextServiceValues
        DEF ctx, Return, Goto, NoPost, Handling, HasHandler, Handlers,
            WorkingEvents, States, LinkEvents, SocketInv, StateSockets
    <3>1. ASSUME UNCHANGED <<state, eth, server, client, clientStatus>>,
                 at # "delay", at' # "delay"
          PROVE  UNCHANGED Abstract!vars
      <4>1. Service' = Service
        BY <3>1 DEF TypeOK
      <4> QED
        BY <3>1, <4>1 DEF Abstract!vars
    <3>2. CASE \/ Receive \/ Ignore \/ PrepareRefused \/ LinkDown \/ Accept
               \/ Select \/ AcceptFails \/ SelectFails \/ ClientServed
               \/ ReadFails \/ Repost
      BY <3>1, <3>2 DEF Receive, Ignore, PrepareRefused, LinkDown, Accept,
         Select, AcceptFails, SelectFails, ClientServed, ReadFails, Repost
    <3>3. CASE InitRequest
      <4>1. Service = "off" /\ Service' = "closed"
        BY <3>3 DEF InitRequest, InitOnce
      <4> QED
        BY <3>3, <4>1 DEF InitRequest, Abstract!Next, Abstract!Start
    <3>4. CASE EthernetConnected
      <4>1. Service = "closed" /\ Service' = "closed"
        BY <3>4 DEF EthernetConnected, TypeOK
      <4> QED
        BY <3>4, <4>1 DEF EthernetConnected, Abstract!Next, Abstract!LinkUp
    <3>5. CASE EthernetDisconnected
      <4>1. /\ Service' = Service
            /\ Service \in {"closed", "listening", "serving"}
        BY <3>5 DEF EthernetDisconnected, TypeOK
      <4> QED
        BY <3>5, <4>1 DEF EthernetDisconnected, Abstract!Next, Abstract!LinkDown
    <3>6. CASE CloseClient
      <4>1. /\ Service' = "closing"
            /\ Service \in {"closed", "listening", "serving"}
        BY <3>6 DEF CloseClient, TypeOK
      <4> QED
        BY <3>6, <4>1 DEF CloseClient, Abstract!Next, Abstract!CloseClient
    <3>7. CASE PrepareFails
      <4>1. Service = "closed" /\ Service' = "closed"
        BY <3>7 DEF PrepareFails, TypeOK
      <4>2. server = NoSocket /\ server' # NoSocket
        BY <3>7, SocketsAssumption DEF PrepareFails
      <4> QED
        BY <3>7, <4>1, <4>2 DEF PrepareFails, Abstract!Next, Abstract!Listen
    <3>8. CASE PrepareSucceeds
      <4>1. Service = "closed" /\ Service' = "listening"
        BY <3>8 DEF PrepareSucceeds, TypeOK
      <4>2. server = NoSocket /\ server' # NoSocket
        BY <3>8, SocketsAssumption DEF PrepareSucceeds
      <4> QED
        BY <3>8, <4>1, <4>2 DEF PrepareSucceeds, Abstract!Next, Abstract!Listen
    <3>9. CASE CloseServer
      <4>1. /\ Service = "closing" /\ Service' \in {"closed", "off"}
            /\ server' = NoSocket /\ eth' = eth /\ client' = client
            /\ clientStatus' = FALSE
        BY <3>9 DEF CloseServer, CloseListener, ReportClosed, LeaveState,
           ReportInv, TypeOK
      <4> QED
        BY <4>1 DEF Abstract!Next, Abstract!CloseListener
    <3>10. CASE AcceptReturns
      <4>1. Service = "listening" /\ Service' = "serving" /\ eth
        BY <3>10 DEF AcceptReturns, ReportInv, TypeOK
      <4>2. client' # NoSocket
        BY <3>10, SocketsAssumption DEF AcceptReturns
      <4> QED
        BY <3>10, <4>1, <4>2 DEF AcceptReturns, Abstract!Next, Abstract!Accept
    <3>11. CASE NetworkManagerPosts
      <4>1. state' = state /\ at' = at
        BY <3>11 DEF NetworkManagerPosts
      <4>2. Service' = Service
        BY <4>1 DEF TypeOK
      <4> QED
        BY <3>11, <4>2 DEF NetworkManagerPosts, Abstract!vars
    <3> QED
      BY <2>c, <3>2, <3>3, <3>4, <3>5, <3>6, <3>7, <3>8, <3>9, <3>10, <3>11
         DEF Next, Handle, Resume
  <2> QED
    BY <2>a, <2>b, <2>c DEF Next
<1> QED
  BY <1>1, <1>2, TypeCorrect, SocketInvariance, StartedOnce, Reported, PTL
     DEF Spec, Abstract!Spec

-----------------------------------------------------------------------------
(* What the server inherits from what it implements.                       *)

Inherited == INSTANCE ListenerProofs WITH
  service <- Service,
  up <- eth /\ ~halted,
  listener <- server # NoSocket /\ ~halted,
  client <- client # NoSocket /\ ~halted,
  told <- clientStatus /\ ~halted

\* The discipline of the abstract listener, in the server's own variables: a
\* client is served only next to a listener and the network manager knows of it.
THEOREM ServerDisciplined ==
  ASSUME "INIT_REQ" \notin Requests
  PROVE  Spec => []Inherited!Discipline
<1>1. Spec => Abstract!Spec
  BY Refinement DEF ImplementsListener
<1>2. Abstract!Init => Inherited!Init
  BY DEF Abstract!Init, Inherited!Init
<1>3. [Abstract!Next]_Abstract!vars => [Inherited!Next]_Inherited!vars
  BY DEF Abstract!Next, Inherited!Next, Abstract!vars, Inherited!vars,
     Abstract!Start, Inherited!Start, Abstract!LinkUp, Inherited!LinkUp,
     Abstract!LinkDown, Inherited!LinkDown, Abstract!Listen, Inherited!Listen,
     Abstract!Accept, Inherited!Accept, Abstract!CloseClient,
     Inherited!CloseClient, Abstract!CloseListener, Inherited!CloseListener,
     Abstract!Reset, Inherited!Reset
<1>4. Abstract!Spec => Inherited!Spec
  BY <1>2, <1>3, PTL DEF Abstract!Spec, Inherited!Spec
<1>5. Inherited!Spec => []Inherited!Discipline
  BY Inherited!Disciplined
<1> QED
  BY <1>1, <1>4, <1>5
=============================================================================
