-------------------------- MODULE AppStartupProofs --------------------------
(***************************************************************************)
(* Proofs about the start of the device, for any queue lengths and any     *)
(* number of link changes.                                                 *)
(*                                                                         *)
(* The start is a request that moves from queue to queue and splits into   *)
(* two, one to the Wi-Fi driver and one to the TCP server, whose answers,  *)
(* or the timeout, end it.  StartInv says at which of its three stages it  *)
(* is and what each task holds there.                                      *)
(***************************************************************************)
EXTENDS AppStartup, TLAPS, SequenceTheorems

-----------------------------------------------------------------------------
(* The inductive invariant.                                                *)

\* What the tasks behind the request have not begun: the Wi-Fi driver and the
\* TCP server have been asked nothing, and nobody has been answered.
NothingStarted ==
  /\ wd.state = "DISABLED" /\ wd.at = "receive" /\ wd.queue = <<>>
  /\ tcpQueue = <<>>
  /\ "NM" \notin timers
  /\ callbacks = {}
  /\ wifiEvents = 0
  /\ answers = 0
  /\ ~timedOut
  /\ nm.modulesInit = 0 /\ ~nm.wifiInitStatus
  /\ am.modulesInit = 0

\* Stage 1: the request is the only event of the application manager.
Requested ==
  /\ NothingStarted
  /\ am.state \in {"DISABLED", "INIT"}
  /\ Len(am.queue) = 1 /\ am.queue[1].id = "APP_MANAGER_INIT_REQ"
  /\ nm.state = "DISABLED" /\ nm.queue = <<>>
  /\ timers = {}

\* Stage 2: the request is the only event of the network manager; all that the
\* application manager may find is its own timeout.
Forwarded ==
  /\ NothingStarted
  /\ am.state = "INIT"
  /\ Len(am.queue) <= 1
  /\ \A i \in DOMAIN am.queue : am.queue[i].id = "APP_MANAGER_TIMEOUT_INIT"
  /\ "AM" \in timers => am.queue = <<>>
  /\ nm.state \in {"DISABLED", "INIT"}
  /\ Len(nm.queue) = 1 /\ nm.queue[1].id = "INIT_REQ"

\* Stage 3: the modules work on their requests, and the start may have ended.

\* The application manager waits for the answer, has it, or passed it on to
\* itself: at most one of them is queued, with what the Wi-Fi driver said.
AmWaits ==
  /\ am.state \in {"INIT", "IDLE"}
  /\ \A i \in DOMAIN am.queue :
       am.queue[i].id \in {"APP_MANAGER_TIMEOUT_INIT", "INIT_RES", "APP_MANAGER_INIT_RES"}
  /\ \A i, j \in DOMAIN am.queue :
       (am.queue[i].id = "APP_MANAGER_TIMEOUT_INIT") =
         (am.queue[j].id = "APP_MANAGER_TIMEOUT_INIT") => i = j
  /\ "AM" \in timers =>
       \A i \in DOMAIN am.queue : am.queue[i].id # "APP_MANAGER_TIMEOUT_INIT"
  /\ \A i \in DOMAIN am.queue : am.queue[i].id # "APP_MANAGER_TIMEOUT_INIT" =>
       answers = 1 /\ am.state = "INIT" /\ am.queue[i].ok = nm.wifiInitStatus
  /\ \A i \in DOMAIN am.queue : am.queue[i].id = "INIT_RES" =>
       am.modulesInit = 0 /\ am.queue[i].src = "NM"
  /\ am.modulesInit \in {0, 1}
  /\ am.modulesInit = 1 => answers = 1
  /\ am.state = "IDLE" => answers = 1 /\ nm.wifiInitStatus

\* The Wi-Fi driver has had its INIT_REQ and posted the answer to it.
WdAnswered == wd.at = "receive" /\ \A i \in DOMAIN wd.queue : wd.queue[i].id # "INIT_REQ"

\* How many answers the network manager counted apart from the Wi-Fi driver's.
TcpCounted == IF nm.wifiInitStatus THEN nm.modulesInit = 2 ELSE nm.modulesInit = 1

\* The network manager counts each of the two answers once, and gives its own
\* when it leaves INIT.
NmCounts ==
  /\ answers \in {0, 1}
  /\ nm.state = IF answers = 0 THEN "INIT"
                ELSE IF nm.wifiInitStatus THEN "IDLE" ELSE "DISABLED"
  /\ \A i \in DOMAIN nm.queue :
       nm.queue[i].id \in {"INIT_RES", "NETWORK_MANAGER_INIT_RES",
         "NETWORK_MANAGER_TIMEOUT_INIT", "NETWORK_MANAGER_WIFI_CONNECT_STATUS"}
  /\ \A i, j \in DOMAIN nm.queue :
       nm.queue[i].id = "INIT_RES" /\ nm.queue[j].id = "INIT_RES"
         /\ nm.queue[i].src = nm.queue[j].src => i = j
  /\ \A i \in DOMAIN nm.queue : nm.queue[i].id = "INIT_RES" =>
       \/ nm.queue[i].src = "WD" /\ nm.queue[i].ok /\ WdAnswered /\ ~nm.wifiInitStatus
       \/ nm.queue[i].src = "TCP" /\ tcpQueue = <<>> /\ ~TcpCounted
  /\ nm.wifiInitStatus => WdAnswered /\ nm.modulesInit \in {1, 2}
  /\ ~nm.wifiInitStatus => nm.modulesInit \in {0, 1}
  /\ tcpQueue # <<>> => Len(tcpQueue) = 1 /\ ~TcpCounted

\* Without a timeout the start ends only with the Wi-Fi driver's answer.
NoTimeoutYet ==
  ~timedOut =>
    /\ \A i \in DOMAIN nm.queue :
         /\ nm.queue[i].id # "NETWORK_MANAGER_TIMEOUT_INIT"
         /\ nm.queue[i].id = "NETWORK_MANAGER_INIT_RES" => nm.wifiInitStatus
    /\ answers = 1 => nm.wifiInitStatus

StartFailed == answers = 1 /\ ~nm.wifiInitStatus

\* The Wi-Fi driver: asked, at work, up, or down again; DEINIT_REQ follows only
\* a failed start, and comes behind the INIT_REQ.
WdWorks ==
  /\ Len(wd.queue) <= 2
  /\ \A i \in DOMAIN wd.queue :
       \/ wd.queue[i].id = "DEINIT_REQ" /\ StartFailed /\ i = Len(wd.queue)
       \/ /\ wd.queue[i].id = "INIT_REQ" /\ i = 1
          /\ wd.state = "DISABLED" /\ wd.at = "receive" /\ callbacks = {}
  /\ Len(wd.queue) = 2 => wd.queue[1].id = "INIT_REQ"
  /\ wd.at # "receive" => wd.state = "DISABLED"
  /\ wd.at = "started" => callbacks = {}
  /\ wd.at = "gotIp" => callbacks = {TRUE}
  /\ wd.at = "answer" => callbacks = BOOLEAN
  /\ wd.state = "IDLE" => callbacks = BOOLEAN
  /\ wd.state = "DISABLED" /\ WdAnswered => wd.queue = <<>> /\ StartFailed

Started == AmWaits /\ NmCounts /\ NoTimeoutYet /\ WdWorks

StartInv == Requested \/ Forwarded \/ Started

\* The Wi-Fi driver still has to answer.
WdOwes == wd.at # "receive" \/ wd.queue # <<>>
WdOwed == IF WdOwes THEN 1 ELSE 0

\* What the network manager finds queued and is still owed fits in its queue.
NmLoad == ~timedOut => Len(nm.queue) + Len(tcpQueue) + WdOwed <= wifiEvents + 2

\* No request reaches the Wi-Fi driver in a state whose table does not list it
\* (wifidrv.c 205-226).
WdRequestsHandled ==
  wd.at = "receive" /\ wd.queue # <<>> =>
    HasHandler(WdHandlers, wd.state, Head(wd.queue).id)

-----------------------------------------------------------------------------
(* Receiving and posting, by the places in the queue.                      *)

LEMMA ReceiveShape ==
  ASSUME NEW q \in Seq(Messages), q # <<>>
  PROVE  /\ Tail(q) \in Seq(Messages) /\ Len(Tail(q)) = Len(q) - 1
         /\ Len(q) \in Nat /\ Len(q) >= 1
         /\ 1 \in DOMAIN q /\ Head(q) = q[1] /\ Head(q) \in Messages
         /\ \A i \in DOMAIN Tail(q) :
              i \in Nat /\ i >= 1 /\ i + 1 \in DOMAIN q /\ Tail(q)[i] = q[i + 1]
  OBVIOUS

LEMMA SendShape ==
  ASSUME NEW q \in Seq(Messages), NEW length \in Nat, NEW m \in Messages
  PROVE  /\ Send(q, length, m) \in Seq(Messages)
         /\ Len(Send(q, length, m)) \in Nat
         /\ Len(q) \in Nat
         /\ Len(q) <= length => Len(Send(q, length, m)) <= length
         /\ Full(q, length) => Send(q, length, m) = q
         /\ ~Full(q, length) => /\ Len(Send(q, length, m)) = Len(q) + 1
                                /\ Send(q, length, m) = Append(q, m)
         /\ \A i \in DOMAIN Send(q, length, m) :
              \/ i \in DOMAIN q /\ Send(q, length, m)[i] = q[i]
              \/ i = Len(q) + 1 /\ Send(q, length, m)[i] = m
         /\ Full(q, length) \in BOOLEAN
         /\ Full(q, length) <=> Len(q) >= length
<1>1. CASE Full(q, length)
  BY <1>1 DEF Send, Full
<1>2. CASE ~Full(q, length)
  <2>1. Send(q, length, m) = Append(q, m)
    BY <1>2 DEF Send
  <2>2. Append(q, m) \in Seq(Messages) /\ Len(Append(q, m)) = Len(q) + 1
    OBVIOUS
  <2> QED
    BY <1>2, <2>1, <2>2 DEF Full
<1> QED
  BY <1>1, <1>2

\* The messages of the model.
LEMMA MessageTypes ==
  ASSUME NEW ok \in BOOLEAN
  PROVE  /\ \A id \in Ids, src \in Tasks : Msg(id, src, ok) \in Messages
         /\ \A id, src : /\ Msg(id, src, ok).id = id
                         /\ Msg(id, src, ok).src = src
                         /\ Msg(id, src, ok).ok = ok
  BY DEF Msg, Messages

\* The records of the three tasks.
AmRecords == [queue : Seq(Messages), state : DOMAIN AmHandlers,
              modulesInit : Nat, initResult : BOOLEAN]
NmRecords == [queue : Seq(Messages), state : DOMAIN NmHandlers,
              modulesInit : Nat, wifiInitStatus : BOOLEAN]
WdRecords == [queue : Seq(Messages), state : DOMAIN WdHandlers,
              at : {"receive", "started", "gotIp", "answer"}]

\* Receiving changes the queue of a task and nothing else.
LEMMA ReceivedFields ==
  /\ \A a \in AmRecords : a.queue # <<>> =>
       /\ Received(a) \in AmRecords
       /\ Received(a).queue = Tail(a.queue)
       /\ Received(a).state = a.state
       /\ Received(a).modulesInit = a.modulesInit
       /\ Received(a).initResult = a.initResult
  /\ \A n \in NmRecords : n.queue # <<>> =>
       /\ Received(n) \in NmRecords
       /\ Received(n).queue = Tail(n.queue)
       /\ Received(n).state = n.state
       /\ Received(n).modulesInit = n.modulesInit
       /\ Received(n).wifiInitStatus = n.wifiInitStatus
  /\ \A w \in WdRecords : w.queue # <<>> =>
       /\ Received(w) \in WdRecords
       /\ Received(w).queue = Tail(w.queue)
       /\ Received(w).state = w.state
       /\ Received(w).at = w.at
<1>0. \A q \in Seq(Messages) : q # <<>> => Tail(q) \in Seq(Messages)
  OBVIOUS
<1>1. ASSUME NEW a \in AmRecords, a.queue # <<>>
      PROVE  /\ Received(a) \in AmRecords
             /\ Received(a).queue = Tail(a.queue)
             /\ Received(a).state = a.state
             /\ Received(a).modulesInit = a.modulesInit
             /\ Received(a).initResult = a.initResult
  BY <1>0, <1>1 DEF Received, AmRecords
<1>2. ASSUME NEW n \in NmRecords, n.queue # <<>>
      PROVE  /\ Received(n) \in NmRecords
             /\ Received(n).queue = Tail(n.queue)
             /\ Received(n).state = n.state
             /\ Received(n).modulesInit = n.modulesInit
             /\ Received(n).wifiInitStatus = n.wifiInitStatus
  BY <1>0, <1>2 DEF Received, NmRecords
<1>3. ASSUME NEW w \in WdRecords, w.queue # <<>>
      PROVE  /\ Received(w) \in WdRecords
             /\ Received(w).queue = Tail(w.queue)
             /\ Received(w).state = w.state
             /\ Received(w).at = w.at
  BY <1>0, <1>3 DEF Received, WdRecords
<1> QED
  BY <1>1, <1>2, <1>3

\* Posting to a task does so too.
LEMMA PostedFields ==
  ASSUME NEW length \in Nat, NEW m \in Messages
  PROVE  /\ \A a \in AmRecords :
              /\ Posted(a, length, m) \in AmRecords
              /\ Posted(a, length, m).queue = Send(a.queue, length, m)
              /\ Posted(a, length, m).state = a.state
              /\ Posted(a, length, m).modulesInit = a.modulesInit
              /\ Posted(a, length, m).initResult = a.initResult
              /\ Overflows(a, length) = Full(a.queue, length)
         /\ \A n \in NmRecords :
              /\ Posted(n, length, m) \in NmRecords
              /\ Posted(n, length, m).queue = Send(n.queue, length, m)
              /\ Posted(n, length, m).state = n.state
              /\ Posted(n, length, m).modulesInit = n.modulesInit
              /\ Posted(n, length, m).wifiInitStatus = n.wifiInitStatus
              /\ Overflows(n, length) = Full(n.queue, length)
         /\ \A w \in WdRecords :
              /\ Posted(w, length, m) \in WdRecords
              /\ Posted(w, length, m).queue = Send(w.queue, length, m)
              /\ Posted(w, length, m).state = w.state
              /\ Posted(w, length, m).at = w.at
              /\ Overflows(w, length) = Full(w.queue, length)
<1>0. \A q \in Seq(Messages) : Send(q, length, m) \in Seq(Messages)
  BY SendShape
<1>1. ASSUME NEW a \in AmRecords
      PROVE  /\ Posted(a, length, m) \in AmRecords
             /\ Posted(a, length, m).queue = Send(a.queue, length, m)
             /\ Posted(a, length, m).state = a.state
             /\ Posted(a, length, m).modulesInit = a.modulesInit
             /\ Posted(a, length, m).initResult = a.initResult
             /\ Overflows(a, length) = Full(a.queue, length)
  BY <1>0 DEF Posted, Overflows, AmRecords
<1>2. ASSUME NEW n \in NmRecords
      PROVE  /\ Posted(n, length, m) \in NmRecords
             /\ Posted(n, length, m).queue = Send(n.queue, length, m)
             /\ Posted(n, length, m).state = n.state
             /\ Posted(n, length, m).modulesInit = n.modulesInit
             /\ Posted(n, length, m).wifiInitStatus = n.wifiInitStatus
             /\ Overflows(n, length) = Full(n.queue, length)
  BY <1>0 DEF Posted, Overflows, NmRecords
<1>3. ASSUME NEW w \in WdRecords
      PROVE  /\ Posted(w, length, m) \in WdRecords
             /\ Posted(w, length, m).queue = Send(w.queue, length, m)
             /\ Posted(w, length, m).state = w.state
             /\ Posted(w, length, m).at = w.at
             /\ Overflows(w, length) = Full(w.queue, length)
  BY <1>0 DEF Posted, Overflows, WdRecords
<1> QED
  BY <1>1, <1>2, <1>3

-----------------------------------------------------------------------------
(* What the actions do to the records, field by field.                     *)

AmBecomes(q, st, n, r) ==
  /\ am' \in AmRecords /\ am'.queue = q /\ am'.state = st
  /\ am'.modulesInit = n /\ am'.initResult = r
NmBecomes(q, st, n, r) ==
  /\ nm' \in NmRecords /\ nm'.queue = q /\ nm'.state = st
  /\ nm'.modulesInit = n /\ nm'.wifiInitStatus = r
WdBecomes(q, st, at) ==
  wd' \in WdRecords /\ wd'.queue = q /\ wd'.state = st /\ wd'.at = at

\* The message at the head of a task's queue, which its state does or does not
\* list.
Finds(task, handlers, id) ==
  task.queue # <<>> /\ Head(task.queue).id = id /\ id \in handlers[task.state]

LEMMA InRecords ==
  TypeOK => /\ am \in AmRecords /\ nm \in NmRecords /\ wd \in WdRecords
            /\ AmLength \in Nat /\ NmLength \in Nat /\ WdLength \in Nat
            /\ Len(am.queue) <= AmLength /\ Len(nm.queue) <= NmLength
            /\ Len(wd.queue) <= WdLength
            /\ am.modulesInit \in 0..1 /\ nm.modulesInit \in 0..2
<1> SUFFICES ASSUME TypeOK
             PROVE  am \in AmRecords /\ nm \in NmRecords /\ wd \in WdRecords
                    /\ am.modulesInit \in 0..1 /\ nm.modulesInit \in 0..2
  BY LengthsAssumption DEF TypeOK
<1>1. am \in AmRecords /\ am.modulesInit \in 0..1
  BY DEF TypeOK, AmRecords
<1>2. nm \in NmRecords /\ nm.modulesInit \in 0..2
  BY DEF TypeOK, NmRecords
<1>3. wd \in WdRecords
  BY DEF TypeOK, WdRecords
<1> QED
  BY <1>1, <1>2, <1>3

LEMMA AmDropEffect ==
  ASSUME TypeOK, AmDrop
  PROVE  /\ am.queue # <<>> /\ Head(am.queue).id \notin AmHandlers[am.state]
         /\ AmBecomes(Tail(am.queue), am.state, am.modulesInit, am.initResult)
  BY InRecords, ReceivedFields DEF AmDrop, Drops, HasHandler, AmBecomes

LEMMA AmDisabledInitReqEffect ==
  ASSUME TypeOK, AmDisabledInitReq
  PROVE  /\ am.state = "DISABLED" /\ Finds(am, AmHandlers, "APP_MANAGER_INIT_REQ")
         /\ AmBecomes(Send(Tail(am.queue), AmLength, Msg("APP_MANAGER_INIT_REQ", "AM", TRUE)),
                      "INIT", am.modulesInit, am.initResult)
         /\ halted' = Full(Tail(am.queue), AmLength)
<1> DEFINE next == [Received(am) EXCEPT !.state = "INIT"]
           m == Msg("APP_MANAGER_INIT_REQ", "AM", TRUE)
<1>1. Finds(am, AmHandlers, "APP_MANAGER_INIT_REQ") /\ am.state = "DISABLED"
  BY DEF AmDisabledInitReq, Takes, HasHandler, Finds
<1>2. /\ next \in AmRecords
      /\ next.queue = Tail(am.queue) /\ next.state = "INIT"
      /\ next.modulesInit = am.modulesInit /\ next.initResult = am.initResult
  <2>1. Received(am) \in AmRecords /\ Received(am).queue = Tail(am.queue)
        /\ Received(am).modulesInit = am.modulesInit
        /\ Received(am).initResult = am.initResult
    BY <1>1, InRecords, ReceivedFields DEF Finds
  <2>2. "INIT" \in DOMAIN AmHandlers
    BY DEF AmHandlers
  <2> HIDE DEF next
  <2> QED
    BY <2>1, <2>2 DEF next, AmRecords
<1>3. m \in Messages
  BY MessageTypes DEF Ids, Tasks
<1>4. am' = Posted(next, AmLength, m) /\ halted' = Overflows(next, AmLength)
  BY DEF AmDisabledInitReq
<1> HIDE DEF next, m
<1>5. /\ AmBecomes(Send(Tail(am.queue), AmLength, m), "INIT", am.modulesInit, am.initResult)
      /\ halted' = Full(Tail(am.queue), AmLength)
  BY <1>2, <1>3, <1>4, InRecords, PostedFields DEF AmBecomes
<1> QED
  BY <1>1, <1>5 DEF m

LEMMA AmInitInitReqEffect ==
  ASSUME TypeOK, AmInitInitReq
  PROVE  /\ am.state = "INIT" /\ Finds(am, AmHandlers, "APP_MANAGER_INIT_REQ")
         /\ AmBecomes(Tail(am.queue), am.state, 0, am.initResult)
         /\ NmBecomes(Send(nm.queue, NmLength, Msg("INIT_REQ", "AM", TRUE)),
                      nm.state, nm.modulesInit, nm.wifiInitStatus)
         /\ halted' = Full(nm.queue, NmLength)
<1>1. am.state = "INIT" /\ Finds(am, AmHandlers, "APP_MANAGER_INIT_REQ")
  BY DEF AmInitInitReq, Takes, HasHandler, Finds
<1>2. AmBecomes(Tail(am.queue), am.state, 0, am.initResult)
  <2>1. Received(am) \in AmRecords /\ Received(am).queue = Tail(am.queue)
        /\ Received(am).state = am.state /\ Received(am).initResult = am.initResult
    BY <1>1, InRecords, ReceivedFields DEF Finds
  <2>2. am' = [Received(am) EXCEPT !.modulesInit = 0]
    BY DEF AmInitInitReq
  <2> QED
    BY <2>1, <2>2 DEF AmBecomes, AmRecords
<1>3. Msg("INIT_REQ", "AM", TRUE) \in Messages
  BY MessageTypes DEF Ids, Tasks
<1>4. /\ NmBecomes(Send(nm.queue, NmLength, Msg("INIT_REQ", "AM", TRUE)),
                   nm.state, nm.modulesInit, nm.wifiInitStatus)
      /\ halted' = Full(nm.queue, NmLength)
  BY <1>3, InRecords, PostedFields DEF AmInitInitReq, NmBecomes
<1> QED
  BY <1>1, <1>2, <1>4

\* A message of the network manager is counted and makes the start end.
LEMMA AmModuleAnswerEffect ==
  ASSUME TypeOK, AmModuleAnswer, Head(am.queue).src = "NM"
  PROVE  /\ Finds(am, AmHandlers, "INIT_RES")
         /\ AmBecomes(Send(Tail(am.queue), AmLength,
                           Msg("APP_MANAGER_INIT_RES", "AM", Head(am.queue).ok)),
                      am.state, am.modulesInit + 1, Head(am.queue).ok)
         /\ halted' = Full(Tail(am.queue), AmLength)
<1> DEFINE counted == AmCounted(Head(am.queue))
           m == Msg("APP_MANAGER_INIT_RES", "AM", Head(am.queue).ok)
<1>1. Finds(am, AmHandlers, "INIT_RES")
  BY DEF AmModuleAnswer, Takes, HasHandler, Finds
<1>2. Head(am.queue) \in Messages /\ Head(am.queue).ok \in BOOLEAN
  BY <1>1, InRecords, ReceiveShape DEF Finds, AmRecords, Messages
<1>3. /\ counted \in AmRecords
      /\ counted.queue = Tail(am.queue) /\ counted.state = am.state
      /\ counted.modulesInit = am.modulesInit + 1
      /\ counted.initResult = Head(am.queue).ok
  <2>1. Received(am) \in AmRecords /\ Received(am).queue = Tail(am.queue)
        /\ Received(am).state = am.state /\ Received(am).modulesInit = am.modulesInit
    BY <1>1, InRecords, ReceivedFields DEF Finds
  <2>2. counted = [Received(am) EXCEPT !.initResult = Head(am.queue).ok,
                                       !.modulesInit = @ + 1]
    BY DEF AmCounted
  <2>3. am.modulesInit + 1 \in Nat
    BY InRecords
  <2> HIDE DEF counted
  <2> QED
    BY <1>2, <2>1, <2>2, <2>3 DEF AmRecords
<1>4. m \in Messages
  BY <1>2, MessageTypes DEF Ids, Tasks
<1>5. AmAllAnswered(counted.modulesInit)
  BY <1>3, InRecords DEF AmAllAnswered
<1>6. am' = Posted(counted, AmLength, m) /\ halted' = Overflows(counted, AmLength)
  BY <1>3, <1>5 DEF AmModuleAnswer
<1> HIDE DEF counted, m
<1>7. /\ AmBecomes(Send(Tail(am.queue), AmLength, m), am.state, am.modulesInit + 1,
                   Head(am.queue).ok)
      /\ halted' = Full(Tail(am.queue), AmLength)
  BY <1>3, <1>4, <1>6, InRecords, PostedFields DEF AmBecomes
<1> QED
  BY <1>1, <1>7 DEF m

LEMMA AmInitResultEffect ==
  ASSUME TypeOK, AmInitResult
  PROVE  /\ Finds(am, AmHandlers, "APP_MANAGER_INIT_RES")
         /\ AmBecomes(Tail(am.queue), IF Head(am.queue).ok THEN "IDLE" ELSE am.state,
                      am.modulesInit, am.initResult)
         /\ halted' = IF Head(am.queue).ok THEN halted ELSE TRUE
<1>1. Finds(am, AmHandlers, "APP_MANAGER_INIT_RES")
  BY DEF AmInitResult, Takes, HasHandler, Finds
<1>2. Received(am) \in AmRecords /\ Received(am).queue = Tail(am.queue)
      /\ Received(am).state = am.state /\ Received(am).modulesInit = am.modulesInit
      /\ Received(am).initResult = am.initResult
  BY <1>1, InRecords, ReceivedFields DEF Finds
<1>3. "IDLE" \in DOMAIN AmHandlers
  BY DEF AmHandlers
<1>4. CASE Head(am.queue).ok
  <2>1. am' = [Received(am) EXCEPT !.state = "IDLE"] /\ halted' = halted
    BY <1>4 DEF AmInitResult
  <2> QED
    BY <1>1, <1>2, <1>3, <1>4, <2>1 DEF AmBecomes, AmRecords
<1>5. CASE ~Head(am.queue).ok
  <2>1. am' = Received(am) /\ halted' = TRUE
    BY <1>5 DEF AmInitResult
  <2> QED
    BY <1>1, <1>2, <1>5, <2>1 DEF AmBecomes
<1> QED
  BY <1>4, <1>5

LEMMA AmTimeoutEffect ==
  ASSUME TypeOK, AmTimeout
  PROVE  /\ AmBecomes(Send(am.queue, AmLength, Msg("APP_MANAGER_TIMEOUT_INIT", "AM", TRUE)),
                      am.state, am.modulesInit, am.initResult)
         /\ halted' = Full(am.queue, AmLength)
<1>1. Msg("APP_MANAGER_TIMEOUT_INIT", "AM", TRUE) \in Messages
  BY MessageTypes DEF Ids, Tasks
<1> QED
  BY <1>1, InRecords, PostedFields DEF AmTimeout, AmBecomes

LEMMA NmPostEffect ==
  ASSUME TypeOK, NEW m \in Messages, nm' = Posted(nm, NmLength, m)
  PROVE  /\ NmBecomes(Send(nm.queue, NmLength, m), nm.state, nm.modulesInit,
                      nm.wifiInitStatus)
         /\ Overflows(nm, NmLength) = Full(nm.queue, NmLength)
  BY InRecords, PostedFields DEF NmBecomes

\* A record that keeps its type, its queue posted to.
LEMMA NmRecordPost ==
  ASSUME NmLength \in Nat, NEW n \in NmRecords, NEW m \in Messages,
         nm' = Posted(n, NmLength, m)
  PROVE  /\ NmBecomes(Send(n.queue, NmLength, m), n.state, n.modulesInit,
                      n.wifiInitStatus)
         /\ Overflows(n, NmLength) = Full(n.queue, NmLength)
  BY PostedFields DEF NmBecomes

LEMMA NmReceives ==
  ASSUME TypeOK, nm.queue # <<>>
  PROVE  /\ Received(nm) \in NmRecords /\ Received(nm).queue = Tail(nm.queue)
         /\ Received(nm).state = nm.state /\ Received(nm).modulesInit = nm.modulesInit
         /\ Received(nm).wifiInitStatus = nm.wifiInitStatus
         /\ Head(nm.queue) \in Messages /\ Head(nm.queue).ok \in BOOLEAN
<1>1. nm \in NmRecords
  BY InRecords
<1>2. Head(nm.queue) \in Messages
  BY <1>1, ReceiveShape DEF NmRecords
<1> QED
  BY <1>1, <1>2, ReceivedFields DEF Messages

LEMMA NmDropEffect ==
  ASSUME TypeOK, NmDrop
  PROVE  /\ nm.queue # <<>> /\ Head(nm.queue).id \notin NmHandlers[nm.state]
         /\ NmBecomes(Tail(nm.queue), nm.state, nm.modulesInit, nm.wifiInitStatus)
  BY NmReceives DEF NmDrop, Drops, HasHandler, NmBecomes

LEMMA NmDisabledInitReqEffect ==
  ASSUME TypeOK, NmDisabledInitReq
  PROVE  /\ nm.state \in {"DISABLED", "IDLE"} /\ Finds(nm, NmHandlers, "INIT_REQ")
         /\ NmBecomes(Send(Tail(nm.queue), NmLength, Msg("INIT_REQ", "NM", TRUE)),
                      "INIT", nm.modulesInit, nm.wifiInitStatus)
         /\ halted' = Full(Tail(nm.queue), NmLength)
<1> DEFINE next == [Received(nm) EXCEPT !.state = "INIT"]
           m == Msg("INIT_REQ", "NM", TRUE)
<1>1. Finds(nm, NmHandlers, "INIT_REQ") /\ nm.state \in {"DISABLED", "IDLE"}
  BY DEF NmDisabledInitReq, Takes, HasHandler, Finds
<1>2. /\ next \in NmRecords
      /\ next.queue = Tail(nm.queue) /\ next.state = "INIT"
      /\ next.modulesInit = nm.modulesInit /\ next.wifiInitStatus = nm.wifiInitStatus
  <2>1. "INIT" \in DOMAIN NmHandlers
    BY DEF NmHandlers
  <2>2. next = [Received(nm) EXCEPT !.state = "INIT"]
    OBVIOUS
  <2> HIDE DEF next
  <2> QED
    BY <1>1, <2>1, <2>2, NmReceives DEF NmRecords, Finds
<1>3. m \in Messages
  BY MessageTypes DEF Ids, Tasks
<1>4. nm' = Posted(next, NmLength, m) /\ halted' = Overflows(next, NmLength)
  BY DEF NmDisabledInitReq
<1> HIDE DEF next, m
<1>5. /\ NmBecomes(Send(Tail(nm.queue), NmLength, m), "INIT", nm.modulesInit,
                   nm.wifiInitStatus)
      /\ halted' = Full(Tail(nm.queue), NmLength)
  <2>1. /\ NmBecomes(Send(next.queue, NmLength, m), next.state, next.modulesInit,
                     next.wifiInitStatus)
        /\ Overflows(next, NmLength) = Full(next.queue, NmLength)
    BY <1>2, <1>3, <1>4, InRecords, NmRecordPost
  <2> QED
    BY <1>2, <1>4, <2>1
<1> QED
  BY <1>1, <1>5 DEF m

LEMMA NmInitInitReqEffect ==
  ASSUME TypeOK, NmInitInitReq
  PROVE  /\ nm.state = "INIT" /\ Finds(nm, NmHandlers, "INIT_REQ")
         /\ NmBecomes(Tail(nm.queue), nm.state, 0, nm.wifiInitStatus)
         /\ WdBecomes(Send(wd.queue, WdLength, Msg("INIT_REQ", "NM", TRUE)),
                      wd.state, wd.at)
         /\ halted' = Full(wd.queue, WdLength)
<1>1. nm.state = "INIT" /\ Finds(nm, NmHandlers, "INIT_REQ")
  BY DEF NmInitInitReq, Takes, HasHandler, Finds
<1>2. NmBecomes(Tail(nm.queue), nm.state, 0, nm.wifiInitStatus)
  <2>1. nm' = [Received(nm) EXCEPT !.modulesInit = 0]
    BY DEF NmInitInitReq
  <2> QED
    BY <1>1, <2>1, NmReceives DEF NmBecomes, NmRecords, Finds
<1>3. Msg("INIT_REQ", "NM", TRUE) \in Messages
  BY MessageTypes DEF Ids, Tasks
<1>4. /\ WdBecomes(Send(wd.queue, WdLength, Msg("INIT_REQ", "NM", TRUE)), wd.state, wd.at)
      /\ halted' = Full(wd.queue, WdLength)
  BY <1>3, InRecords, PostedFields DEF NmInitInitReq, WdBecomes
<1> QED
  BY <1>1, <1>2, <1>4

LEMMA NmModuleAnswerEffect ==
  ASSUME TypeOK, NmModuleAnswer
  PROVE  LET m == Head(nm.queue)
             ok == IF m.src = "WD" THEN m.ok ELSE nm.wifiInitStatus
         IN  /\ Finds(nm, NmHandlers, "INIT_RES")
             /\ ok \in BOOLEAN
             /\ IF nm.modulesInit + 1 = 2
                THEN /\ NmBecomes(Send(Tail(nm.queue), NmLength,
                                       Msg("NETWORK_MANAGER_INIT_RES", "NM", TRUE)),
                                  nm.state, nm.modulesInit + 1, ok)
                     /\ halted' = Full(Tail(nm.queue), NmLength)
                ELSE /\ NmBecomes(Tail(nm.queue), nm.state, nm.modulesInit + 1, ok)
                     /\ halted' = halted
<1> DEFINE ok == IF Head(nm.queue).src = "WD" THEN Head(nm.queue).ok ELSE nm.wifiInitStatus
           counted == [Received(nm) EXCEPT
                         !.modulesInit = @ + 1,
                         !.wifiInitStatus = IF Head(nm.queue).src = "WD"
                                            THEN Head(nm.queue).ok ELSE @]
           result == Msg("NETWORK_MANAGER_INIT_RES", "NM", TRUE)
<1>1. Finds(nm, NmHandlers, "INIT_RES")
  BY DEF NmModuleAnswer, Takes, HasHandler, Finds
<1>2. ok \in BOOLEAN
  BY <1>1, InRecords, NmReceives DEF Finds, NmRecords
<1>3. /\ counted \in NmRecords
      /\ counted.queue = Tail(nm.queue) /\ counted.state = nm.state
      /\ counted.modulesInit = nm.modulesInit + 1 /\ counted.wifiInitStatus = ok
  <2>1. nm.modulesInit + 1 \in Nat
    BY InRecords
  <2>2. /\ Received(nm) \in NmRecords /\ Received(nm).queue = Tail(nm.queue)
        /\ Received(nm).state = nm.state /\ Received(nm).modulesInit = nm.modulesInit
        /\ Received(nm).wifiInitStatus = nm.wifiInitStatus
    BY <1>1, NmReceives DEF Finds
  <2>3. counted = [Received(nm) EXCEPT !.modulesInit = nm.modulesInit + 1,
                                       !.wifiInitStatus = ok]
    BY <2>2 DEF NmRecords
  <2> HIDE DEF counted, ok
  <2> QED
    BY <1>2, <2>1, <2>2, <2>3 DEF NmRecords
<1>4. result \in Messages
  BY MessageTypes DEF Ids, Tasks
<1>5. CASE nm.modulesInit + 1 = 2
  <2>1. nm' = Posted(counted, NmLength, result) /\ halted' = Overflows(counted, NmLength)
    BY <1>3, <1>5 DEF NmModuleAnswer, NmAllAnswered
  <2> HIDE DEF counted, ok, result
  <2>2. /\ NmBecomes(Send(counted.queue, NmLength, result), counted.state,
                     counted.modulesInit, counted.wifiInitStatus)
        /\ Overflows(counted, NmLength) = Full(counted.queue, NmLength)
    BY <1>3, <1>4, <2>1, InRecords, NmRecordPost
  <2>3. /\ NmBecomes(Send(Tail(nm.queue), NmLength, result), nm.state,
                     nm.modulesInit + 1, ok)
        /\ halted' = Full(Tail(nm.queue), NmLength)
    BY <1>3, <2>1, <2>2
  <2> QED
    BY <1>1, <1>2, <1>5, <2>3 DEF ok, result
<1>6. CASE nm.modulesInit + 1 # 2
  <2>1. nm' = counted /\ halted' = halted
    BY <1>3, <1>6 DEF NmModuleAnswer, NmAllAnswered
  <2>2. NmBecomes(Tail(nm.queue), nm.state, nm.modulesInit + 1, ok)
    BY <1>3, <2>1 DEF NmBecomes
  <2> QED
    BY <1>1, <1>2, <1>6, <2>1, <2>2
<1> QED
  BY <1>5, <1>6

LEMMA NmTimeoutInitEffect ==
  ASSUME TypeOK, NmTimeoutInit
  PROVE  /\ Finds(nm, NmHandlers, "NETWORK_MANAGER_TIMEOUT_INIT")
         /\ NmBecomes(Send(Tail(nm.queue), NmLength,
                           Msg("NETWORK_MANAGER_INIT_RES", "NM", TRUE)),
                      nm.state, nm.modulesInit, nm.wifiInitStatus)
         /\ halted' = Full(Tail(nm.queue), NmLength)
<1>1. Finds(nm, NmHandlers, "NETWORK_MANAGER_TIMEOUT_INIT")
  BY DEF NmTimeoutInit, Takes, HasHandler, Finds
<1>2. Msg("NETWORK_MANAGER_INIT_RES", "NM", TRUE) \in Messages
  BY MessageTypes DEF Ids, Tasks
<1>3. /\ nm' = Posted(Received(nm), NmLength, Msg("NETWORK_MANAGER_INIT_RES", "NM", TRUE))
      /\ halted' = Overflows(Received(nm), NmLength)
  BY DEF NmTimeoutInit
<1>4. /\ Received(nm) \in NmRecords /\ Received(nm).queue = Tail(nm.queue)
      /\ Received(nm).state = nm.state /\ Received(nm).modulesInit = nm.modulesInit
      /\ Received(nm).wifiInitStatus = nm.wifiInitStatus
  BY <1>1, NmReceives DEF Finds
<1>5. /\ NmBecomes(Send(Received(nm).queue, NmLength,
                        Msg("NETWORK_MANAGER_INIT_RES", "NM", TRUE)),
                   Received(nm).state, Received(nm).modulesInit,
                   Received(nm).wifiInitStatus)
      /\ Overflows(Received(nm), NmLength) = Full(Received(nm).queue, NmLength)
  BY <1>2, <1>3, <1>4, InRecords, NmRecordPost
<1> QED
  BY <1>1, <1>3, <1>4, <1>5

LEMMA NmInitResultEffect ==
  ASSUME TypeOK, NmInitResult
  PROVE  /\ Finds(nm, NmHandlers, "NETWORK_MANAGER_INIT_RES")
         /\ NmBecomes(Tail(nm.queue), IF nm.wifiInitStatus THEN "IDLE" ELSE "DISABLED",
                      nm.modulesInit, nm.wifiInitStatus)
         /\ AmBecomes(Send(am.queue, AmLength, Msg("INIT_RES", "NM", nm.wifiInitStatus)),
                      am.state, am.modulesInit, am.initResult)
         /\ WdBecomes(IF nm.wifiInitStatus THEN wd.queue
                      ELSE Send(wd.queue, WdLength, Msg("DEINIT_REQ", "NM", TRUE)),
                      wd.state, wd.at)
         /\ halted' = (Full(am.queue, AmLength)
                       \/ (~nm.wifiInitStatus /\ Full(wd.queue, WdLength)))
         /\ nm.wifiInitStatus \in BOOLEAN
<1>1. Finds(nm, NmHandlers, "NETWORK_MANAGER_INIT_RES")
  BY DEF NmInitResult, Takes, HasHandler, Finds
<1>2. NmBecomes(Tail(nm.queue), NmStateAfterStart, nm.modulesInit, nm.wifiInitStatus)
  <2>1. nm' = [Received(nm) EXCEPT !.state = NmStateAfterStart]
    BY DEF NmInitResult
  <2>2. NmStateAfterStart \in DOMAIN NmHandlers
    BY DEF NmStateAfterStart, NmHandlers
  <2> QED
    BY <1>1, <2>1, <2>2, NmReceives DEF NmBecomes, NmRecords, Finds
<1>3. nm.wifiInitStatus \in BOOLEAN
  BY InRecords DEF NmRecords
<1>4. Msg("INIT_RES", "NM", nm.wifiInitStatus) \in Messages
      /\ Msg("DEINIT_REQ", "NM", TRUE) \in Messages
  BY <1>3, MessageTypes DEF Ids, Tasks
<1>5. /\ AmBecomes(Send(am.queue, AmLength, Msg("INIT_RES", "NM", nm.wifiInitStatus)),
                   am.state, am.modulesInit, am.initResult)
      /\ Overflows(am, AmLength) = Full(am.queue, AmLength)
  BY <1>4, InRecords, PostedFields DEF NmInitResult, AmBecomes
<1>6. /\ WdBecomes(IF nm.wifiInitStatus THEN wd.queue
                   ELSE Send(wd.queue, WdLength, Msg("DEINIT_REQ", "NM", TRUE)),
                   wd.state, wd.at)
      /\ Overflows(wd, WdLength) = Full(wd.queue, WdLength)
  BY <1>4, InRecords, PostedFields DEF NmInitResult, WdBecomes
<1>7. halted' = (Overflows(am, AmLength) \/ (~nm.wifiInitStatus /\ Overflows(wd, WdLength)))
  BY DEF NmInitResult
<1> QED
  BY <1>1, <1>2, <1>3, <1>5, <1>6, <1>7 DEF NmStateAfterStart

LEMMA NmTimeoutEffect ==
  ASSUME TypeOK, NmTimeout
  PROVE  /\ NmBecomes(Send(nm.queue, NmLength,
                           Msg("NETWORK_MANAGER_TIMEOUT_INIT", "NM", TRUE)),
                      nm.state, nm.modulesInit, nm.wifiInitStatus)
         /\ halted' = Full(nm.queue, NmLength)
<1>1. Msg("NETWORK_MANAGER_TIMEOUT_INIT", "NM", TRUE) \in Messages
  BY MessageTypes DEF Ids, Tasks
<1> QED
  BY <1>1, NmPostEffect DEF NmTimeout

LEMMA NmWifiConnectStatusEffect ==
  ASSUME TypeOK, NmWifiConnectStatus
  PROVE  /\ Finds(nm, NmHandlers, "NETWORK_MANAGER_WIFI_CONNECT_STATUS")
         /\ NmBecomes(Tail(nm.queue), nm.state, nm.modulesInit, nm.wifiInitStatus)
         /\ told' \in BOOLEAN
<1>1. Finds(nm, NmHandlers, "NETWORK_MANAGER_WIFI_CONNECT_STATUS")
  BY DEF NmWifiConnectStatus, Takes, HasHandler, Finds
<1> QED
  BY <1>1, NmReceives DEF NmWifiConnectStatus, NmBecomes, Finds, PassedOn

LEMMA WdStartEffect ==
  ASSUME TypeOK, WdStart
  PROVE  /\ wd.at = "receive" /\ Finds(wd, WdHandlers, "INIT_REQ")
         /\ WdBecomes(Tail(wd.queue), wd.state, "started")
<1>1. wd.at = "receive" /\ Finds(wd, WdHandlers, "INIT_REQ")
  BY DEF WdStart, Takes, HasHandler, Finds
<1>2. wd' = [Received(wd) EXCEPT !.at = "started"]
  BY DEF WdStart
<1> QED
  BY <1>1, <1>2, InRecords, ReceivedFields DEF WdBecomes, WdRecords, Finds

LEMMA WdSetCallbackEffect ==
  ASSUME TypeOK, WdSetCallback
  PROVE  WdBecomes(wd.queue, wd.state, IF wd.at = "started" THEN "gotIp" ELSE "answer")
<1>1. wd \in WdRecords
  BY InRecords
<1>2. wd' = [wd EXCEPT !.at = IF wd.at = "started" THEN "gotIp" ELSE "answer"]
  BY <1>1 DEF WdSetCallback, WdRecords
<1> QED
  BY <1>1, <1>2 DEF WdBecomes, WdRecords

LEMMA WdAnswerEffect ==
  ASSUME TypeOK, WdAnswer
  PROVE  /\ WdBecomes(wd.queue, "IDLE", "receive")
         /\ NmBecomes(Send(nm.queue, NmLength, Msg("INIT_RES", "WD", TRUE)),
                      nm.state, nm.modulesInit, nm.wifiInitStatus)
         /\ halted' = Full(nm.queue, NmLength)
<1>1. wd \in WdRecords /\ "IDLE" \in DOMAIN WdHandlers
  BY InRecords DEF WdHandlers
<1>2. wd' = [wd EXCEPT !.at = "receive", !.state = "IDLE"]
  BY DEF WdAnswer
<1>3. WdBecomes(wd.queue, "IDLE", "receive")
  BY <1>1, <1>2 DEF WdBecomes, WdRecords
<1>4. Msg("INIT_RES", "WD", TRUE) \in Messages
  BY MessageTypes DEF Ids, Tasks
<1> QED
  BY <1>3, <1>4, NmPostEffect DEF WdAnswer

LEMMA WdDeinitEffect ==
  ASSUME TypeOK, WdDeinit
  PROVE  /\ wd.at = "receive" /\ Finds(wd, WdHandlers, "DEINIT_REQ")
         /\ WdBecomes(Tail(wd.queue), "DISABLED", wd.at)
<1>1. wd.at = "receive" /\ Finds(wd, WdHandlers, "DEINIT_REQ")
  BY DEF WdDeinit, Takes, HasHandler, Finds
<1>2. wd' = [Received(wd) EXCEPT !.state = "DISABLED"] /\ "DISABLED" \in DOMAIN WdHandlers
  BY DEF WdDeinit, WdHandlers
<1> QED
  BY <1>1, <1>2, InRecords, ReceivedFields DEF WdBecomes, WdRecords, Finds

LEMMA TcpAnswerEffect ==
  ASSUME TypeOK, TcpAnswer
  PROVE  /\ NmBecomes(Send(nm.queue, NmLength, Msg("INIT_RES", "TCP", TRUE)),
                      nm.state, nm.modulesInit, nm.wifiInitStatus)
         /\ halted' = Full(nm.queue, NmLength)
<1>1. Msg("INIT_RES", "TCP", TRUE) \in Messages
  BY MessageTypes DEF Ids, Tasks
<1> QED
  BY <1>1, NmPostEffect DEF TcpAnswer

LEMMA WifiEventEffect ==
  ASSUME TypeOK, NEW up \in BOOLEAN, WifiEvent(up)
  PROVE  IF up \in callbacks
         THEN /\ NmBecomes(Send(nm.queue, NmLength,
                                Msg("NETWORK_MANAGER_WIFI_CONNECT_STATUS", "WD", up)),
                           nm.state, nm.modulesInit, nm.wifiInitStatus)
              /\ halted' = Full(nm.queue, NmLength) /\ missed' = missed
         ELSE missed' = TRUE /\ nm' = nm /\ halted' = halted
<1>1. Msg("NETWORK_MANAGER_WIFI_CONNECT_STATUS", "WD", up) \in Messages
  BY MessageTypes DEF Ids, Tasks
<1> QED
  BY <1>1, NmPostEffect DEF WifiEvent

\* Receiving a message and posting another in its place.
LEMMA ReplaceShape ==
  ASSUME NEW q \in Seq(Messages), q # <<>>, NEW length \in Nat, NEW m \in Messages
  PROVE  LET p == Send(Tail(q), length, m)
         IN  /\ p \in Seq(Messages)
             /\ Len(q) <= length => Len(p) = Len(q) /\ ~Full(Tail(q), length)
             /\ \A i \in DOMAIN p :
                  \/ i \in Nat /\ i >= 1 /\ i + 1 \in DOMAIN q /\ p[i] = q[i + 1]
                  \/ i = Len(q) /\ p[i] = m
<1>1. Tail(q) \in Seq(Messages) /\ Len(Tail(q)) = Len(q) - 1 /\ Len(q) \in Nat
  BY ReceiveShape
<1>2. /\ Send(Tail(q), length, m) \in Seq(Messages)
      /\ ~Full(Tail(q), length) => Len(Send(Tail(q), length, m)) = Len(Tail(q)) + 1
      /\ Full(Tail(q), length) <=> Len(Tail(q)) >= length
      /\ \A i \in DOMAIN Send(Tail(q), length, m) :
           \/ i \in DOMAIN Tail(q) /\ Send(Tail(q), length, m)[i] = Tail(q)[i]
           \/ i = Len(Tail(q)) + 1 /\ Send(Tail(q), length, m)[i] = m
  BY <1>1, SendShape
<1>3. \A i \in DOMAIN Tail(q) :
        i \in Nat /\ i >= 1 /\ i + 1 \in DOMAIN q /\ Tail(q)[i] = q[i + 1]
  BY ReceiveShape
<1> QED
  BY <1>1, <1>2, <1>3

-----------------------------------------------------------------------------
(* Type correctness.  The counters of answers stay in their range only     *)
(* because every answer comes once, so it takes StartInv.                  *)

QueuesOK ==
  /\ am \in AmRecords /\ Len(am.queue) <= AmLength
  /\ nm \in NmRecords /\ Len(nm.queue) <= NmLength
  /\ wd \in WdRecords /\ Len(wd.queue) <= WdLength

RestOK ==
  /\ tcpQueue \in Seq({"INIT_REQ"})
  /\ timers \subseteq {"AM", "NM"}
  /\ callbacks \subseteq BOOLEAN
  /\ wifiEvents \in 0..MaxWifiEvents
  /\ answers \in Nat
  /\ {wifi, told, missed, timedOut, halted} \subseteq BOOLEAN

LEMMA TypeParts ==
  TypeOK <=> QueuesOK /\ RestOK /\ am.modulesInit \in 0..1 /\ nm.modulesInit \in 0..2
<1>1. TypeOK => QueuesOK /\ RestOK /\ am.modulesInit \in 0..1 /\ nm.modulesInit \in 0..2
  BY InRecords DEF TypeOK, QueuesOK, RestOK
<1>2. ASSUME QueuesOK, RestOK, am.modulesInit \in 0..1, nm.modulesInit \in 0..2
      PROVE  TypeOK
  <2>1. am \in [queue : Seq(Messages), state : DOMAIN AmHandlers,
                modulesInit : 0..1, initResult : BOOLEAN]
    BY <1>2 DEF QueuesOK, AmRecords
  <2>2. nm \in [queue : Seq(Messages), state : DOMAIN NmHandlers,
                modulesInit : 0..2, wifiInitStatus : BOOLEAN]
    BY <1>2 DEF QueuesOK, NmRecords
  <2>3. wd \in [queue : Seq(Messages), state : DOMAIN WdHandlers,
                at : {"receive", "started", "gotIp", "answer"}]
    BY <1>2 DEF QueuesOK, WdRecords
  <2> QED
    BY <1>2, <2>1, <2>2, <2>3 DEF TypeOK, QueuesOK, RestOK
<1> QED
  BY <1>1, <1>2

LEMMA InitQueues == Init => QueuesOK /\ RestOK
<1> SUFFICES ASSUME Init PROVE QueuesOK /\ RestOK
  OBVIOUS
<1>1. /\ <<Msg("APP_MANAGER_INIT_REQ", "AM", TRUE)>> \in Seq(Messages)
      /\ Len(<<Msg("APP_MANAGER_INIT_REQ", "AM", TRUE)>>) = 1
  <2>1. Msg("APP_MANAGER_INIT_REQ", "AM", TRUE) \in Messages
    BY MessageTypes DEF Ids, Tasks
  <2>2. \A m \in Messages : <<m>> \in Seq(Messages) /\ Len(<<m>>) = 1
    OBVIOUS
  <2> QED
    BY <2>1, <2>2
<1>2. am \in AmRecords /\ Len(am.queue) = 1
  <2>1. "DISABLED" \in DOMAIN AmHandlers
    BY DEF AmHandlers
  <2> QED
    BY <1>1, <2>1 DEF Init, AmRecords
<1>3. nm \in NmRecords /\ Len(nm.queue) = 0
  <2>1. "DISABLED" \in DOMAIN NmHandlers
    BY DEF NmHandlers
  <2> QED
    BY <2>1 DEF Init, NmRecords
<1>4. wd \in WdRecords /\ Len(wd.queue) = 0
  BY DEF Init, WdRecords, WdHandlers
<1>5. RestOK
  <2>1. tcpQueue \in Seq({"INIT_REQ"}) /\ timers = {} /\ callbacks = {}
        /\ wifiEvents \in 0..MaxWifiEvents /\ answers = 0
    BY WifiEventsAssumption DEF Init
  <2>2. wifi = FALSE /\ told = FALSE /\ missed = FALSE /\ timedOut = FALSE
        /\ halted = FALSE
    BY DEF Init
  <2> QED
    BY <2>1, <2>2 DEF RestOK
<1> QED
  BY <1>2, <1>3, <1>4, <1>5, LengthsAssumption DEF QueuesOK

\* Every step leaves the queues within their lengths.
LEMMA NextQueues == TypeOK /\ Next => QueuesOK'
<1> SUFFICES ASSUME TypeOK, Next PROVE QueuesOK'
  OBVIOUS
<1> DEFINE AmFine(q) == q \in Seq(Messages) /\ Len(q) <= AmLength
           NmFine(q) == q \in Seq(Messages) /\ Len(q) <= NmLength
           WdFine(q) == q \in Seq(Messages) /\ Len(q) <= WdLength
<1>1. /\ AmLength \in Nat /\ NmLength \in Nat /\ WdLength \in Nat
      /\ am \in AmRecords /\ nm \in NmRecords /\ wd \in WdRecords
      /\ AmFine(am.queue) /\ NmFine(nm.queue) /\ WdFine(wd.queue)
  BY InRecords DEF AmRecords, NmRecords, WdRecords
<1>2. /\ am.queue # <<>> => AmFine(Tail(am.queue))
      /\ nm.queue # <<>> => NmFine(Tail(nm.queue))
      /\ wd.queue # <<>> => WdFine(Tail(wd.queue))
  BY <1>1, ReceiveShape
<1>3. /\ \A m \in Messages : \A q : AmFine(q) => AmFine(Send(q, AmLength, m))
      /\ \A m \in Messages : \A q : NmFine(q) => NmFine(Send(q, NmLength, m))
      /\ \A m \in Messages : \A q : WdFine(q) => WdFine(Send(q, WdLength, m))
  BY <1>1, SendShape
<1>4. /\ \A id \in Ids, src \in Tasks, ok \in BOOLEAN : Msg(id, src, ok) \in Messages
      /\ {"AM", "NM", "WD", "TCP"} = Tasks
      /\ {"APP_MANAGER_INIT_REQ", "APP_MANAGER_INIT_RES", "APP_MANAGER_TIMEOUT_INIT",
          "INIT_REQ", "INIT_RES", "DEINIT_REQ", "NETWORK_MANAGER_INIT_RES",
          "NETWORK_MANAGER_TIMEOUT_INIT", "NETWORK_MANAGER_WIFI_CONNECT_STATUS"} = Ids
  BY MessageTypes DEF Ids, Tasks
<1> DEFINE AmNew == \E q, st, n, r : AmBecomes(q, st, n, r) /\ AmFine(q)
           NmNew == \E q, st, n, r : NmBecomes(q, st, n, r) /\ NmFine(q)
           WdNew == \E q, st, at : WdBecomes(q, st, at) /\ WdFine(q)
<1>5. (am' = am \/ AmNew) /\ (nm' = nm \/ NmNew) /\ (wd' = wd \/ WdNew)
  <2> HIDE DEF AmFine, NmFine, WdFine
  <2>1. CASE AmDrop
    <3>1. AmNew
      BY <2>1, <1>2, AmDropEffect
    <3> QED
      BY <2>1, <3>1 DEF AmDrop
  <2>2. CASE AmDisabledInitReq
    <3>1. AmNew
      BY <2>2, <1>2, <1>3, <1>4, AmDisabledInitReqEffect DEF Finds
    <3> QED
      BY <2>2, <3>1 DEF AmDisabledInitReq
  <2>3. CASE AmInitInitReq
    <3>1. AmNew /\ NmNew
      BY <2>3, <1>1, <1>2, <1>3, <1>4, AmInitInitReqEffect DEF Finds
    <3> QED
      BY <2>3, <3>1 DEF AmInitInitReq
  <2>4. CASE AmModuleAnswer
    <3>1. am.queue # <<>> /\ Head(am.queue) \in Messages
      BY <2>4, <1>1, ReceiveShape DEF AmModuleAnswer, Takes, AmFine
    <3>2. CASE Head(am.queue).src = "NM"
      <4>1. Head(am.queue).ok \in BOOLEAN
        BY <3>1 DEF Messages
      <4>2. AmNew
        BY <2>4, <3>1, <3>2, <4>1, <1>2, <1>3, <1>4, AmModuleAnswerEffect
      <4> QED
        BY <2>4, <4>2 DEF AmModuleAnswer
    <3>3. CASE Head(am.queue).src # "NM"
      <4>1. AmCounted(Head(am.queue)) = Received(am)
        BY <3>3 DEF AmCounted
      <4>2. /\ Received(am) \in AmRecords /\ Received(am).queue = Tail(am.queue)
        BY <1>1, <3>1, ReceivedFields
      <4> DEFINE m == Msg("APP_MANAGER_INIT_RES", "AM", Received(am).initResult)
      <4>3. m \in Messages
        BY <4>2, <1>4 DEF AmRecords
      <4>4. am' = Received(am) \/ am' = Posted(Received(am), AmLength, m)
        BY <2>4, <4>1 DEF AmModuleAnswer
      <4> HIDE DEF m
      <4>5. AmNew
        <5>1. CASE am' = Received(am)
          BY <4>2, <1>2, <3>1, <5>1 DEF AmBecomes
        <5>2. CASE am' = Posted(Received(am), AmLength, m)
          <6>1. am' \in AmRecords /\ am'.queue = Send(Tail(am.queue), AmLength, m)
            BY <1>1, <4>2, <4>3, <5>2, PostedFields
          <6> QED
            BY <6>1, <1>2, <1>3, <3>1, <4>3 DEF AmBecomes
        <5> QED
          BY <4>4, <5>1, <5>2
      <4> QED
        BY <2>4, <4>5 DEF AmModuleAnswer
    <3> QED
      BY <3>2, <3>3
  <2>5. CASE AmInitResult
    <3>1. AmNew
      BY <2>5, <1>2, AmInitResultEffect DEF Finds
    <3> QED
      BY <2>5, <3>1 DEF AmInitResult
  <2>6. CASE AmTimeout
    <3>1. AmNew
      BY <2>6, <1>1, <1>3, <1>4, AmTimeoutEffect
    <3> QED
      BY <2>6, <3>1 DEF AmTimeout
  <2>7. CASE NmDrop
    <3>1. NmNew
      BY <2>7, <1>2, NmDropEffect
    <3> QED
      BY <2>7, <3>1 DEF NmDrop
  <2>8. CASE NmDisabledInitReq
    <3>1. NmNew
      BY <2>8, <1>2, <1>3, <1>4, NmDisabledInitReqEffect DEF Finds
    <3> QED
      BY <2>8, <3>1 DEF NmDisabledInitReq
  <2>9. CASE NmInitInitReq
    <3>1. NmNew /\ WdNew
      BY <2>9, <1>1, <1>2, <1>3, <1>4, NmInitInitReqEffect DEF Finds
    <3> QED
      BY <2>9, <3>1 DEF NmInitInitReq
  <2>10. CASE NmModuleAnswer
    <3>1. NmNew
      BY <2>10, <1>2, <1>3, <1>4, NmModuleAnswerEffect DEF Finds
    <3> QED
      BY <2>10, <3>1 DEF NmModuleAnswer
  <2>11. CASE NmTimeoutInit
    <3>1. NmNew
      BY <2>11, <1>2, <1>3, <1>4, NmTimeoutInitEffect DEF Finds
    <3> QED
      BY <2>11, <3>1 DEF NmTimeoutInit
  <2>12. CASE NmInitResult
    <3>1. AmNew /\ NmNew /\ WdNew
      BY <2>12, <1>1, <1>2, <1>3, <1>4, NmInitResultEffect DEF Finds
    <3> QED
      BY <3>1
  <2>13. CASE NmTimeout
    <3>1. NmNew
      BY <2>13, <1>1, <1>3, <1>4, NmTimeoutEffect
    <3> QED
      BY <2>13, <3>1 DEF NmTimeout
  <2>14. CASE NmWifiConnectStatus
    <3>1. NmNew
      BY <2>14, <1>2, NmWifiConnectStatusEffect DEF Finds
    <3> QED
      BY <2>14, <3>1 DEF NmWifiConnectStatus
  <2>15. CASE WdStart
    <3>1. WdNew
      BY <2>15, <1>2, WdStartEffect DEF Finds
    <3> QED
      BY <2>15, <3>1 DEF WdStart
  <2>16. CASE WdSetCallback
    <3>1. WdNew
      BY <2>16, <1>1, WdSetCallbackEffect
    <3> QED
      BY <2>16, <3>1 DEF WdSetCallback
  <2>17. CASE WdAnswer
    <3>1. WdNew /\ NmNew
      BY <2>17, <1>1, <1>3, <1>4, WdAnswerEffect
    <3> QED
      BY <2>17, <3>1 DEF WdAnswer
  <2>18. CASE WdDeinit
    <3>1. WdNew
      BY <2>18, <1>2, WdDeinitEffect DEF Finds
    <3> QED
      BY <2>18, <3>1 DEF WdDeinit
  <2>19. CASE TcpAnswer
    <3>1. NmNew
      BY <2>19, <1>1, <1>3, <1>4, TcpAnswerEffect
    <3> QED
      BY <2>19, <3>1 DEF TcpAnswer
  <2>20. CASE \E up \in BOOLEAN : WifiEvent(up)
    <3>1. PICK up \in BOOLEAN : WifiEvent(up)
      BY <2>20
    <3>2. nm' = nm \/ NmNew
      BY <3>1, <1>1, <1>3, <1>4, WifiEventEffect
    <3> QED
      BY <3>1, <3>2 DEF WifiEvent
  <2> QED
    BY <2>1, <2>2, <2>3, <2>4, <2>5, <2>6, <2>7, <2>8, <2>9, <2>10, <2>11, <2>12,
       <2>13, <2>14, <2>15, <2>16, <2>17, <2>18, <2>19, <2>20
    DEF Next, AmStep, NmStep, WdStep
<1>6. am' \in AmRecords /\ AmFine(am'.queue)
  BY <1>1, <1>5 DEF AmBecomes
<1>7. nm' \in NmRecords /\ NmFine(nm'.queue)
  BY <1>1, <1>5 DEF NmBecomes
<1>8. wd' \in WdRecords /\ WdFine(wd'.queue)
  BY <1>1, <1>5 DEF WdBecomes
<1> QED
  BY <1>6, <1>7, <1>8 DEF QueuesOK

LEMMA NextRest == TypeOK /\ [Next]_vars => RestOK'
<1> SUFFICES ASSUME TypeOK, [Next]_vars PROVE RestOK'
  OBVIOUS
<1>0. RestOK
  BY TypeParts
<1> USE DEF link, history
<1>1. /\ \/ tcpQueue' = tcpQueue
         \/ tcpQueue' = Append(tcpQueue, "INIT_REQ")
         \/ tcpQueue # <<>> /\ tcpQueue' = Tail(tcpQueue)
      /\ timers' \subseteq timers \cup {"AM", "NM"}
  <2>1. CASE NmInitResult
    BY <2>1 DEF NmInitResult, NmTimersAfterStart
  <2>2. CASE NmInitInitReq
    BY <2>2 DEF NmInitInitReq
  <2>3. CASE TcpAnswer
    BY <2>3 DEF TcpAnswer
  <2>4. CASE AmStep
    BY <2>4 DEF AmStep, AmDrop, AmDisabledInitReq, AmInitInitReq, AmModuleAnswer,
       AmInitResult
  <2>5. CASE WdStep
    BY <2>5 DEF WdStep, WdStart, WdSetCallback, WdAnswer, WdDeinit
  <2>6. CASE AmTimeout \/ NmTimeout
    BY <2>6 DEF AmTimeout, NmTimeout
  <2>7. CASE \E up \in BOOLEAN : WifiEvent(up)
    BY <2>7 DEF WifiEvent
  <2>8. CASE NmDrop \/ NmDisabledInitReq \/ NmModuleAnswer \/ NmTimeoutInit
             \/ NmWifiConnectStatus
    BY <2>8 DEF NmDrop, NmDisabledInitReq, NmModuleAnswer, NmTimeoutInit,
       NmWifiConnectStatus
  <2> QED
    BY <2>1, <2>2, <2>3, <2>4, <2>5, <2>6, <2>7, <2>8 DEF Next, NmStep, vars
<1>2. /\ callbacks' = callbacks \/ callbacks' = callbacks \cup {wd.at = "started"}
      /\ \/ wifiEvents' = wifiEvents
         \/ wifiEvents < MaxWifiEvents /\ wifiEvents' = wifiEvents + 1
      /\ answers' = answers \/ answers' = answers + 1
  <2>1. CASE WdStep
    BY <2>1 DEF WdStep, WdStart, WdSetCallback, WdAnswer, WdDeinit
  <2>2. CASE NmStep
    BY <2>2 DEF NmStep, NmDrop, NmDisabledInitReq, NmInitInitReq, NmModuleAnswer,
       NmTimeoutInit, NmInitResult, NmWifiConnectStatus
  <2>3. CASE AmStep
    BY <2>3 DEF AmStep, AmDrop, AmDisabledInitReq, AmInitInitReq, AmModuleAnswer,
       AmInitResult
  <2>4. CASE TcpAnswer \/ AmTimeout \/ NmTimeout
    BY <2>4 DEF TcpAnswer, AmTimeout, NmTimeout
  <2>5. CASE \E up \in BOOLEAN : WifiEvent(up)
    BY <2>5 DEF WifiEvent
  <2> QED
    BY <2>1, <2>2, <2>3, <2>4, <2>5 DEF Next, vars
<1>3. {wifi', missed', timedOut'} \subseteq BOOLEAN
  <2>1. /\ wifi' = wifi \/ wifi' \in BOOLEAN
        /\ missed' = missed \/ missed' \in BOOLEAN
        /\ timedOut' = timedOut \/ timedOut' = TRUE
    <3>1. CASE WdStep
      BY <3>1 DEF WdStep, WdStart, WdSetCallback, WdAnswer, WdDeinit
    <3>2. CASE NmStep
      <4>1. CASE NmDrop
        BY <4>1 DEF NmDrop
      <4> QED
        BY <3>2, <4>1 DEF NmStep, NmDisabledInitReq, NmInitInitReq,
           NmModuleAnswer, NmTimeoutInit, NmInitResult, NmWifiConnectStatus
    <3>3. CASE AmStep
      BY <3>3 DEF AmStep, AmDrop, AmDisabledInitReq, AmInitInitReq, AmModuleAnswer,
         AmInitResult
    <3>4. CASE TcpAnswer \/ AmTimeout \/ NmTimeout
      BY <3>4 DEF TcpAnswer, AmTimeout, NmTimeout
    <3>5. CASE \E up \in BOOLEAN : WifiEvent(up)
      <4>1. PICK up \in BOOLEAN : WifiEvent(up)
        BY <3>5
      <4>2. wifi' = up /\ timedOut' = timedOut /\ (missed' = missed \/ missed' = TRUE)
        BY <4>1 DEF WifiEvent
      <4> QED
        BY <4>2
    <3> QED
      BY <3>1, <3>2, <3>3, <3>4, <3>5 DEF Next, vars
  <2> QED
    BY <1>0, <2>1 DEF RestOK
<1>4. told' \in BOOLEAN
  <2>1. CASE NmWifiConnectStatus
    BY <2>1, NmWifiConnectStatusEffect
  <2>2. CASE ~NmWifiConnectStatus
    <3>1. told' = told
      BY <2>2 DEF Next, AmStep, NmStep, WdStep, vars, AmDrop, AmDisabledInitReq,
         AmInitInitReq, AmModuleAnswer, AmInitResult, AmTimeout, NmDrop,
         NmDisabledInitReq, NmInitInitReq, NmModuleAnswer, NmTimeoutInit,
         NmInitResult, NmTimeout, WdStart, WdSetCallback, WdAnswer, WdDeinit,
         TcpAnswer, WifiEvent
    <3> QED
      BY <1>0, <3>1 DEF RestOK
  <2> QED
    BY <2>1, <2>2
<1>5. halted' \in BOOLEAN
  <2>0. \A q, length : Full(q, length) \in BOOLEAN
    BY DEF Full
  <2>1. CASE AmModuleAnswer
    BY <2>0, <2>1, <1>0 DEF AmModuleAnswer, Overflows, RestOK
  <2>2. CASE NmModuleAnswer
    BY <2>0, <2>2, <1>0, NmModuleAnswerEffect DEF RestOK
  <2>3. CASE NmInitResult
    BY <2>0, <2>3 DEF NmInitResult, Overflows
  <2>4. CASE \E up \in BOOLEAN : WifiEvent(up)
    BY <2>0, <2>4, <1>0, WifiEventEffect DEF RestOK
  <2>5. CASE WdStep
    BY <2>0, <2>5, <1>0 DEF WdStep, WdStart, WdSetCallback, WdAnswer, WdDeinit,
       Overflows, RestOK
  <2>6. CASE AmDrop \/ AmDisabledInitReq \/ AmInitInitReq \/ AmInitResult
    BY <2>0, <2>6, <1>0 DEF AmDrop, AmDisabledInitReq, AmInitInitReq, AmInitResult,
       Overflows, RestOK
  <2>7. CASE NmDrop \/ NmDisabledInitReq \/ NmInitInitReq \/ NmTimeoutInit
             \/ NmWifiConnectStatus
    BY <2>0, <2>7, <1>0 DEF NmDrop, NmDisabledInitReq, NmInitInitReq, NmTimeoutInit,
       NmWifiConnectStatus, Overflows, RestOK
  <2>8. CASE TcpAnswer \/ AmTimeout \/ NmTimeout
    BY <2>0, <2>8 DEF TcpAnswer, AmTimeout, NmTimeout, Overflows
  <2> QED
    BY <1>0, <2>1, <2>2, <2>3, <2>4, <2>5, <2>6, <2>7, <2>8
    DEF Next, AmStep, NmStep, vars, RestOK
<1> QED
  <2> USE <1>0 DEF RestOK
  <2>1. tcpQueue' \in Seq({"INIT_REQ"})
    BY <1>1
  <2>2. timers' \subseteq {"AM", "NM"}
    BY <1>1
  <2>3. callbacks' \subseteq BOOLEAN /\ wifiEvents' \in 0..MaxWifiEvents /\ answers' \in Nat
    <3>1. callbacks' \subseteq BOOLEAN
      <4>1. (wd.at = "started") \in BOOLEAN
        OBVIOUS
      <4>2. callbacks \subseteq BOOLEAN
        OBVIOUS
      <4> QED
        BY ONLY <1>2, <4>1, <4>2
    <3>2. wifiEvents' \in 0..MaxWifiEvents /\ answers' \in Nat
      BY <1>2, WifiEventsAssumption
    <3> QED
      BY <3>1, <3>2
  <2>4. {wifi', told', missed', timedOut', halted'} \subseteq BOOLEAN
    BY ONLY <1>3, <1>4, <1>5
  <2> QED
    BY ONLY <2>1, <2>2, <2>3, <2>4 DEF RestOK

-----------------------------------------------------------------------------
(* The stages of the start.                                                *)

\* What each state finds in its table.
LEMMA TableContents ==
  /\ AmHandlers["DISABLED"] = {"APP_MANAGER_INIT_REQ"}
  /\ AmHandlers["INIT"] = {"APP_MANAGER_INIT_REQ", "APP_MANAGER_INIT_RES", "INIT_RES"}
  /\ AmHandlers["IDLE"] = {"INIT_REQ", "APP_MANAGER_TEMP_SENSORS_SCAN_RES"}
  /\ NmHandlers["DISABLED"] = {"INIT_REQ"}
  /\ NmHandlers["INIT"] = {"INIT_REQ", "NETWORK_MANAGER_INIT_RES",
                           "NETWORK_MANAGER_TIMEOUT_INIT", "INIT_RES"}
  /\ NmHandlers["IDLE"] = {"INIT_REQ", "NETWORK_MANAGER_WIFI_CONNECT_STATUS"}
  /\ WdHandlers["DISABLED"] = {"INIT_REQ"}
  /\ WdHandlers["IDLE"] = {"WIFI_UPDATE_WIFI_INFO", "DEINIT_REQ"}
  BY DEF AmHandlers, NmHandlers, NmIdleEvents, WdHandlers, WdIdleEvents

LEMMA InitStart == Init => Requested
<1> SUFFICES ASSUME Init PROVE Requested
  OBVIOUS
<1>1. am.queue = <<Msg("APP_MANAGER_INIT_REQ", "AM", TRUE)>>
  BY DEF Init
<1>2. ASSUME NEW m PROVE Len(<<m>>) = 1 /\ <<m>>[1] = m
  OBVIOUS
<1>3. Len(am.queue) = 1 /\ am.queue[1].id = "APP_MANAGER_INIT_REQ"
  <2> DEFINE m == Msg("APP_MANAGER_INIT_REQ", "AM", TRUE)
  <2>1. m.id = "APP_MANAGER_INIT_REQ"
    BY MessageTypes
  <2>2. am.queue = <<m>>
    BY <1>1
  <2> HIDE DEF m
  <2> QED
    BY <1>2, <2>1, <2>2
<1>4. NothingStarted
  BY DEF Init, NothingStarted
<1> QED
  BY <1>3, <1>4 DEF Init, Requested

\* While only the application manager has the request, nobody else moves.
LEMMA RequestedStep == TypeOK /\ Requested /\ Next => Requested' \/ Forwarded'
<1> SUFFICES ASSUME TypeOK, Requested, Next PROVE Requested' \/ Forwarded'
  OBVIOUS
<1>1. /\ am.queue \in Seq(Messages) /\ Len(am.queue) <= AmLength /\ AmLength \in Nat
      /\ am.queue # <<>> /\ Head(am.queue).id = "APP_MANAGER_INIT_REQ"
      /\ Len(am.queue) = 1
  BY InRecords DEF Requested, AmRecords
<1>2. NmLength \in Nat /\ WdLength \in Nat /\ NmLength >= 1
  BY InRecords, LengthsAssumption
<1> USE DEF link, history
<1>3. CASE AmDisabledInitReq
  <2> DEFINE m == Msg("APP_MANAGER_INIT_REQ", "AM", TRUE)
  <2>1. /\ AmBecomes(Send(Tail(am.queue), AmLength, m), "INIT", am.modulesInit,
                     am.initResult)
    BY <1>3, AmDisabledInitReqEffect
  <2>2. m \in Messages /\ m.id = "APP_MANAGER_INIT_REQ"
    BY MessageTypes DEF Ids, Tasks
  <2> HIDE DEF m
  <2>3. /\ Len(Send(Tail(am.queue), AmLength, m)) = 1
        /\ Send(Tail(am.queue), AmLength, m) \in Seq(Messages)
        /\ \A i \in DOMAIN Send(Tail(am.queue), AmLength, m) :
             \/ i \in Nat /\ i >= 1 /\ i + 1 \in DOMAIN am.queue
             \/ Send(Tail(am.queue), AmLength, m)[i] = m
    BY <1>1, <2>2, ReplaceShape
  <2>4. Send(Tail(am.queue), AmLength, m)[1] = m
    BY <1>1, <2>3
  <2>5. UNCHANGED <<nm, wd, tcpQueue, timers, callbacks, wifiEvents, answers, timedOut>>
    BY <1>3 DEF AmDisabledInitReq
  <2>6. NothingStarted'
    BY <2>1, <2>5 DEF Requested, NothingStarted, AmBecomes
  <2> QED
    BY <2>1, <2>2, <2>3, <2>4, <2>5, <2>6 DEF Requested, AmBecomes
<1>4. CASE AmInitInitReq
  <2> DEFINE m == Msg("INIT_REQ", "AM", TRUE)
  <2>1. /\ am.state = "INIT"
        /\ AmBecomes(Tail(am.queue), am.state, 0, am.initResult)
        /\ NmBecomes(Send(nm.queue, NmLength, m), nm.state, nm.modulesInit,
                     nm.wifiInitStatus)
    BY <1>4, AmInitInitReqEffect
  <2>2. m \in Messages /\ m.id = "INIT_REQ"
    BY MessageTypes DEF Ids, Tasks
  <2> HIDE DEF m
  <2>3. Len(Tail(am.queue)) = 0 /\ Tail(am.queue) = <<>>
    BY <1>1, ReceiveShape
  <2>4. nm.queue = <<>> /\ nm.state = "DISABLED" /\ timers = {}
    BY DEF Requested
  <2>5. Send(nm.queue, NmLength, m) = Append(<<>>, m)
    BY <1>2, <2>4 DEF Send, Full
  <2>6. Len(Append(<<>>, m)) = 1 /\ Append(<<>>, m)[1] = m
    OBVIOUS
  <2>7. /\ UNCHANGED <<wd, tcpQueue, callbacks, wifiEvents, answers, timedOut>>
        /\ timers' = timers \cup {"AM"}
    BY <1>4 DEF AmInitInitReq
  <2>8. NothingStarted'
    BY <2>1, <2>4, <2>7 DEF Requested, NothingStarted, AmBecomes, NmBecomes
  <2>9. Forwarded'
    <3>1. am'.queue = <<>> /\ am'.state = "INIT" /\ DOMAIN am'.queue = {}
      BY <2>1, <2>3 DEF AmBecomes
    <3>2. Len(nm'.queue) = 1 /\ nm'.queue[1].id = "INIT_REQ" /\ nm'.state = "DISABLED"
      BY <2>1, <2>2, <2>4, <2>5, <2>6 DEF NmBecomes
    <3> QED
      BY <2>8, <3>1, <3>2 DEF Forwarded
  <2> QED
    BY <2>9
<1>5. ~AmDrop
  BY <1>1, AmDropEffect, TableContents DEF Requested
<1>6. ~AmModuleAnswer /\ ~AmInitResult
  BY <1>1 DEF AmModuleAnswer, AmInitResult, Takes
<1>7. ~AmTimeout /\ ~NmTimeout /\ ~TcpAnswer
  BY DEF AmTimeout, NmTimeout, TcpAnswer, Requested, NothingStarted
<1>8. ~NmStep
  BY DEF NmStep, NmDrop, NmDisabledInitReq, NmInitInitReq, NmModuleAnswer,
     NmTimeoutInit, NmInitResult, NmWifiConnectStatus, Takes, Drops, Requested
<1>9. ~WdStep
  BY DEF WdStep, WdStart, WdSetCallback, WdAnswer, WdDeinit, Takes, Requested,
     NothingStarted
<1>10. ~\E up \in BOOLEAN : WifiEvent(up)
  BY DEF WifiEvent, Requested, NothingStarted
<1> QED
  BY <1>3, <1>4, <1>5, <1>6, <1>7, <1>8, <1>9, <1>10 DEF Next, AmStep

\* The network manager asks the Wi-Fi driver and the TCP server.
LEMMA ForwardedStep == TypeOK /\ Forwarded /\ Next => Forwarded' \/ Started'
<1> SUFFICES ASSUME TypeOK, Forwarded, Next PROVE Forwarded' \/ Started'
  OBVIOUS
<1>1. /\ nm.queue \in Seq(Messages) /\ Len(nm.queue) <= NmLength /\ NmLength \in Nat
      /\ nm.queue # <<>> /\ Head(nm.queue).id = "INIT_REQ"
      /\ Len(nm.queue) = 1
  BY InRecords DEF Forwarded, NmRecords
<1>2. /\ am.queue \in Seq(Messages) /\ Len(am.queue) <= 1
      /\ am.queue # <<>> => Head(am.queue).id = "APP_MANAGER_TIMEOUT_INIT"
      /\ am.queue # <<>> => Tail(am.queue) = <<>>
      /\ AmLength \in Nat /\ AmLength >= 1 /\ WdLength \in Nat /\ WdLength >= 1
  BY InRecords, LengthsAssumption DEF Forwarded, AmRecords
<1> USE DEF link, history
<1>3. CASE AmDrop
  <2>1. am.queue # <<>> /\ AmBecomes(Tail(am.queue), am.state, am.modulesInit, am.initResult)
    BY <1>3, AmDropEffect
  <2>2. UNCHANGED <<nm, wd, tcpQueue, timers, callbacks, wifiEvents, answers, timedOut>>
    BY <1>3 DEF AmDrop
  <2>3. NothingStarted'
    BY <2>1, <2>2 DEF Forwarded, NothingStarted, AmBecomes
  <2>4. am'.queue = <<>> /\ am'.state = "INIT"
    BY <1>2, <2>1 DEF AmBecomes, Forwarded
  <2>5. Len(am'.queue) = 0 /\ DOMAIN am'.queue = {}
    BY <2>4
  <2> QED
    BY <2>2, <2>3, <2>4, <2>5 DEF Forwarded
<1>4. CASE AmTimeout
  <2> DEFINE m == Msg("APP_MANAGER_TIMEOUT_INIT", "AM", TRUE)
  <2>1. AmBecomes(Send(am.queue, AmLength, m), am.state, am.modulesInit, am.initResult)
    BY <1>4, AmTimeoutEffect
  <2>2. m.id = "APP_MANAGER_TIMEOUT_INIT"
    BY MessageTypes
  <2> HIDE DEF m
  <2>3. am.queue = <<>>
    BY <1>4 DEF AmTimeout, Forwarded
  <2>4. Send(am.queue, AmLength, m) = Append(<<>>, m)
    BY <1>2, <2>3 DEF Send, Full
  <2>5. Len(Append(<<>>, m)) = 1 /\ \A i \in DOMAIN Append(<<>>, m) : Append(<<>>, m)[i] = m
    OBVIOUS
  <2>6. /\ UNCHANGED <<nm, wd, tcpQueue, callbacks, wifiEvents, answers, timedOut>>
        /\ timers' = timers \ {"AM"}
    BY <1>4 DEF AmTimeout
  <2>7. NothingStarted'
    BY <2>1, <2>6 DEF Forwarded, NothingStarted, AmBecomes
  <2>8. /\ Len(am'.queue) <= 1 /\ am'.state = "INIT"
        /\ \A i \in DOMAIN am'.queue : am'.queue[i].id = "APP_MANAGER_TIMEOUT_INIT"
    BY <2>1, <2>2, <2>4, <2>5 DEF AmBecomes, Forwarded
  <2> QED
    BY <2>6, <2>7, <2>8 DEF Forwarded
<1>5. CASE NmDisabledInitReq
  <2> DEFINE m == Msg("INIT_REQ", "NM", TRUE)
  <2>1. NmBecomes(Send(Tail(nm.queue), NmLength, m), "INIT", nm.modulesInit,
                  nm.wifiInitStatus)
    BY <1>5, NmDisabledInitReqEffect
  <2>2. m \in Messages /\ m.id = "INIT_REQ"
    BY MessageTypes DEF Ids, Tasks
  <2> HIDE DEF m
  <2>3. /\ Len(Send(Tail(nm.queue), NmLength, m)) = 1
        /\ Send(Tail(nm.queue), NmLength, m) \in Seq(Messages)
        /\ \A i \in DOMAIN Send(Tail(nm.queue), NmLength, m) :
             \/ i \in Nat /\ i >= 1 /\ i + 1 \in DOMAIN nm.queue
             \/ Send(Tail(nm.queue), NmLength, m)[i] = m
    BY <1>1, <2>2, ReplaceShape
  <2>4. Send(Tail(nm.queue), NmLength, m)[1] = m
    BY <1>1, <2>3
  <2>5. UNCHANGED <<am, wd, tcpQueue, timers, callbacks, wifiEvents, answers, timedOut>>
    BY <1>5 DEF NmDisabledInitReq
  <2>6. NothingStarted'
    BY <2>1, <2>5 DEF Forwarded, NothingStarted, NmBecomes
  <2> QED
    BY <2>1, <2>2, <2>3, <2>4, <2>5, <2>6 DEF Forwarded, NmBecomes
<1>6. CASE NmInitInitReq
  <2> DEFINE m == Msg("INIT_REQ", "NM", TRUE)
  <2>1. /\ nm.state = "INIT"
        /\ NmBecomes(Tail(nm.queue), nm.state, 0, nm.wifiInitStatus)
        /\ WdBecomes(Send(wd.queue, WdLength, m), wd.state, wd.at)
    BY <1>6, NmInitInitReqEffect
  <2>2. m.id = "INIT_REQ"
    BY MessageTypes
  <2> HIDE DEF m
  <2>3. Tail(nm.queue) = <<>>
    BY <1>1, ReceiveShape
  <2>4. /\ wd.queue = <<>> /\ wd.state = "DISABLED" /\ wd.at = "receive"
        /\ tcpQueue = <<>> /\ callbacks = {} /\ answers = 0
        /\ ~nm.wifiInitStatus /\ ~timedOut /\ am.modulesInit = 0 /\ am.state = "INIT"
    BY DEF Forwarded, NothingStarted
  <2>5. Send(wd.queue, WdLength, m) = Append(<<>>, m)
    BY <1>2, <2>4 DEF Send, Full
  <2>6. Len(Append(<<>>, m)) = 1
        /\ \A i \in DOMAIN Append(<<>>, m) : i = 1 /\ Append(<<>>, m)[i] = m
        /\ 1 \in DOMAIN Append(<<>>, m)
    OBVIOUS
  <2>7. /\ UNCHANGED <<am, callbacks, wifiEvents, answers, timedOut>>
        /\ tcpQueue' = Append(tcpQueue, "INIT_REQ")
        /\ timers' = timers \cup {"NM"}
    BY <1>6 DEF NmInitInitReq
  <2>8. /\ nm'.queue = <<>> /\ DOMAIN nm'.queue = {} /\ nm'.state = "INIT"
        /\ nm'.modulesInit = 0 /\ ~nm'.wifiInitStatus
    BY <2>1, <2>3, <2>4 DEF NmBecomes
  <2>9. /\ Len(wd'.queue) = 1 /\ wd'.state = "DISABLED" /\ wd'.at = "receive"
        /\ \A i \in DOMAIN wd'.queue : i = 1 /\ wd'.queue[i].id = "INIT_REQ"
        /\ 1 \in DOMAIN wd'.queue
    BY <2>1, <2>2, <2>4, <2>5, <2>6 DEF WdBecomes
  <2>10. AmWaits'
    <3>1. \A i, j \in DOMAIN am.queue : i = j
      BY <1>2
    <3>2. \A i \in DOMAIN am.queue : am.queue[i].id = "APP_MANAGER_TIMEOUT_INIT"
          /\ "AM" \notin timers
      BY <1>2 DEF Forwarded
    <3>3. am' = am /\ ("AM" \in timers' <=> "AM" \in timers)
      BY <2>7
    <3> QED
      BY <2>4, <2>7, <3>1, <3>2, <3>3 DEF AmWaits
  <2>11. NmCounts'
    <3>1. Len(tcpQueue') = 1
      BY <2>4, <2>7
    <3>2. answers' = 0
      BY <2>4, <2>7
    <3> QED
      BY <2>8, <3>1, <3>2 DEF NmCounts, TcpCounted
  <2>12. NoTimeoutYet'
    BY <2>4, <2>7, <2>8 DEF NoTimeoutYet
  <2>13. WdWorks'
    <3>1. ~WdAnswered'
      BY <2>9 DEF WdAnswered
    <3>2. callbacks' = {}
      BY <2>4, <2>7
    <3> QED
      BY <2>9, <3>1, <3>2 DEF WdWorks
  <2> QED
    BY <2>10, <2>11, <2>12, <2>13 DEF Started
<1>7. ~AmDisabledInitReq /\ ~AmInitInitReq /\ ~AmModuleAnswer /\ ~AmInitResult
  BY <1>2 DEF AmDisabledInitReq, AmInitInitReq, AmModuleAnswer, AmInitResult, Takes
<1>8. ~NmDrop
  BY <1>1, NmDropEffect, TableContents DEF Forwarded
<1>9. ~NmModuleAnswer /\ ~NmTimeoutInit /\ ~NmInitResult /\ ~NmWifiConnectStatus
  BY <1>1 DEF NmModuleAnswer, NmTimeoutInit, NmInitResult, NmWifiConnectStatus, Takes
<1>10. ~NmTimeout /\ ~TcpAnswer
  BY DEF NmTimeout, TcpAnswer, Forwarded, NothingStarted
<1>11. ~WdStep
  BY DEF WdStep, WdStart, WdSetCallback, WdAnswer, WdDeinit, Takes, Forwarded,
     NothingStarted
<1>12. ~\E up \in BOOLEAN : WifiEvent(up)
  BY DEF WifiEvent, Forwarded, NothingStarted
<1> QED
  BY <1>3, <1>4, <1>5, <1>6, <1>7, <1>8, <1>9, <1>10, <1>11, <1>12
  DEF Next, AmStep, NmStep

-----------------------------------------------------------------------------
(* The third stage, action by action.                                      *)

\* The queue p is q without its head, q with m behind it, or both.
Shifted(p, q) ==
  \A i \in DOMAIN p : i \in Nat /\ i >= 1 /\ i + 1 \in DOMAIN q /\ p[i] = q[i + 1]
Extended(p, q, m) ==
  \A i \in DOMAIN p : \/ i \in DOMAIN q /\ p[i] = q[i]
                      \/ i = Len(q) + 1 /\ p[i] = m
Replaced(p, q, m) ==
  \A i \in DOMAIN p :
    \/ i \in Nat /\ i >= 1 /\ i + 1 \in DOMAIN q /\ p[i] = q[i + 1]
    \/ i = Len(q) /\ p[i] = m

LEMMA QueueShapes ==
  ASSUME TypeOK
  PROVE  /\ \A q \in {am.queue, nm.queue, wd.queue} :
              /\ q \in Seq(Messages) /\ Len(q) \in Nat
              /\ \A i \in DOMAIN q : i \in Nat /\ i >= 1 /\ i <= Len(q)
              /\ q # <<>> => /\ Shifted(Tail(q), q) /\ Head(q) = q[1]
                             /\ 1 \in DOMAIN q /\ Len(Tail(q)) = Len(q) - 1
              /\ \A m \in Messages :
                   \A length \in {AmLength, NmLength, WdLength} :
                     /\ Extended(Send(q, length, m), q, m)
                     /\ q # <<>> => Replaced(Send(Tail(q), length, m), q, m)
<1> SUFFICES ASSUME NEW q \in {am.queue, nm.queue, wd.queue}
             PROVE  /\ q \in Seq(Messages) /\ Len(q) \in Nat
                    /\ \A i \in DOMAIN q : i \in Nat /\ i >= 1 /\ i <= Len(q)
                    /\ q # <<>> => /\ Shifted(Tail(q), q) /\ Head(q) = q[1]
                                   /\ 1 \in DOMAIN q /\ Len(Tail(q)) = Len(q) - 1
                    /\ \A m \in Messages :
                         \A length \in {AmLength, NmLength, WdLength} :
                           /\ Extended(Send(q, length, m), q, m)
                           /\ q # <<>> => Replaced(Send(Tail(q), length, m), q, m)
  OBVIOUS
<1>1. q \in Seq(Messages)
  BY InRecords DEF AmRecords, NmRecords, WdRecords
<1>2. q # <<>> => /\ Shifted(Tail(q), q) /\ Head(q) = q[1]
                  /\ 1 \in DOMAIN q /\ Len(Tail(q)) = Len(q) - 1
  BY <1>1, ReceiveShape DEF Shifted
<1>3. ASSUME NEW m \in Messages, NEW length \in {AmLength, NmLength, WdLength}
      PROVE  /\ Extended(Send(q, length, m), q, m)
             /\ q # <<>> => Replaced(Send(Tail(q), length, m), q, m)
  <2>1. length \in Nat
    BY InRecords
  <2>2. Extended(Send(q, length, m), q, m)
    BY <1>1, <2>1, SendShape DEF Extended
  <2>3. q # <<>> => Replaced(Send(Tail(q), length, m), q, m)
    BY <1>1, <2>1, ReplaceShape DEF Replaced
  <2> QED
    BY <2>2, <2>3
<1>4. \A i \in DOMAIN q : i \in Nat /\ i >= 1 /\ i <= Len(q)
  BY <1>1
<1> QED
  BY <1>1, <1>2, <1>3, <1>4

\* What leaves a part of the invariant alone.
LEMMA AmKept ==
  ASSUME AmWaits, UNCHANGED <<am, answers>>, "AM" \in timers' => "AM" \in timers,
         nm'.wifiInitStatus = nm.wifiInitStatus
  PROVE  AmWaits'
  BY DEF AmWaits

LEMMA NmKept ==
  ASSUME NmCounts, UNCHANGED <<nm, tcpQueue, answers>>, WdAnswered' = WdAnswered
  PROVE  NmCounts'
  BY DEF NmCounts, TcpCounted

LEMMA TimeoutKept ==
  ASSUME NoTimeoutYet, UNCHANGED <<nm, timedOut, answers>>
  PROVE  NoTimeoutYet'
  BY DEF NoTimeoutYet

LEMMA WdKept ==
  ASSUME WdWorks, UNCHANGED <<wd, callbacks, answers>>,
         nm'.wifiInitStatus = nm.wifiInitStatus
  PROVE  WdWorks'
  BY DEF WdWorks, WdAnswered, StartFailed

LEMMA StartedAmDrop == TypeOK /\ Started /\ AmDrop => Started'
<1> SUFFICES ASSUME TypeOK, Started, AmDrop PROVE Started'
  OBVIOUS
<1>1. /\ am.queue # <<>> /\ am'.queue = Tail(am.queue) /\ am'.state = am.state
      /\ am'.modulesInit = am.modulesInit /\ Shifted(am'.queue, am.queue)
  BY AmDropEffect, QueueShapes DEF AmBecomes
<1>2. UNCHANGED <<nm, wd, tcpQueue, timers, callbacks, answers, timedOut>>
  BY DEF AmDrop, link, history
<1>3. AmWaits'
  BY <1>1, <1>2 DEF Started, AmWaits, Shifted
<1>4. NmCounts' /\ NoTimeoutYet' /\ WdWorks'
  BY <1>2, NmKept, TimeoutKept, WdKept DEF Started, WdAnswered
<1> QED
  BY <1>3, <1>4 DEF Started

LEMMA StartedAmModuleAnswer == TypeOK /\ Started /\ AmModuleAnswer => Started'
<1> SUFFICES ASSUME TypeOK, Started, AmModuleAnswer PROVE Started'
  OBVIOUS
<1> DEFINE m == Msg("APP_MANAGER_INIT_RES", "AM", Head(am.queue).ok)
<1>1. /\ am.queue # <<>> /\ Head(am.queue).id = "INIT_RES"
      /\ Head(am.queue) = am.queue[1] /\ 1 \in DOMAIN am.queue
  BY QueueShapes DEF AmModuleAnswer, Takes
<1>2. /\ am.modulesInit = 0 /\ Head(am.queue).src = "NM"
      /\ Head(am.queue).ok = nm.wifiInitStatus
      /\ answers = 1 /\ am.state = "INIT"
      /\ \A i \in DOMAIN am.queue :
           am.queue[i].id # "APP_MANAGER_TIMEOUT_INIT" => i = 1
  BY <1>1 DEF Started, AmWaits
<1>3. Head(am.queue).ok \in BOOLEAN
  BY <1>2, InRecords DEF NmRecords
<1>4. m \in Messages /\ m.id = "APP_MANAGER_INIT_RES" /\ m.ok = nm.wifiInitStatus
  BY <1>2, <1>3, MessageTypes DEF Ids, Tasks
<1>5. AmBecomes(Send(Tail(am.queue), AmLength, m), am.state, am.modulesInit + 1,
                Head(am.queue).ok)
  BY <1>2, AmModuleAnswerEffect
<1> HIDE DEF m
<1>6. /\ Replaced(am'.queue, am.queue, m) /\ am'.state = "INIT" /\ am'.modulesInit = 1
  BY <1>1, <1>2, <1>4, <1>5, QueueShapes DEF AmBecomes
<1>7. UNCHANGED <<nm, wd, tcpQueue, timers, callbacks, answers, timedOut>>
  BY DEF AmModuleAnswer, link, history
<1>8. \A i \in DOMAIN am'.queue :
        \/ /\ i \in Nat /\ i + 1 \in DOMAIN am.queue /\ am'.queue[i] = am.queue[i + 1]
           /\ am'.queue[i].id = "APP_MANAGER_TIMEOUT_INIT"
        \/ i = Len(am.queue) /\ am'.queue[i] = m
  <2>1. \A i \in DOMAIN am.queue : i >= 1 /\ i \in Nat
    BY QueueShapes
  <2> QED
    BY <1>2, <1>6, <2>1 DEF Replaced
<1>9. AmWaits'
  BY <1>2, <1>4, <1>6, <1>7, <1>8 DEF Started, AmWaits
<1>10. NmCounts' /\ NoTimeoutYet' /\ WdWorks'
  BY <1>7, NmKept, TimeoutKept, WdKept DEF Started, WdAnswered
<1> QED
  BY <1>9, <1>10 DEF Started

LEMMA StartedAmInitResult == TypeOK /\ Started /\ AmInitResult => Started'
<1> SUFFICES ASSUME TypeOK, Started, AmInitResult PROVE Started'
  OBVIOUS
<1>1. /\ am.queue # <<>> /\ Head(am.queue).id = "APP_MANAGER_INIT_RES"
      /\ Head(am.queue) = am.queue[1] /\ 1 \in DOMAIN am.queue
      /\ Shifted(Tail(am.queue), am.queue)
      /\ \A i \in DOMAIN am.queue : i >= 1 /\ i \in Nat
  BY QueueShapes DEF AmInitResult, Takes
<1>2. /\ Head(am.queue).ok = nm.wifiInitStatus /\ answers = 1
      /\ \A i \in DOMAIN am.queue :
           am.queue[i].id # "APP_MANAGER_TIMEOUT_INIT" => i = 1
  BY <1>1 DEF Started, AmWaits
<1>3. /\ am'.queue = Tail(am.queue) /\ am'.modulesInit = am.modulesInit
      /\ am'.state = IF Head(am.queue).ok THEN "IDLE" ELSE am.state
  BY AmInitResultEffect DEF AmBecomes
<1>4. /\ UNCHANGED <<nm, wd, tcpQueue, callbacks, answers, timedOut>>
      /\ timers' = timers \ {"AM"}
  BY DEF AmInitResult, link, history
<1>5. \A i \in DOMAIN am'.queue :
        /\ i \in Nat /\ i + 1 \in DOMAIN am.queue /\ am'.queue[i] = am.queue[i + 1]
        /\ am'.queue[i].id = "APP_MANAGER_TIMEOUT_INIT"
  BY <1>1, <1>2, <1>3 DEF Shifted
<1>6. AmWaits'
  BY <1>2, <1>3, <1>4, <1>5 DEF Started, AmWaits
<1>7. NmCounts' /\ NoTimeoutYet' /\ WdWorks'
  BY <1>4, NmKept, TimeoutKept, WdKept DEF Started, WdAnswered
<1> QED
  BY <1>6, <1>7 DEF Started

LEMMA StartedAmTimeout == TypeOK /\ Started /\ AmTimeout => Started'
<1> SUFFICES ASSUME TypeOK, Started, AmTimeout PROVE Started'
  OBVIOUS
<1> DEFINE m == Msg("APP_MANAGER_TIMEOUT_INIT", "AM", TRUE)
<1>1. m \in Messages /\ m.id = "APP_MANAGER_TIMEOUT_INIT"
  BY MessageTypes DEF Ids, Tasks
<1>2. AmBecomes(Send(am.queue, AmLength, m), am.state, am.modulesInit, am.initResult)
  BY AmTimeoutEffect
<1> HIDE DEF m
<1>3. /\ Extended(am'.queue, am.queue, m) /\ am'.state = am.state
      /\ am'.modulesInit = am.modulesInit
  BY <1>1, <1>2, QueueShapes DEF AmBecomes
<1>4. /\ UNCHANGED <<nm, wd, tcpQueue, callbacks, answers, timedOut>>
      /\ timers' = timers \ {"AM"} /\ "AM" \in timers
  BY DEF AmTimeout, link, history
<1>5. AmWaits'
  BY <1>1, <1>3, <1>4 DEF Started, AmWaits, Extended
<1>6. NmCounts' /\ NoTimeoutYet' /\ WdWorks'
  BY <1>4, NmKept, TimeoutKept, WdKept DEF Started, WdAnswered
<1> QED
  BY <1>5, <1>6 DEF Started

LEMMA StartedNmDrop == TypeOK /\ Started /\ NmDrop => Started'
<1> SUFFICES ASSUME TypeOK, Started, NmDrop PROVE Started'
  OBVIOUS
<1>1. /\ nm.queue # <<>> /\ nm'.queue = Tail(nm.queue) /\ nm'.state = nm.state
      /\ nm'.modulesInit = nm.modulesInit /\ nm'.wifiInitStatus = nm.wifiInitStatus
      /\ Shifted(nm'.queue, nm.queue)
  BY NmDropEffect, QueueShapes DEF NmBecomes
<1>2. UNCHANGED <<am, wd, tcpQueue, timers, callbacks, answers, timedOut>>
  BY DEF NmDrop, history
<1>3. NmCounts'
  BY <1>1, <1>2 DEF Started, NmCounts, Shifted, TcpCounted, WdAnswered
<1>4. NoTimeoutYet'
  BY <1>1, <1>2 DEF Started, NoTimeoutYet, Shifted
<1>5. AmWaits' /\ WdWorks'
  BY <1>1, <1>2, AmKept, WdKept DEF Started
<1> QED
  BY <1>3, <1>4, <1>5 DEF Started

LEMMA StartedNmWifi == TypeOK /\ Started /\ NmWifiConnectStatus => Started'
<1> SUFFICES ASSUME TypeOK, Started, NmWifiConnectStatus PROVE Started'
  OBVIOUS
<1>1. /\ nm.queue # <<>> /\ nm'.queue = Tail(nm.queue) /\ nm'.state = nm.state
      /\ nm'.modulesInit = nm.modulesInit /\ nm'.wifiInitStatus = nm.wifiInitStatus
      /\ Shifted(nm'.queue, nm.queue)
  BY NmWifiConnectStatusEffect, QueueShapes DEF NmBecomes, Finds
<1>2. UNCHANGED <<am, wd, tcpQueue, timers, callbacks, answers, timedOut>>
  BY DEF NmWifiConnectStatus, history
<1>3. NmCounts'
  BY <1>1, <1>2 DEF Started, NmCounts, Shifted, TcpCounted, WdAnswered
<1>4. NoTimeoutYet'
  BY <1>1, <1>2 DEF Started, NoTimeoutYet, Shifted
<1>5. AmWaits' /\ WdWorks'
  BY <1>1, <1>2, AmKept, WdKept DEF Started
<1> QED
  BY <1>3, <1>4, <1>5 DEF Started

\* Each of the two answers is counted once: it was the only one of its sender,
\* and its sender had not been counted.
LEMMA StartedNmModuleAnswer == TypeOK /\ Started /\ NmModuleAnswer => Started'
<1> SUFFICES ASSUME TypeOK, Started, NmModuleAnswer PROVE Started'
  OBVIOUS
<1> DEFINE m == Msg("NETWORK_MANAGER_INIT_RES", "NM", TRUE)
           h == Head(nm.queue)
           ok == IF h.src = "WD" THEN h.ok ELSE nm.wifiInitStatus
<1>1. /\ nm.queue # <<>> /\ h.id = "INIT_RES" /\ h = nm.queue[1] /\ 1 \in DOMAIN nm.queue
      /\ "INIT_RES" \in NmHandlers[nm.state] /\ Shifted(Tail(nm.queue), nm.queue)
      /\ \A i \in DOMAIN nm.queue : i \in Nat /\ i >= 1
  BY QueueShapes DEF NmModuleAnswer, Takes, HasHandler
<1>2. answers = 0 /\ nm.state = "INIT"
  BY <1>1, TableContents DEF Started, NmCounts
<1>3. m \in Messages /\ m.id = "NETWORK_MANAGER_INIT_RES"
  BY MessageTypes DEF Ids, Tasks
<1>4. /\ nm'.state = nm.state /\ nm'.modulesInit = nm.modulesInit + 1
      /\ nm'.wifiInitStatus = ok
      /\ IF nm.modulesInit + 1 = 2 THEN nm'.queue = Send(Tail(nm.queue), NmLength, m)
                                   ELSE nm'.queue = Tail(nm.queue)
  BY NmModuleAnswerEffect DEF NmBecomes
<1> HIDE DEF m
<1>5. IF nm.modulesInit + 1 = 2 THEN Replaced(nm'.queue, nm.queue, m)
                                ELSE Shifted(nm'.queue, nm.queue)
  BY <1>1, <1>3, <1>4, QueueShapes
<1>6. \A i \in DOMAIN nm'.queue :
        \/ i \in Nat /\ i >= 1 /\ i + 1 \in DOMAIN nm.queue /\ nm'.queue[i] = nm.queue[i + 1]
        \/ nm.modulesInit + 1 = 2 /\ nm'.queue[i] = m
  BY <1>5 DEF Replaced, Shifted
<1>7. UNCHANGED <<am, wd, tcpQueue, timers, callbacks, answers, timedOut>>
  BY DEF NmModuleAnswer, link, history
<1>8. \/ h.src = "WD" /\ h.ok /\ WdAnswered /\ ~nm.wifiInitStatus
      \/ h.src = "TCP" /\ tcpQueue = <<>> /\ ~TcpCounted
  BY <1>1 DEF Started, NmCounts
<1>9. \A i \in DOMAIN nm.queue : nm.queue[i].id = "INIT_RES" /\ nm.queue[i].src = h.src => i = 1
  BY <1>1 DEF Started, NmCounts
<1>10. nm.modulesInit \in {0, 1, 2} /\ nm.wifiInitStatus \in BOOLEAN
  BY InRecords DEF NmRecords
<1>11. \/ /\ h.src = "WD" /\ nm'.wifiInitStatus /\ WdAnswered'
          /\ nm'.modulesInit \in {1, 2} /\ TcpCounted' = TcpCounted
       \/ /\ h.src = "TCP" /\ nm'.wifiInitStatus = nm.wifiInitStatus
          /\ (nm.wifiInitStatus => nm'.modulesInit = 2)
          /\ (~nm.wifiInitStatus => nm'.modulesInit = 1)
          /\ tcpQueue = <<>>
  <2>1. WdAnswered' = WdAnswered
    BY <1>7 DEF WdAnswered
  <2>2. CASE h.src = "WD"
    BY <1>4, <1>8, <1>10, <2>1, <2>2 DEF Started, NmCounts, TcpCounted
  <2>3. CASE h.src = "TCP"
    BY <1>4, <1>8, <1>10, <2>3 DEF Started, NmCounts, TcpCounted
  <2> QED
    BY <1>8, <2>2, <2>3
<1>12. NmCounts'
  <2>1. /\ answers' \in {0, 1} /\ nm'.state = "INIT" /\ answers' = 0
        /\ \A i \in DOMAIN nm'.queue :
             nm'.queue[i].id \in {"INIT_RES", "NETWORK_MANAGER_INIT_RES",
               "NETWORK_MANAGER_TIMEOUT_INIT", "NETWORK_MANAGER_WIFI_CONNECT_STATUS"}
    BY <1>2, <1>3, <1>4, <1>6, <1>7 DEF Started, NmCounts
  <2>2. \A i, j \in DOMAIN nm'.queue :
          nm'.queue[i].id = "INIT_RES" /\ nm'.queue[j].id = "INIT_RES"
            /\ nm'.queue[i].src = nm'.queue[j].src => i = j
    <3>1. \A i, j \in DOMAIN nm.queue :
            nm.queue[i].id = "INIT_RES" /\ nm.queue[j].id = "INIT_RES"
              /\ nm.queue[i].src = nm.queue[j].src => i = j
      BY DEF Started, NmCounts
    <3>2. SUFFICES ASSUME NEW i \in DOMAIN nm'.queue, NEW j \in DOMAIN nm'.queue,
                          nm'.queue[i].id = "INIT_RES", nm'.queue[j].id = "INIT_RES",
                          nm'.queue[i].src = nm'.queue[j].src
                   PROVE  i = j
      OBVIOUS
    <3>3. /\ i \in Nat /\ i + 1 \in DOMAIN nm.queue /\ nm'.queue[i] = nm.queue[i + 1]
          /\ j \in Nat /\ j + 1 \in DOMAIN nm.queue /\ nm'.queue[j] = nm.queue[j + 1]
      BY <1>3, <1>6, <3>2
    <3>4. i + 1 = j + 1
      BY ONLY <3>1, <3>2, <3>3
    <3> QED
      BY <3>3, <3>4
  <2>3. \A i \in DOMAIN nm'.queue : nm'.queue[i].id = "INIT_RES" =>
          /\ nm'.queue[i].src # h.src
          /\ \/ nm'.queue[i].src = "WD" /\ nm'.queue[i].ok /\ WdAnswered
                  /\ ~nm.wifiInitStatus
             \/ nm'.queue[i].src = "TCP" /\ tcpQueue = <<>> /\ ~TcpCounted
    BY <1>1, <1>3, <1>6, <1>9 DEF Started, NmCounts
  <2>4. WdAnswered' = WdAnswered
    BY <1>7 DEF WdAnswered
  <2>5. \A i \in DOMAIN nm'.queue : nm'.queue[i].id = "INIT_RES" =>
          \/ nm'.queue[i].src = "WD" /\ nm'.queue[i].ok /\ WdAnswered'
               /\ ~nm'.wifiInitStatus
          \/ nm'.queue[i].src = "TCP" /\ tcpQueue' = <<>> /\ ~TcpCounted'
    BY <1>7, <1>11, <2>3, <2>4
  <2>6. /\ nm'.wifiInitStatus => WdAnswered' /\ nm'.modulesInit \in {1, 2}
        /\ ~nm'.wifiInitStatus => nm'.modulesInit \in {0, 1}
    BY <1>8, <1>11, <2>4 DEF Started, NmCounts
  <2>7. tcpQueue' # <<>> => Len(tcpQueue') = 1 /\ ~TcpCounted'
    BY <1>7, <1>11 DEF Started, NmCounts
  <2> QED
    BY <2>1, <2>2, <2>5, <2>6, <2>7 DEF NmCounts
<1>13. NoTimeoutYet'
  <2>1. nm.modulesInit + 1 = 2 => nm'.wifiInitStatus
    BY <1>4, <1>8, <1>10, <1>11 DEF Started, NmCounts, TcpCounted
  <2>2. nm.wifiInitStatus => nm'.wifiInitStatus
    BY <1>4, <1>8
  <2> QED
    BY <1>2, <1>3, <1>6, <1>7, <2>1, <2>2 DEF Started, NoTimeoutYet
<1>14. AmWaits'
  BY <1>2, <1>7 DEF Started, AmWaits
<1>15. WdWorks'
  <2>1. WdAnswered' = WdAnswered
    BY <1>7 DEF WdAnswered
  <2>2. ~StartFailed /\ ~StartFailed'
    BY <1>2, <1>7 DEF StartFailed
  <2> QED
    BY <1>7, <2>1, <2>2 DEF Started, WdWorks
<1> QED
  BY <1>12, <1>13, <1>14, <1>15 DEF Started

LEMMA StartedNmTimeoutInit == TypeOK /\ Started /\ NmTimeoutInit => Started'
<1> SUFFICES ASSUME TypeOK, Started, NmTimeoutInit PROVE Started'
  OBVIOUS
<1> DEFINE m == Msg("NETWORK_MANAGER_INIT_RES", "NM", TRUE)
<1>1. /\ nm.queue # <<>> /\ Head(nm.queue).id = "NETWORK_MANAGER_TIMEOUT_INIT"
      /\ Head(nm.queue) = nm.queue[1] /\ 1 \in DOMAIN nm.queue
  BY QueueShapes DEF NmTimeoutInit, Takes
<1>2. timedOut
  BY <1>1 DEF Started, NoTimeoutYet
<1>3. m \in Messages /\ m.id = "NETWORK_MANAGER_INIT_RES"
  BY MessageTypes DEF Ids, Tasks
<1>4. NmBecomes(Send(Tail(nm.queue), NmLength, m), nm.state, nm.modulesInit,
                nm.wifiInitStatus)
  BY NmTimeoutInitEffect
<1> HIDE DEF m
<1>5. /\ Replaced(nm'.queue, nm.queue, m) /\ nm'.state = nm.state
      /\ nm'.modulesInit = nm.modulesInit /\ nm'.wifiInitStatus = nm.wifiInitStatus
  BY <1>1, <1>3, <1>4, QueueShapes DEF NmBecomes
<1>6. UNCHANGED <<am, wd, tcpQueue, timers, callbacks, answers, timedOut>>
  BY DEF NmTimeoutInit, link, history
<1>7. NmCounts'
  BY <1>3, <1>5, <1>6 DEF Started, NmCounts, Replaced, TcpCounted, WdAnswered
<1>8. NoTimeoutYet'
  BY <1>2, <1>6 DEF NoTimeoutYet
<1>9. AmWaits' /\ WdWorks'
  BY <1>5, <1>6, AmKept, WdKept DEF Started
<1> QED
  BY <1>7, <1>8, <1>9 DEF Started

\* The start ends: the one answer to the application manager, and DEINIT_REQ
\* if the Wi-Fi driver had not answered.
LEMMA StartedNmInitResult == TypeOK /\ Started /\ NmInitResult => Started'
<1> SUFFICES ASSUME TypeOK, Started, NmInitResult PROVE Started'
  OBVIOUS
<1> DEFINE m == Msg("INIT_RES", "NM", nm.wifiInitStatus)
           d == Msg("DEINIT_REQ", "NM", TRUE)
<1>1. /\ nm.queue # <<>> /\ Head(nm.queue).id = "NETWORK_MANAGER_INIT_RES"
      /\ Head(nm.queue) = nm.queue[1] /\ 1 \in DOMAIN nm.queue
      /\ "NETWORK_MANAGER_INIT_RES" \in NmHandlers[nm.state]
      /\ Shifted(Tail(nm.queue), nm.queue)
  BY QueueShapes DEF NmInitResult, Takes, HasHandler
<1>2. answers = 0
  BY <1>1, TableContents DEF Started, NmCounts
<1>3. nm.wifiInitStatus \in BOOLEAN
  BY InRecords DEF NmRecords
<1>4. /\ m \in Messages /\ m.id = "INIT_RES" /\ m.src = "NM" /\ m.ok = nm.wifiInitStatus
      /\ d \in Messages /\ d.id = "DEINIT_REQ"
  <2>1. m \in Messages /\ m.id = "INIT_RES" /\ m.src = "NM" /\ m.ok = nm.wifiInitStatus
    BY <1>3, MessageTypes DEF Ids, Tasks
  <2>2. d \in Messages /\ d.id = "DEINIT_REQ"
    BY MessageTypes DEF Ids, Tasks
  <2> QED
    BY <2>1, <2>2
<1>5. /\ nm'.queue = Tail(nm.queue)
      /\ nm'.state = IF nm.wifiInitStatus THEN "IDLE" ELSE "DISABLED"
      /\ nm'.modulesInit = nm.modulesInit /\ nm'.wifiInitStatus = nm.wifiInitStatus
      /\ am'.queue = Send(am.queue, AmLength, m)
      /\ am'.state = am.state /\ am'.modulesInit = am.modulesInit
      /\ wd'.queue = IF nm.wifiInitStatus THEN wd.queue ELSE Send(wd.queue, WdLength, d)
      /\ wd'.state = wd.state /\ wd'.at = wd.at
  BY NmInitResultEffect DEF NmBecomes, AmBecomes, WdBecomes
<1> HIDE DEF m, d
<1>6. Extended(am'.queue, am.queue, m) /\ Shifted(nm'.queue, nm.queue)
  BY <1>1, <1>4, <1>5, QueueShapes
<1>7. /\ UNCHANGED <<tcpQueue, callbacks, timedOut>>
      /\ answers' = 1 /\ timers' = timers \ {"NM"}
  BY <1>2 DEF NmInitResult, link, NmTimersAfterStart
<1>8. AmWaits'
  <2>1. \A i \in DOMAIN am.queue : am.queue[i].id = "APP_MANAGER_TIMEOUT_INIT"
    BY <1>2 DEF Started, AmWaits
  <2>2. am.modulesInit = 0 /\ am.state = "INIT"
    BY <1>2 DEF Started, AmWaits
  <2> QED
    BY <1>4, <1>5, <1>6, <1>7, <2>1, <2>2 DEF Started, AmWaits, Extended
<1>9. WdWorks' /\ WdAnswered' = WdAnswered
  <2>1. /\ \A i \in DOMAIN wd.queue : wd.queue[i].id = "INIT_REQ" /\ i = 1
        /\ ~(wd.state = "DISABLED" /\ WdAnswered)
    BY <1>2 DEF Started, WdWorks, StartFailed
  <2>2. CASE nm.wifiInitStatus
    BY <1>5, <1>7, <2>1, <2>2 DEF Started, WdWorks, StartFailed, WdAnswered
  <2>3. CASE ~nm.wifiInitStatus
    <3>1. StartFailed'
      BY <1>5, <1>7, <2>3 DEF StartFailed
    <3>2. wd.queue \in Seq(Messages) /\ WdLength \in Nat /\ wd'.queue = Send(wd.queue, WdLength, d)
      BY <1>5, <2>3, InRecords DEF WdRecords
    <3>3. Len(wd.queue) <= 1
      BY <2>1, <3>2
    <3>4. CASE Full(wd.queue, WdLength)
      <4>1. wd'.queue = wd.queue
        BY <3>2, <3>4, <1>4, SendShape
      <4> QED
        BY <1>5, <1>7, <2>1, <3>1, <4>1 DEF Started, WdWorks, WdAnswered
    <3>5. CASE ~Full(wd.queue, WdLength)
      <4>1. wd'.queue = Append(wd.queue, d)
        BY <3>2, <3>5 DEF Send
      <4>2. Len(wd'.queue) = Len(wd.queue) + 1 /\ wd'.queue \in Seq(Messages)
        BY <1>4, <3>2, <4>1
      <4>3. \A i \in DOMAIN wd'.queue :
              \/ i \in DOMAIN wd.queue /\ wd'.queue[i] = wd.queue[i]
              \/ i = Len(wd'.queue) /\ wd'.queue[i] = d
        BY <1>4, <3>2, <4>1
      <4>4. \A i \in DOMAIN wd.queue : i \in DOMAIN wd'.queue /\ wd'.queue[i] = wd.queue[i]
        BY <1>4, <3>2, <4>1
      <4>5. WdAnswered' = WdAnswered
        BY <1>4, <1>5, <4>3, <4>4 DEF WdAnswered
      <4>6. \A i \in DOMAIN wd'.queue :
              \/ wd'.queue[i].id = "DEINIT_REQ" /\ StartFailed' /\ i = Len(wd'.queue)
              \/ /\ wd'.queue[i].id = "INIT_REQ" /\ i = 1
                 /\ wd'.state = "DISABLED" /\ wd'.at = "receive" /\ callbacks' = {}
        BY <1>2, <1>4, <1>5, <1>7, <3>1, <4>3 DEF Started, WdWorks, StartFailed
      <4>7. Len(wd'.queue) = 2 => wd'.queue[1].id = "INIT_REQ"
        <5>1. Len(wd'.queue) = 2 => 1 \in DOMAIN wd.queue
          <6>1. Len(wd.queue) \in Nat /\ DOMAIN wd.queue = 1..Len(wd.queue)
            BY <3>2
          <6>2. Len(wd'.queue) = 2 => Len(wd.queue) = 1
            <7>1. \A a, b : a \in Nat /\ b = a + 1 /\ b = 2 => a = 1
              OBVIOUS
            <7>2. Len(wd'.queue) = Len(wd.queue) + 1
              BY <4>2
            <7> QED
              BY ONLY <6>1, <7>1, <7>2
          <6> QED
            BY ONLY <6>1, <6>2
        <5> QED
          BY <2>1, <4>4, <5>1
      <4>8. Len(wd'.queue) <= 2
        <5>1. Len(wd.queue) \in Nat
          BY <3>2
        <5> QED
          BY <3>3, <4>2, <5>1
      <4> HIDE <3>2, <4>1, <4>2, <4>3, <4>4
      <4> QED
        BY <1>5, <1>7, <2>1, <4>5, <4>6, <4>7, <4>8 DEF Started, WdWorks
    <3> QED
      BY <3>4, <3>5
  <2> QED
    BY <1>3, <2>2, <2>3
<1>10. NmCounts'
  BY <1>2, <1>3, <1>5, <1>6, <1>7, <1>9 DEF Started, NmCounts, Shifted, TcpCounted
<1>11. NoTimeoutYet'
  BY <1>1, <1>2, <1>5, <1>6, <1>7 DEF Started, NoTimeoutYet, Shifted
<1> QED
  BY <1>8, <1>9, <1>10, <1>11 DEF Started

LEMMA StartedNmTimeout == TypeOK /\ Started /\ NmTimeout => Started'
<1> SUFFICES ASSUME TypeOK, Started, NmTimeout PROVE Started'
  OBVIOUS
<1> DEFINE m == Msg("NETWORK_MANAGER_TIMEOUT_INIT", "NM", TRUE)
<1>1. m \in Messages /\ m.id = "NETWORK_MANAGER_TIMEOUT_INIT"
  BY MessageTypes DEF Ids, Tasks
<1>2. NmBecomes(Send(nm.queue, NmLength, m), nm.state, nm.modulesInit, nm.wifiInitStatus)
  BY NmTimeoutEffect
<1> HIDE DEF m
<1>3. /\ Extended(nm'.queue, nm.queue, m) /\ nm'.state = nm.state
      /\ nm'.modulesInit = nm.modulesInit /\ nm'.wifiInitStatus = nm.wifiInitStatus
  BY <1>1, <1>2, QueueShapes DEF NmBecomes
<1>4. /\ UNCHANGED <<am, wd, tcpQueue, callbacks, answers>>
      /\ timedOut' = TRUE /\ timers' = timers \ {"NM"}
  BY DEF NmTimeout, link
<1>5. NmCounts'
  BY <1>1, <1>3, <1>4 DEF Started, NmCounts, Extended, TcpCounted, WdAnswered
<1>6. NoTimeoutYet'
  BY <1>4 DEF NoTimeoutYet
<1>7. AmWaits' /\ WdWorks'
  BY <1>3, <1>4, AmKept, WdKept DEF Started
<1> QED
  BY <1>5, <1>6, <1>7 DEF Started

LEMMA StartedWdStart == TypeOK /\ Started /\ WdStart => Started'
<1> SUFFICES ASSUME TypeOK, Started, WdStart PROVE Started'
  OBVIOUS
<1>1. /\ wd.queue # <<>> /\ Head(wd.queue).id = "INIT_REQ"
      /\ Head(wd.queue) = wd.queue[1] /\ 1 \in DOMAIN wd.queue
      /\ Shifted(Tail(wd.queue), wd.queue) /\ Len(Tail(wd.queue)) = Len(wd.queue) - 1
      /\ Len(wd.queue) \in Nat
  BY QueueShapes DEF WdStart, Takes
<1>2. wd.at = "receive" /\ wd'.queue = Tail(wd.queue) /\ wd'.state = wd.state
      /\ wd'.at = "started"
  BY WdStartEffect DEF WdBecomes
<1>3. UNCHANGED <<am, nm, tcpQueue, timers, callbacks, answers, timedOut>>
  BY DEF WdStart, link, history
<1>4. ~WdAnswered /\ ~WdAnswered' /\ wd.state = "DISABLED" /\ callbacks = {}
  BY <1>1, <1>2 DEF Started, WdWorks, WdAnswered
<1>5. WdWorks'
  <2>1. Len(wd'.queue) <= 1 /\ Len(wd'.queue) \in Nat
    <3>1. Len(wd.queue) <= 2 /\ Len(wd.queue) >= 1
      BY <1>1, QueueShapes DEF Started, WdWorks
    <3> QED
      BY <1>1, <1>2, <3>1
  <2>2. \A i \in DOMAIN wd'.queue :
          /\ i + 1 \in DOMAIN wd.queue /\ i >= 1 /\ i \in Nat
          /\ wd'.queue[i] = wd.queue[i + 1]
    BY <1>1, <1>2 DEF Shifted
  <2>3. StartFailed' = StartFailed
    BY <1>3 DEF StartFailed
  <2>4. \A i \in DOMAIN wd'.queue :
          wd'.queue[i].id = "DEINIT_REQ" /\ StartFailed' /\ i = Len(wd'.queue)
    BY <1>1, <1>2, <2>2, <2>3 DEF Started, WdWorks
  <2>5. Len(wd'.queue) <= 2 /\ Len(wd'.queue) # 2
    BY <2>1
  <2> QED
    BY <1>2, <1>3, <1>4, <2>4, <2>5 DEF WdWorks
<1>6. AmWaits' /\ NmCounts' /\ NoTimeoutYet'
  <2>1. WdAnswered' = WdAnswered
    BY <1>4 DEF WdAnswered
  <2> QED
    BY <1>3, <2>1, AmKept, NmKept, TimeoutKept DEF Started
<1> QED
  BY <1>5, <1>6 DEF Started

LEMMA StartedWdSetCallback == TypeOK /\ Started /\ WdSetCallback => Started'
<1> SUFFICES ASSUME TypeOK, Started, WdSetCallback PROVE Started'
  OBVIOUS
<1>1. /\ wd.at \in {"started", "gotIp"}
      /\ callbacks' = callbacks \cup {wd.at = "started"}
      /\ UNCHANGED <<am, nm, tcpQueue, timers, answers, timedOut>>
  BY DEF WdSetCallback, history
<1>2. /\ wd'.queue = wd.queue /\ wd'.state = wd.state
      /\ wd'.at = IF wd.at = "started" THEN "gotIp" ELSE "answer"
  BY WdSetCallbackEffect DEF WdBecomes
<1>3. ~WdAnswered /\ ~WdAnswered'
  BY <1>1, <1>2 DEF WdAnswered
<1>4. StartFailed' = StartFailed
  BY <1>1 DEF StartFailed
<1>5. WdWorks'
  <2>1. wd.state = "DISABLED"
    BY <1>1 DEF Started, WdWorks
  <2>2. wd'.at = "gotIp" => callbacks' = {TRUE}
    BY <1>1, <1>2 DEF Started, WdWorks
  <2>3. wd'.at = "answer" => callbacks' = BOOLEAN
    BY <1>1, <1>2 DEF Started, WdWorks
  <2>4. \A i \in DOMAIN wd'.queue :
          wd'.queue[i].id = "DEINIT_REQ" /\ StartFailed' /\ i = Len(wd'.queue)
    BY <1>1, <1>2, <1>4 DEF Started, WdWorks
  <2> QED
    BY <1>1, <1>2, <1>3, <2>1, <2>2, <2>3, <2>4 DEF Started, WdWorks
<1>6. AmWaits' /\ NmCounts' /\ NoTimeoutYet'
  <2>1. WdAnswered' = WdAnswered
    BY <1>3 DEF WdAnswered
  <2> QED
    BY <1>1, <2>1, AmKept, NmKept, TimeoutKept DEF Started
<1> QED
  BY <1>5, <1>6 DEF Started

LEMMA StartedWdAnswer == TypeOK /\ Started /\ WdAnswer => Started'
<1> SUFFICES ASSUME TypeOK, Started, WdAnswer PROVE Started'
  OBVIOUS
<1> DEFINE m == Msg("INIT_RES", "WD", TRUE)
<1>1. m \in Messages /\ m.id = "INIT_RES" /\ m.src = "WD" /\ m.ok = TRUE
  <2>1. m \in Messages
    BY MessageTypes DEF Ids, Tasks
  <2> QED
    BY <2>1 DEF Msg
<1>2. /\ wd.at = "answer"
      /\ wd'.queue = wd.queue /\ wd'.state = "IDLE" /\ wd'.at = "receive"
      /\ nm'.queue = Send(nm.queue, NmLength, m) /\ nm'.state = nm.state
      /\ nm'.modulesInit = nm.modulesInit /\ nm'.wifiInitStatus = nm.wifiInitStatus
  BY WdAnswerEffect DEF WdBecomes, NmBecomes, WdAnswer
<1> HIDE DEF m
<1>3. Extended(nm'.queue, nm.queue, m)
  BY <1>1, <1>2, QueueShapes
<1>4. UNCHANGED <<am, tcpQueue, timers, callbacks, answers, timedOut>>
  BY DEF WdAnswer, link, history
<1>5. /\ \A i \in DOMAIN wd.queue :
           wd.queue[i].id = "DEINIT_REQ" /\ StartFailed /\ i = Len(wd.queue)
      /\ callbacks = BOOLEAN /\ ~WdAnswered
      /\ StartFailed' = StartFailed
  BY <1>2, <1>4 DEF Started, WdWorks, WdAnswered, StartFailed
<1>6. WdAnswered'
  BY <1>2, <1>5 DEF WdAnswered
<1>7. WdWorks'
  BY <1>2, <1>4, <1>5, <1>6 DEF Started, WdWorks
<1>8. /\ ~nm.wifiInitStatus
      /\ \A i \in DOMAIN nm.queue : nm.queue[i].id = "INIT_RES" => nm.queue[i].src = "TCP"
  BY <1>5 DEF Started, NmCounts
<1>9. NmCounts'
  BY <1>1, <1>2, <1>3, <1>4, <1>6, <1>8 DEF Started, NmCounts, Extended, TcpCounted
<1>10. NoTimeoutYet'
  BY <1>1, <1>2, <1>3, <1>4 DEF Started, NoTimeoutYet, Extended
<1>11. AmWaits'
  BY <1>2, <1>4, AmKept DEF Started
<1> QED
  BY <1>7, <1>9, <1>10, <1>11 DEF Started

LEMMA StartedWdDeinit == TypeOK /\ Started /\ WdDeinit => Started'
<1> SUFFICES ASSUME TypeOK, Started, WdDeinit PROVE Started'
  OBVIOUS
<1>1. /\ wd.queue # <<>> /\ Head(wd.queue).id = "DEINIT_REQ"
      /\ Head(wd.queue) = wd.queue[1] /\ 1 \in DOMAIN wd.queue
      /\ Len(Tail(wd.queue)) = Len(wd.queue) - 1
      /\ wd.queue \in Seq(Messages)
  BY QueueShapes DEF WdDeinit, Takes
<1>2. wd.at = "receive" /\ wd'.queue = Tail(wd.queue) /\ wd'.state = "DISABLED"
      /\ wd'.at = wd.at
  BY WdDeinitEffect DEF WdBecomes
<1>3. UNCHANGED <<am, nm, tcpQueue, timers, callbacks, answers, timedOut>>
  BY DEF WdDeinit, link, history
<1>4. StartFailed /\ Len(wd.queue) = 1
  BY <1>1 DEF Started, WdWorks
<1>5. wd'.queue = <<>>
  <2>1. Len(Tail(wd.queue)) = 0 /\ Tail(wd.queue) \in Seq(Messages)
    BY <1>1, <1>4, ReceiveShape
  <2>2. \A q \in Seq(Messages) : Len(q) = 0 => q = <<>>
    OBVIOUS
  <2> QED
    BY <1>2, <2>1, <2>2
<1>6. WdAnswered /\ WdAnswered'
  <2>1. WdAnswered
    BY <1>1, <1>2, <1>4 DEF WdAnswered
  <2>2. DOMAIN wd'.queue = {}
    BY <1>5
  <2> QED
    BY <1>2, <2>1, <2>2 DEF WdAnswered
<1>7. WdWorks'
  <2>1. Len(wd'.queue) = 0 /\ DOMAIN wd'.queue = {}
    BY <1>5
  <2>2. StartFailed'
    BY <1>3, <1>4 DEF StartFailed
  <2> QED
    BY <1>2, <1>5, <2>1, <2>2 DEF WdWorks
<1>8. AmWaits' /\ NmCounts' /\ NoTimeoutYet'
  BY <1>3, <1>6, AmKept, NmKept, TimeoutKept DEF Started
<1> QED
  BY <1>7, <1>8 DEF Started

LEMMA StartedTcpAnswer == TypeOK /\ Started /\ TcpAnswer => Started'
<1> SUFFICES ASSUME TypeOK, Started, TcpAnswer PROVE Started'
  OBVIOUS
<1> DEFINE m == Msg("INIT_RES", "TCP", TRUE)
<1>1. m \in Messages /\ m.id = "INIT_RES" /\ m.src = "TCP"
  <2>1. m \in Messages
    BY MessageTypes DEF Ids, Tasks
  <2> QED
    BY <2>1 DEF Msg
<1>2. /\ tcpQueue # <<>> /\ tcpQueue' = Tail(tcpQueue)
      /\ nm'.queue = Send(nm.queue, NmLength, m) /\ nm'.state = nm.state
      /\ nm'.modulesInit = nm.modulesInit /\ nm'.wifiInitStatus = nm.wifiInitStatus
  BY TcpAnswerEffect DEF NmBecomes, TcpAnswer
<1> HIDE DEF m
<1>3. Extended(nm'.queue, nm.queue, m)
  BY <1>1, <1>2, QueueShapes
<1>4. UNCHANGED <<am, wd, timers, callbacks, answers, timedOut>>
  BY DEF TcpAnswer, link, history
<1>5. tcpQueue' = <<>> /\ ~TcpCounted
  <2>1. tcpQueue \in Seq({"INIT_REQ"}) /\ Len(tcpQueue) = 1 /\ ~TcpCounted
    BY <1>2 DEF Started, NmCounts, TypeOK
  <2> QED
    BY <1>2, <2>1
<1>6. \A i \in DOMAIN nm.queue : nm.queue[i].id = "INIT_RES" => nm.queue[i].src = "WD"
  BY <1>2 DEF Started, NmCounts
<1>7. NmCounts'
  BY <1>1, <1>2, <1>3, <1>4, <1>5, <1>6
  DEF Started, NmCounts, Extended, TcpCounted, WdAnswered
<1>8. NoTimeoutYet'
  BY <1>1, <1>2, <1>3, <1>4 DEF Started, NoTimeoutYet, Extended
<1>9. AmWaits' /\ WdWorks'
  BY <1>2, <1>4, AmKept, WdKept DEF Started
<1> QED
  BY <1>7, <1>8, <1>9 DEF Started

LEMMA StartedWifiEvent ==
  ASSUME TypeOK, Started, NEW up \in BOOLEAN, WifiEvent(up)
  PROVE  Started'
<1> DEFINE m == Msg("NETWORK_MANAGER_WIFI_CONNECT_STATUS", "WD", up)
<1>1. m \in Messages /\ m.id = "NETWORK_MANAGER_WIFI_CONNECT_STATUS"
  BY MessageTypes DEF Ids, Tasks
<1>2. UNCHANGED <<am, wd, tcpQueue, timers, callbacks, answers, timedOut>>
  BY DEF WifiEvent, history
<1>3. CASE up \notin callbacks
  <2>1. nm' = nm
    BY <1>3, WifiEventEffect
  <2> QED
    BY <1>2, <2>1, AmKept, NmKept, TimeoutKept, WdKept DEF Started, WdAnswered
<1>4. CASE up \in callbacks
  <2>1. /\ nm'.queue = Send(nm.queue, NmLength, m) /\ nm'.state = nm.state
        /\ nm'.modulesInit = nm.modulesInit /\ nm'.wifiInitStatus = nm.wifiInitStatus
    BY <1>4, WifiEventEffect DEF NmBecomes
  <2> HIDE DEF m
  <2>2. Extended(nm'.queue, nm.queue, m)
    BY <1>1, <2>1, QueueShapes
  <2>3. NmCounts'
    BY <1>1, <1>2, <2>1, <2>2 DEF Started, NmCounts, Extended, TcpCounted, WdAnswered
  <2>4. NoTimeoutYet'
    BY <1>1, <1>2, <2>1, <2>2 DEF Started, NoTimeoutYet, Extended
  <2>5. AmWaits' /\ WdWorks'
    BY <1>2, <2>1, AmKept, WdKept DEF Started
  <2> QED
    BY <2>3, <2>4, <2>5 DEF Started
<1> QED
  BY <1>3, <1>4

LEMMA StartedStep == TypeOK /\ Started /\ Next => Started'
<1> SUFFICES ASSUME TypeOK, Started, Next PROVE Started'
  OBVIOUS
<1>1. ~AmDisabledInitReq
  BY DEF AmDisabledInitReq, Started, AmWaits
<1>2. ~AmInitInitReq
  BY AmInitInitReqEffect, QueueShapes DEF Finds, Started, AmWaits
<1>3. ~NmDisabledInitReq
  BY NmDisabledInitReqEffect, QueueShapes DEF Finds, Started, NmCounts
<1>4. ~NmInitInitReq
  BY NmInitInitReqEffect, QueueShapes DEF Finds, Started, NmCounts
<1> QED
  BY <1>1, <1>2, <1>3, <1>4, StartedAmDrop, StartedAmModuleAnswer, StartedAmInitResult,
     StartedAmTimeout, StartedNmDrop, StartedNmWifi, StartedNmModuleAnswer,
     StartedNmTimeoutInit, StartedNmInitResult, StartedNmTimeout, StartedWdStart,
     StartedWdSetCallback, StartedWdAnswer, StartedWdDeinit, StartedTcpAnswer,
     StartedWifiEvent
  DEF Next, AmStep, NmStep, WdStep

-----------------------------------------------------------------------------
(* What holds in every state.                                              *)

LEMMA NextStart == TypeOK /\ StartInv /\ [Next]_vars => StartInv'
<1>1. TypeOK /\ StartInv /\ Next => StartInv'
  BY RequestedStep, ForwardedStep, StartedStep DEF StartInv
<1>2. StartInv /\ UNCHANGED vars => StartInv'
  <2> SUFFICES ASSUME StartInv, UNCHANGED vars PROVE StartInv'
    OBVIOUS
  <2>1. CASE Requested
    BY <2>1 DEF vars, StartInv, Requested, NothingStarted
  <2>2. CASE Forwarded
    BY <2>2 DEF vars, StartInv, Forwarded, NothingStarted
  <2>3. CASE Started
    <3>1. UNCHANGED <<am, nm, wd, tcpQueue, timers, callbacks, answers, timedOut>>
      BY DEF vars
    <3>2. WdAnswered' = WdAnswered
      BY <3>1 DEF WdAnswered
    <3> QED
      BY <2>3, <3>1, <3>2, AmKept, NmKept, TimeoutKept, WdKept DEF Started, StartInv
  <2> QED
    BY <2>1, <2>2, <2>3 DEF StartInv
<1> QED
  BY <1>1, <1>2

LEMMA NextTypeOK == TypeOK /\ StartInv /\ [Next]_vars => TypeOK'
<1> SUFFICES ASSUME TypeOK, StartInv, [Next]_vars PROVE TypeOK'
  OBVIOUS
<1>1. QueuesOK'
  <2>1. CASE Next
    BY <2>1, NextQueues
  <2>2. CASE UNCHANGED vars
    BY <2>2, TypeParts DEF vars, QueuesOK
  <2> QED
    BY <2>1, <2>2
<1>2. RestOK'
  BY NextRest
<1>3. StartInv'
  BY NextStart
<1>4. am'.modulesInit \in 0..1 /\ nm'.modulesInit \in 0..2
  <2>1. CASE Requested' \/ Forwarded'
    BY <2>1 DEF Requested, Forwarded, NothingStarted
  <2>2. CASE Started'
    <3>1. am'.modulesInit \in {0, 1}
      BY <2>2 DEF Started, AmWaits
    <3>2. nm'.modulesInit \in {0, 1, 2}
      BY <2>2 DEF Started, NmCounts
    <3> QED
      BY <3>1, <3>2
  <2> QED
    BY <1>3, <2>1, <2>2 DEF StartInv
<1>5. /\ am' \in [queue : Seq(Messages), state : DOMAIN AmHandlers,
                  modulesInit : 0..1, initResult : BOOLEAN]
      /\ nm' \in [queue : Seq(Messages), state : DOMAIN NmHandlers,
                  modulesInit : 0..2, wifiInitStatus : BOOLEAN]
      /\ wd' \in [queue : Seq(Messages), state : DOMAIN WdHandlers,
                  at : {"receive", "started", "gotIp", "answer"}]
  <2>1. am' \in AmRecords /\ nm' \in NmRecords /\ wd' \in WdRecords
    BY <1>1 DEF QueuesOK
  <2>2. am' \in [queue : Seq(Messages), state : DOMAIN AmHandlers,
                 modulesInit : 0..1, initResult : BOOLEAN]
    BY <1>4, <2>1 DEF AmRecords
  <2>3. nm' \in [queue : Seq(Messages), state : DOMAIN NmHandlers,
                 modulesInit : 0..2, wifiInitStatus : BOOLEAN]
    BY <1>4, <2>1 DEF NmRecords
  <2> QED
    BY <2>1, <2>2, <2>3 DEF WdRecords
<1> QED
  BY <1>1, <1>2, <1>5 DEF QueuesOK, RestOK, TypeOK

LEMMA StartAlways == Spec => [](TypeOK /\ StartInv)
<1>1. Init => TypeOK /\ StartInv
  <2> SUFFICES ASSUME Init PROVE TypeOK /\ StartInv
    OBVIOUS
  <2>1. Requested
    BY InitStart
  <2>2. am.modulesInit = 0 /\ nm.modulesInit = 0
    BY DEF Init
  <2> QED
    BY <2>1, <2>2, InitQueues, TypeParts DEF StartInv
<1>2. TypeOK /\ StartInv /\ [Next]_vars => (TypeOK /\ StartInv)'
  BY NextTypeOK, NextStart
<1> QED
  BY <1>1, <1>2, PTL DEF Spec

\* Every variable of the three tasks stays in its type and every queue within
\* its length; in particular no answer is counted twice (app_manager.c 133-174,
\* network_manager.c 133-186).
THEOREM TypeCorrect == Spec => []TypeOK
  BY StartAlways, PTL

\* The application manager gets one answer, although answers and timeout each
\* make the network manager end the start (network_manager.c 188-238).
THEOREM OneAnswer == Spec => []AnsweredOnce
<1>1. StartInv => AnsweredOnce
  BY DEF StartInv, Requested, Forwarded, NothingStarted, Started, NmCounts, AnsweredOnce
<1> QED
  BY <1>1, StartAlways, PTL

LEMMA StartMeansWifi == TypeOK /\ StartInv => ReadyMeansWifi
<1> SUFFICES ASSUME TypeOK, StartInv PROVE ReadyMeansWifi
  OBVIOUS
<1>1. CASE Requested \/ Forwarded
  BY <1>1 DEF Requested, Forwarded, ReadyMeansWifi
<1>2. CASE Started
  <2>1. am.state = "IDLE" => nm.state = "IDLE"
    BY <1>2 DEF Started, AmWaits, NmCounts
  <2>2. ASSUME nm.state = "IDLE"
        PROVE  wd.state = "IDLE" /\ wd.queue = <<>> /\ callbacks = BOOLEAN
    <3>1. nm.wifiInitStatus /\ WdAnswered /\ ~StartFailed
      BY <1>2, <2>2 DEF Started, NmCounts, StartFailed
    <3>2. wd.state \in {"DISABLED", "IDLE"} /\ wd.queue \in Seq(Messages)
      BY InRecords DEF WdRecords, WdHandlers
    <3>3. wd.state = "IDLE" /\ callbacks = BOOLEAN
      BY <1>2, <3>1, <3>2 DEF Started, WdWorks
    <3>4. DOMAIN wd.queue = {}
      BY <1>2, <3>1 DEF Started, WdWorks, WdAnswered
    <3>5. wd.queue = <<>>
      BY <3>4, QueueShapes
    <3> QED
      BY <3>3, <3>5
  <2> QED
    BY <2>1, <2>2 DEF ReadyMeansWifi
<1> QED
  BY <1>1, <1>2 DEF StartInv

\* The application runs only with a network manager that runs, and that only
\* with a Wi-Fi driver that is up and has both callbacks set, whichever of
\* answers and timeout came first (network_manager.c 188-238).
THEOREM ReadyWithWifi == Spec => []ReadyMeansWifi
  BY StartAlways, StartMeansWifi, PTL

\* A link change gets lost only while the network manager starts
\* (wifidrv.c 181-183, network_manager.c 92-98).
THEOREM LossOnlyWhileStarting == Spec => LossOnlyDuringStart
<1>1. ASSUME TypeOK, StartInv, Next PROVE missed' # missed => nm.state # "IDLE"
  <2> SUFFICES ASSUME missed' # missed, nm.state = "IDLE" PROVE FALSE
    OBVIOUS
  <2>1. NmDrop \/ \E up \in BOOLEAN : WifiEvent(up)
    BY <1>1 DEF Next, AmStep, NmStep, WdStep, link, AmDrop, AmDisabledInitReq,
       AmInitInitReq, AmModuleAnswer, AmInitResult, AmTimeout, NmDisabledInitReq,
       NmInitInitReq, NmModuleAnswer, NmTimeoutInit, NmInitResult, NmTimeout,
       NmWifiConnectStatus, WdStart, WdSetCallback, WdAnswer, WdDeinit, TcpAnswer
  <2>2. CASE NmDrop
    <3>1. Head(nm.queue).id # "NETWORK_MANAGER_WIFI_CONNECT_STATUS"
      BY <1>1, <2>2, NmDropEffect, TableContents
    <3> QED
      BY <1>1, <2>2, <3>1 DEF NmDrop, TypeOK
  <2>3. CASE \E up \in BOOLEAN : WifiEvent(up)
    <3>1. PICK up \in BOOLEAN : WifiEvent(up)
      BY <2>3
    <3>2. callbacks = BOOLEAN
      BY <1>1, StartMeansWifi DEF ReadyMeansWifi
    <3> QED
      BY <3>1, <3>2 DEF WifiEvent
  <2> QED
    BY <2>1, <2>2, <2>3
<1>2. TypeOK /\ StartInv /\ [Next]_vars => [missed' # missed => nm.state # "IDLE"]_vars
  BY <1>1
<1> QED
  BY <1>2, StartAlways, PTL DEF Spec, LossOnlyDuringStart

\* Every request reaches the Wi-Fi driver in a state whose table lists it, so
\* leaving out the dropping of requests left nothing out (wifidrv.c 205-226).
THEOREM DriverTakesAll == Spec => []WdRequestsHandled
<1>1. TypeOK /\ StartInv => WdRequestsHandled
  <2> SUFFICES ASSUME TypeOK, StartInv, wd.at = "receive", wd.queue # <<>>
               PROVE  HasHandler(WdHandlers, wd.state, Head(wd.queue).id)
    BY DEF WdRequestsHandled
  <2>1. Started
    BY DEF StartInv, Requested, Forwarded, NothingStarted
  <2>2. Head(wd.queue) = wd.queue[1] /\ 1 \in DOMAIN wd.queue
    BY QueueShapes
  <2>3. CASE wd.queue[1].id = "INIT_REQ"
    BY <2>1, <2>2, <2>3, TableContents DEF Started, WdWorks, HasHandler
  <2>4. CASE wd.queue[1].id = "DEINIT_REQ"
    <3>1. Len(wd.queue) = 1 /\ \A i \in DOMAIN wd.queue : i = 1
      <4>1. Len(wd.queue) = 1
        BY <2>1, <2>2, <2>4 DEF Started, WdWorks
      <4> QED
        BY <4>1, QueueShapes
    <3>2. WdAnswered
      BY <2>4, <3>1 DEF WdAnswered
    <3>3. wd.state = "IDLE"
      <4>1. wd.state \in {"DISABLED", "IDLE"}
        BY InRecords DEF WdRecords, WdHandlers
      <4> QED
        BY <2>1, <3>2, <4>1 DEF Started, WdWorks
    <3> QED
      BY <2>2, <2>4, <3>3, TableContents DEF HasHandler
  <2> QED
    BY <2>1, <2>2, <2>3, <2>4 DEF Started, WdWorks
<1> QED
  BY <1>1, StartAlways, PTL

-----------------------------------------------------------------------------
(* What TcpServer takes for granted.                                       *)

\* The TCP server hears of the start once and before it hears of the link: its
\* INIT_REQ is posted by a network manager behind which nothing has started,
\* which is so only once, and link changes are passed on later
\* (network_manager.c 172-186, 240-273).
InitOnceAndFirst ==
  [][/\ NmInitInitReq => NothingStarted /\ ~NothingStarted'
     /\ NmWifiConnectStatus => ~NothingStarted
     /\ ~NothingStarted => ~NothingStarted']_vars

LEMMA StartedSomething == TypeOK /\ Started => ~NothingStarted
<1> SUFFICES ASSUME TypeOK, Started, NothingStarted PROVE FALSE
  OBVIOUS
<1>1. wd.queue = <<>> /\ wd.at = "receive" /\ wd.state = "DISABLED" /\ answers = 0
  BY DEF NothingStarted
<1>2. DOMAIN wd.queue = {}
  BY <1>1
<1>3. WdAnswered
  BY <1>1, <1>2 DEF WdAnswered
<1> QED
  BY <1>1, <1>3 DEF Started, WdWorks, StartFailed

\* TcpServer is proved for a task that gets its INIT_REQ once and before any
\* link event (StartedOnce in TcpServerProofs): this is what the start does.
THEOREM TcpAskedOnce == Spec => InitOnceAndFirst
<1>1. ASSUME TypeOK, StartInv, Next
      PROVE  /\ NmInitInitReq => NothingStarted /\ ~NothingStarted'
             /\ NmWifiConnectStatus => ~NothingStarted
             /\ ~NothingStarted => ~NothingStarted'
  <2>1. CASE Requested
    <3>1. ~NmInitInitReq /\ ~NmWifiConnectStatus
      BY <2>1 DEF NmInitInitReq, NmWifiConnectStatus, Takes, Requested
    <3> QED
      BY <2>1, <3>1 DEF Requested
  <2>2. CASE Forwarded
    <3>1. nm.queue # <<>> /\ Head(nm.queue).id = "INIT_REQ"
      BY <1>1, <2>2, InRecords DEF Forwarded, NmRecords
    <3>2. ~NmWifiConnectStatus
      BY <3>1 DEF NmWifiConnectStatus, Takes
    <3>3. NmInitInitReq => "NM" \in timers'
      BY DEF NmInitInitReq
    <3> QED
      BY <2>2, <3>2, <3>3 DEF Forwarded, NothingStarted
  <2>3. CASE Started
    <3>1. ~NmInitInitReq
      BY <1>1, <2>3, NmInitInitReqEffect, QueueShapes DEF Finds, Started, NmCounts
    <3>2. TypeOK' /\ Started'
      BY <1>1, <2>3, NextTypeOK, StartedStep
    <3>3. ~NothingStarted
      BY <1>1, <2>3, StartedSomething
    <3>4. Started' => ~NothingStarted'
      <4>1. TypeOK' /\ Started' => ~NothingStarted'
        BY StartedSomething, PTL
      <4> QED
        BY <3>2, <4>1
    <3> QED
      BY <3>1, <3>2, <3>3, <3>4
  <2> QED
    BY <1>1, <2>1, <2>2, <2>3 DEF StartInv
<1>2. TypeOK /\ StartInv /\ [Next]_vars =>
        [/\ NmInitInitReq => NothingStarted /\ ~NothingStarted'
         /\ NmWifiConnectStatus => ~NothingStarted
         /\ ~NothingStarted => ~NothingStarted']_vars
  BY <1>1
<1> QED
  BY <1>2, StartAlways, PTL DEF Spec, InitOnceAndFirst

-----------------------------------------------------------------------------
(* Without a timeout no assertion fails, if the queues hold what the start *)
(* and the link changes put into them.                                     *)

\* What the proof takes of the lengths: room for the answer and the timeout in
\* the application manager, for the two answers and every link change in the
\* network manager.  With 16 in network_manager.c that is fourteen changes.
QueuesFit == AmLength >= 2 /\ NmLength >= MaxWifiEvents + 2

LEMMA LoadNumbers ==
  ASSUME TypeOK
  PROVE  /\ Len(nm.queue) \in Nat /\ Len(tcpQueue) \in Nat /\ wifiEvents \in Nat
         /\ Len(am.queue) \in Nat /\ Len(wd.queue) \in Nat
         /\ nm.queue # <<>> => Len(Tail(nm.queue)) = Len(nm.queue) - 1
         /\ \A m \in Messages : Len(Send(nm.queue, NmLength, m)) \in Nat
              /\ Len(Send(nm.queue, NmLength, m)) <= Len(nm.queue) + 1
         /\ \A m \in Messages : nm.queue # <<>> =>
              Len(Send(Tail(nm.queue), NmLength, m)) = Len(nm.queue)
<1>1. nm.queue \in Seq(Messages) /\ NmLength \in Nat /\ Len(nm.queue) <= NmLength
  BY InRecords DEF NmRecords
<1>2. nm.queue # <<>> => Len(Tail(nm.queue)) = Len(nm.queue) - 1
  BY <1>1
<1>3. ASSUME NEW m \in Messages
      PROVE  /\ Len(Send(nm.queue, NmLength, m)) \in Nat
             /\ Len(Send(nm.queue, NmLength, m)) <= Len(nm.queue) + 1
             /\ nm.queue # <<>> => Len(Send(Tail(nm.queue), NmLength, m)) = Len(nm.queue)
  <2>1. /\ Len(Send(nm.queue, NmLength, m)) \in Nat
        /\ Len(Send(nm.queue, NmLength, m)) <= Len(nm.queue) + 1
    <3>1. Len(nm.queue) \in Nat
      BY <1>1
    <3>2. CASE Full(nm.queue, NmLength)
      <4>1. Send(nm.queue, NmLength, m) = nm.queue
        BY <3>2 DEF Send
      <4> QED
        BY <3>1, <4>1
    <3>3. CASE ~Full(nm.queue, NmLength)
      <4>1. Len(Send(nm.queue, NmLength, m)) = Len(nm.queue) + 1
        BY <1>1, <3>3, SendShape
      <4> QED
        BY <3>1, <4>1
    <3> QED
      BY <3>2, <3>3
  <2>2. nm.queue # <<>> => Len(Send(Tail(nm.queue), NmLength, m)) = Len(nm.queue)
    BY <1>1, ReplaceShape
  <2> QED
    BY <2>1, <2>2
<1>4. Len(am.queue) \in Nat /\ Len(wd.queue) \in Nat
  BY QueueShapes
<1>5. Len(tcpQueue) \in Nat /\ wifiEvents \in Nat /\ Len(nm.queue) \in Nat
  <2>1. tcpQueue \in Seq({"INIT_REQ"}) /\ wifiEvents \in 0..MaxWifiEvents
    BY DEF TypeOK
  <2> QED
    BY <1>1, <2>1, WifiEventsAssumption
<1> QED
  BY <1>2, <1>3, <1>4, <1>5

\* Nothing fails before the timeout, so the Wi-Fi driver gets no DEINIT_REQ.
LEMMA NoFailureYet ==
  ASSUME TypeOK, Started, ~timedOut
  PROVE  ~StartFailed /\ \A i \in DOMAIN wd.queue : wd.queue[i].id = "INIT_REQ"
  BY DEF Started, NoTimeoutYet, StartFailed, WdWorks

LEMMA SingleShape ==
  ASSUME NEW q \in Seq(Messages), \A i, j \in DOMAIN q : i = j
  PROVE  Len(q) <= 1
<1>1. Len(q) \in Nat /\ DOMAIN q = 1..Len(q)
  OBVIOUS
<1>2. SUFFICES ASSUME Len(q) >= 2 PROVE FALSE
  BY <1>1
<1>3. 1 \in DOMAIN q /\ 2 \in DOMAIN q
  BY <1>1, <1>2
<1> QED
  BY <1>3

\* Only its timer's callback says that the start timed out.
LEMMA TimedOutStep ==
  ASSUME [Next]_vars, ~timedOut'
  PROVE  ~timedOut /\ ~NmTimeout
<1>1. ~NmTimeout
  BY DEF NmTimeout
<1>2. timedOut' = timedOut
  <2>1. CASE AmStep
    BY <2>1 DEF AmStep, history, AmDrop, AmDisabledInitReq, AmInitInitReq,
       AmModuleAnswer, AmInitResult
  <2>2. CASE NmStep
    BY <2>2 DEF NmStep, history, NmDrop, NmDisabledInitReq, NmInitInitReq,
       NmModuleAnswer, NmTimeoutInit, NmInitResult, NmWifiConnectStatus
  <2>3. CASE WdStep
    BY <2>3 DEF WdStep, history, WdStart, WdSetCallback, WdAnswer, WdDeinit
  <2>4. CASE TcpAnswer \/ AmTimeout \/ \E up \in BOOLEAN : WifiEvent(up)
    BY <2>4 DEF TcpAnswer, AmTimeout, WifiEvent, history
  <2> QED
    BY <1>1, <2>1, <2>2, <2>3, <2>4 DEF Next, vars
<1> QED
  BY <1>1, <1>2

LEMMA OwedNumbers ==
  /\ WdOwed \in {0, 1} /\ (WdOwes => WdOwed = 1) /\ (~WdOwes => WdOwed = 0)
  /\ WdOwed' \in {0, 1} /\ (WdOwes' => WdOwed' = 1) /\ (~WdOwes' => WdOwed' = 0)
  BY DEF WdOwed

LEMMA NextLoad == TypeOK /\ StartInv /\ NmLoad /\ [Next]_vars => NmLoad'
<1> SUFFICES ASSUME TypeOK, StartInv, NmLoad, [Next]_vars, ~timedOut'
             PROVE  Len(nm'.queue) + Len(tcpQueue') + WdOwed' <= wifiEvents' + 2
  BY DEF NmLoad
<1> DEFINE n == Len(nm.queue)
           t == Len(tcpQueue)
           o == WdOwed
           c == wifiEvents
           n2 == Len(nm'.queue)
           t2 == Len(tcpQueue')
           o2 == WdOwed'
           c2 == wifiEvents'
<1>0. /\ n \in Nat /\ t \in Nat /\ c \in Nat /\ o \in {0, 1} /\ o2 \in {0, 1}
      /\ WdOwes => o = 1
      /\ ~WdOwes => o = 0
      /\ WdOwes' => o2 = 1
      /\ ~WdOwes' => o2 = 0
  BY LoadNumbers, OwedNumbers
<1> SUFFICES n2 + t2 + o2 <= c2 + 2
  OBVIOUS
<1>1. ~timedOut /\ ~NmTimeout
  BY TimedOutStep
<1>2. n + t + o <= c + 2
  BY <1>1 DEF NmLoad
<1> USE DEF link, history
<1>3. CASE AmDrop \/ AmDisabledInitReq \/ AmModuleAnswer \/ AmInitResult \/ AmTimeout
           \/ UNCHANGED vars
  <2>1. UNCHANGED <<nm, wd, tcpQueue, wifiEvents>>
    BY <1>3 DEF AmDrop, AmDisabledInitReq, AmModuleAnswer, AmInitResult, AmTimeout, vars
  <2>2. n2 = n /\ t2 = t /\ o2 = o /\ c2 = c
    BY <2>1 DEF WdOwed, WdOwes
  <2> HIDE DEF n, t, o, c, n2, t2, o2, c2
  <2> QED
    BY <1>2, <2>2
<1>4. CASE AmInitInitReq
  <2>1. Requested
    BY <1>4, AmInitInitReqEffect, QueueShapes
    DEF StartInv, Forwarded, Started, AmWaits, Finds
  <2> DEFINE m == Msg("INIT_REQ", "AM", TRUE)
  <2>2. m \in Messages
    BY MessageTypes DEF Ids, Tasks
  <2>3. nm'.queue = Send(nm.queue, NmLength, m)
    BY <1>4, AmInitInitReqEffect DEF NmBecomes
  <2> HIDE DEF m
  <2>4. UNCHANGED <<wd, tcpQueue, wifiEvents>>
    BY <1>4 DEF AmInitInitReq
  <2>5. n = 0 /\ t = 0 /\ ~WdOwes /\ wifiEvents = 0
    BY <2>1 DEF Requested, NothingStarted, WdOwes
  <2>6. n2 \in Nat /\ n2 <= n + 1 /\ t2 = 0 /\ o2 = 0 /\ c2 = 0
    <3>1. n2 \in Nat /\ n2 <= n + 1
      BY <2>2, <2>3, LoadNumbers
    <3>2. t2 = 0 /\ c2 = 0 /\ ~WdOwes'
      BY <2>4, <2>5 DEF WdOwes
    <3> QED
      BY <1>0, <3>1, <3>2
  <2> HIDE DEF n, t, o, c, n2, t2, o2, c2
  <2> QED
    BY <2>5, <2>6
<1>5. CASE NmInitInitReq
  <2>1. Forwarded
    BY <1>5, NmInitInitReqEffect, QueueShapes
    DEF StartInv, Requested, Started, NmCounts, Finds
  <2>2. nm'.queue = Tail(nm.queue) /\ nm.queue # <<>>
    BY <1>5, NmInitInitReqEffect DEF NmBecomes, Finds
  <2>3. n2 = 0
    BY <2>1, <2>2, LoadNumbers DEF Forwarded
  <2>4. tcpQueue' = Append(<<>>, "INIT_REQ") /\ c2 = 0
    BY <1>5, <2>1 DEF NmInitInitReq, Forwarded, NothingStarted
  <2>5. t2 = 1
    <3>1. Len(Append(<<>>, "INIT_REQ")) = 1
      OBVIOUS
    <3> QED
      BY <2>4, <3>1
  <2> HIDE DEF n, t, o, c, n2, t2, o2, c2
  <2> QED
    BY <1>0, <2>3, <2>4, <2>5
<1>6. CASE NmDrop \/ NmWifiConnectStatus
  <2>1. nm.queue # <<>> /\ nm'.queue = Tail(nm.queue)
    BY <1>6, NmDropEffect, NmWifiConnectStatusEffect DEF NmBecomes, Finds
  <2>2. UNCHANGED <<wd, tcpQueue, wifiEvents>>
    BY <1>6 DEF NmDrop, NmWifiConnectStatus
  <2>3. n2 = n - 1 /\ t2 = t /\ o2 = o /\ c2 = c
    BY <2>1, <2>2, LoadNumbers DEF WdOwes, WdOwed
  <2> HIDE DEF n, t, o, c, n2, t2, o2, c2
  <2> QED
    BY <1>0, <1>2, <2>3
<1>7. CASE NmDisabledInitReq \/ NmModuleAnswer \/ NmTimeoutInit
  <2>1. nm.queue # <<>>
    BY <1>7 DEF NmDisabledInitReq, NmModuleAnswer, NmTimeoutInit, Takes
  <2>2. \/ nm'.queue = Tail(nm.queue)
        \/ \E m \in Messages : nm'.queue = Send(Tail(nm.queue), NmLength, m)
    <3>1. /\ Msg("INIT_REQ", "NM", TRUE) \in Messages
          /\ Msg("NETWORK_MANAGER_INIT_RES", "NM", TRUE) \in Messages
      BY MessageTypes DEF Ids, Tasks
    <3> QED
      BY <1>7, <3>1, NmDisabledInitReqEffect, NmModuleAnswerEffect, NmTimeoutInitEffect
      DEF NmBecomes
  <2>3. UNCHANGED <<wd, tcpQueue, wifiEvents>>
    BY <1>7 DEF NmDisabledInitReq, NmModuleAnswer, NmTimeoutInit
  <2>4. n2 = n \/ n2 = n - 1
    <3>1. CASE nm'.queue = Tail(nm.queue)
      BY <2>1, <3>1, LoadNumbers
    <3>2. CASE \E m \in Messages : nm'.queue = Send(Tail(nm.queue), NmLength, m)
      BY <2>1, <3>2, LoadNumbers
    <3> QED
      BY <2>2, <3>1, <3>2
  <2>5. t2 = t /\ o2 = o /\ c2 = c
    BY <2>3 DEF WdOwes, WdOwed
  <2> HIDE DEF n, t, o, c, n2, t2, o2, c2
  <2> QED
    BY <1>0, <1>2, <2>4, <2>5
<1>8. CASE NmInitResult
  <2>1. nm.queue # <<>> /\ Head(nm.queue).id = "NETWORK_MANAGER_INIT_RES"
        /\ nm'.queue = Tail(nm.queue)
        /\ wd'.queue = (IF nm.wifiInitStatus THEN wd.queue
                        ELSE Send(wd.queue, WdLength, Msg("DEINIT_REQ", "NM", TRUE)))
        /\ wd'.at = wd.at
    BY <1>8, NmInitResultEffect DEF NmBecomes, WdBecomes, Finds
  <2>2. nm.wifiInitStatus
    BY <1>1, <2>1, QueueShapes DEF StartInv, Requested, Forwarded, Started, NoTimeoutYet
  <2>3. UNCHANGED <<tcpQueue, wifiEvents>>
    BY <1>8 DEF NmInitResult
  <2>4. n2 = n - 1 /\ t2 = t /\ o2 = o /\ c2 = c
    BY <2>1, <2>2, <2>3, LoadNumbers DEF WdOwes, WdOwed
  <2> HIDE DEF n, t, o, c, n2, t2, o2, c2
  <2> QED
    BY <1>0, <1>2, <2>4
<1>9. CASE WdStart \/ WdSetCallback
  <2>1. WdOwes
    BY <1>9 DEF WdStart, WdSetCallback, Takes, WdOwes
  <2>2. UNCHANGED <<nm, tcpQueue, wifiEvents>>
    BY <1>9 DEF WdStart, WdSetCallback
  <2>3. n2 = n /\ t2 = t /\ o = 1 /\ c2 = c
    BY <1>0, <2>1, <2>2
  <2> HIDE DEF n, t, o, c, n2, t2, o2, c2
  <2> QED
    BY <1>0, <1>2, <2>3
<1>10. CASE WdAnswer
  <2>1. /\ wd.at = "answer" /\ wd'.queue = wd.queue /\ wd'.at = "receive"
        /\ nm'.queue = Send(nm.queue, NmLength, Msg("INIT_RES", "WD", TRUE))
    BY <1>10, WdAnswerEffect DEF WdAnswer, WdBecomes, NmBecomes
  <2>2. UNCHANGED <<tcpQueue, wifiEvents>>
    BY <1>10 DEF WdAnswer
  <2>3. Started
    BY <2>1 DEF StartInv, Requested, Forwarded, NothingStarted
  <2>4. wd.queue = <<>>
    <3>1. DOMAIN wd.queue = {}
      BY <1>1, <2>1, <2>3, NoFailureYet DEF Started, WdWorks
    <3> QED
      BY <3>1, QueueShapes
  <2>5. WdOwes /\ ~WdOwes'
    BY <2>1, <2>4 DEF WdOwes
  <2>6. Msg("INIT_RES", "WD", TRUE) \in Messages
    BY MessageTypes DEF Ids, Tasks
  <2>7. n2 \in Nat /\ n2 <= n + 1
    BY <2>1, <2>6, LoadNumbers
  <2>8. t2 = t /\ o = 1 /\ o2 = 0 /\ c2 = c
    BY <1>0, <2>2, <2>5
  <2> HIDE DEF n, t, o, c, n2, t2, o2, c2
  <2> QED
    BY <1>0, <1>2, <2>7, <2>8
<1>11. ~WdDeinit
  <2> SUFFICES ASSUME WdDeinit PROVE FALSE
    OBVIOUS
  <2>1. wd.queue # <<>> /\ Head(wd.queue).id = "DEINIT_REQ"
    BY DEF WdDeinit, Takes
  <2>2. Started
    BY <2>1 DEF StartInv, Requested, Forwarded, NothingStarted
  <2> QED
    BY <1>1, <2>1, <2>2, NoFailureYet, QueueShapes
<1>12. CASE TcpAnswer
  <2>1. nm'.queue = Send(nm.queue, NmLength, Msg("INIT_RES", "TCP", TRUE))
    BY <1>12, TcpAnswerEffect DEF NmBecomes
  <2>2. tcpQueue # <<>> /\ tcpQueue' = Tail(tcpQueue) /\ UNCHANGED <<wd, wifiEvents>>
    BY <1>12 DEF TcpAnswer
  <2>3. Msg("INIT_RES", "TCP", TRUE) \in Messages
    BY MessageTypes DEF Ids, Tasks
  <2>4. n2 \in Nat /\ n2 <= n + 1
    BY <2>1, <2>3, LoadNumbers
  <2>5. t2 = t - 1
    <3>1. tcpQueue \in Seq({"INIT_REQ"})
      BY DEF TypeOK
    <3> QED
      BY <2>2, <3>1
  <2>6. o2 = o /\ c2 = c
    BY <2>2 DEF WdOwes, WdOwed
  <2> HIDE DEF n, t, o, c, n2, t2, o2, c2
  <2> QED
    BY <1>0, <1>2, <2>4, <2>5, <2>6
<1>13. CASE \E up \in BOOLEAN : WifiEvent(up)
  <2>1. PICK up \in BOOLEAN : WifiEvent(up)
    BY <1>13
  <2>2. UNCHANGED <<wd, tcpQueue>> /\ wifiEvents' = wifiEvents + 1
    BY <2>1 DEF WifiEvent
  <2>3. Msg("NETWORK_MANAGER_WIFI_CONNECT_STATUS", "WD", up) \in Messages
    BY MessageTypes DEF Ids, Tasks
  <2>4. n2 \in Nat /\ n2 <= n + 1
    <3>1. CASE up \in callbacks
      BY <2>1, <2>3, <3>1, WifiEventEffect, LoadNumbers DEF NmBecomes
    <3>2. CASE up \notin callbacks
      <4>1. n2 = n
        BY <2>1, <3>2, WifiEventEffect
      <4> HIDE DEF n, n2
      <4> QED
        BY <1>0, <4>1
    <3> QED
      BY <3>1, <3>2
  <2>5. t2 = t /\ o2 = o /\ c2 = c + 1
    BY <2>2 DEF WdOwes, WdOwed
  <2> HIDE DEF n, t, o, c, n2, t2, o2, c2
  <2> QED
    BY <1>0, <1>2, <2>4, <2>5
<1> QED
  BY <1>1, <1>3, <1>4, <1>5, <1>6, <1>7, <1>8, <1>9, <1>10, <1>11, <1>12, <1>13
  DEF Next, AmStep, NmStep, WdStep

LEMMA NextFails ==
  ASSUME QueuesFit, TypeOK, StartInv, NmLoad, FailsOnlyAfterTimeout, [Next]_vars
  PROVE  FailsOnlyAfterTimeout'
<1> SUFFICES ASSUME ~timedOut', Next PROVE ~halted'
  BY DEF FailsOnlyAfterTimeout, vars
<1> DEFINE n == Len(nm.queue)
           t == Len(tcpQueue)
           o == WdOwed
<1>0. /\ n \in Nat /\ t \in Nat /\ wifiEvents \in Nat
      /\ wifiEvents <= MaxWifiEvents /\ MaxWifiEvents \in Nat
      /\ AmLength \in Nat /\ NmLength \in Nat /\ AmLength >= 2
      /\ NmLength >= MaxWifiEvents + 2 /\ Len(am.queue) \in Nat
      /\ WdLength \in Nat /\ WdLength >= 1
  BY LoadNumbers, InRecords, LengthsAssumption, WifiEventsAssumption
  DEF QueuesFit, TypeOK
<1>1. ~timedOut /\ ~NmTimeout /\ ~halted
  BY TimedOutStep DEF Next
<1>2. /\ n + t + o <= wifiEvents + 2
      /\ o \in {0, 1} /\ (WdOwes => o = 1)
  BY <1>1, OwedNumbers DEF NmLoad
<1>3. /\ am.queue # <<>> => ~Full(Tail(am.queue), AmLength)
      /\ nm.queue # <<>> => ~Full(Tail(nm.queue), NmLength)
  <2>1. am.queue # <<>> => Len(Tail(am.queue)) = Len(am.queue) - 1
    BY QueueShapes
  <2>2. Len(am.queue) <= AmLength /\ Len(nm.queue) <= NmLength
    BY InRecords
  <2> QED
    BY <1>0, <2>1, <2>2, LoadNumbers DEF Full
<1>4. CASE AmDrop \/ NmDrop \/ NmWifiConnectStatus \/ WdStart \/ WdSetCallback
  BY <1>1, <1>4 DEF AmDrop, NmDrop, NmWifiConnectStatus, WdStart, WdSetCallback
<1>5. CASE AmDisabledInitReq
  BY <1>3, <1>5, AmDisabledInitReqEffect DEF Finds
<1>6. CASE AmInitInitReq
  <2>1. Requested
    BY <1>6, AmInitInitReqEffect, QueueShapes
    DEF StartInv, Forwarded, Started, AmWaits, Finds
  <2>2. ~Full(nm.queue, NmLength)
    BY <1>0, <2>1 DEF Requested, Full
  <2> QED
    BY <1>6, <2>2, AmInitInitReqEffect
<1>7. CASE AmModuleAnswer
  <2>1. am.queue # <<>> /\ Head(am.queue).id = "INIT_RES"
    BY <1>7 DEF AmModuleAnswer, Takes
  <2>2. Head(am.queue).src = "NM"
    BY <2>1, QueueShapes DEF StartInv, Requested, Forwarded, Started, AmWaits
  <2> QED
    BY <1>3, <1>7, <2>1, <2>2, AmModuleAnswerEffect
<1>8. CASE AmInitResult
  <2>1. am.queue # <<>> /\ Head(am.queue).id = "APP_MANAGER_INIT_RES"
    BY <1>8 DEF AmInitResult, Takes
  <2>2. Started
    BY <2>1, QueueShapes DEF StartInv, Requested, Forwarded
  <2>3. answers = 1 /\ Head(am.queue).ok = nm.wifiInitStatus
    BY <2>1, <2>2, QueueShapes DEF Started, AmWaits
  <2>4. Head(am.queue).ok
    BY <1>1, <2>2, <2>3 DEF Started, NoTimeoutYet
  <2> QED
    BY <1>1, <1>8, <2>4, AmInitResultEffect
<1>9. CASE AmTimeout
  <2>1. Len(am.queue) <= 1
    <3>1. CASE Forwarded
      BY <3>1 DEF Forwarded
    <3>2. CASE Started
      <4>1. \A i, j \in DOMAIN am.queue : i = j
        BY <1>9, <3>2 DEF AmTimeout, Started, AmWaits
      <4>2. am.queue \in Seq(Messages)
        BY QueueShapes
      <4> QED
        BY <4>1, <4>2, SingleShape
    <3> QED
      BY <1>9, <3>1, <3>2 DEF StartInv, Requested, AmTimeout
  <2>2. ~Full(am.queue, AmLength)
    BY <1>0, <2>1 DEF Full
  <2> QED
    BY <1>9, <2>2, AmTimeoutEffect
<1>10. CASE NmDisabledInitReq
  BY <1>3, <1>10, NmDisabledInitReqEffect DEF Finds
<1>11. CASE NmInitInitReq
  <2>1. Forwarded
    BY <1>11, NmInitInitReqEffect, QueueShapes
    DEF StartInv, Requested, Started, NmCounts, Finds
  <2>2. ~Full(wd.queue, WdLength)
    BY <1>0, <2>1 DEF Forwarded, NothingStarted, Full
  <2> QED
    BY <1>11, <2>2, NmInitInitReqEffect
<1>12. CASE NmModuleAnswer
  BY <1>1, <1>3, <1>12, NmModuleAnswerEffect DEF Finds
<1>13. CASE NmTimeoutInit
  BY <1>3, <1>13, NmTimeoutInitEffect DEF Finds
<1>14. CASE NmInitResult
  <2>1. nm.queue # <<>> /\ Head(nm.queue).id = "NETWORK_MANAGER_INIT_RES"
        /\ "NETWORK_MANAGER_INIT_RES" \in NmHandlers[nm.state]
    BY <1>14 DEF NmInitResult, Takes, HasHandler
  <2>2. Started
    BY <2>1, QueueShapes DEF StartInv, Requested, Forwarded
  <2>3. nm.wifiInitStatus
    BY <1>1, <2>1, <2>2, QueueShapes DEF Started, NoTimeoutYet
  <2>4. answers = 0
    BY <2>1, <2>2, TableContents DEF Started, NmCounts
  <2>5. \A i, j \in DOMAIN am.queue : i = j
    BY <2>2, <2>4 DEF Started, AmWaits
  <2>6. Len(am.queue) <= 1
    <3>1. am.queue \in Seq(Messages)
      BY QueueShapes
    <3> QED
      BY <2>5, <3>1, SingleShape
  <2>7. ~Full(am.queue, AmLength)
    BY <1>0, <2>6 DEF Full
  <2> QED
    BY <1>14, <2>3, <2>7, NmInitResultEffect
<1>15. CASE WdAnswer
  <2>1. WdOwes
    BY <1>15 DEF WdAnswer, WdOwes
  <2>2. n < NmLength
    <3> HIDE DEF n, t, o
    <3> QED
      BY <1>0, <1>2, <2>1
  <2>3. ~Full(nm.queue, NmLength)
    BY <1>0, <2>2 DEF Full
  <2> QED
    BY <1>15, <2>3, WdAnswerEffect
<1>16. ~WdDeinit
  <2> SUFFICES ASSUME WdDeinit PROVE FALSE
    OBVIOUS
  <2>1. wd.queue # <<>> /\ Head(wd.queue).id = "DEINIT_REQ"
    BY DEF WdDeinit, Takes
  <2>2. Started
    BY <2>1 DEF StartInv, Requested, Forwarded, NothingStarted
  <2> QED
    BY <1>1, <2>1, <2>2, NoFailureYet, QueueShapes
<1>17. CASE TcpAnswer
  <2>1. t >= 1
    <3>1. tcpQueue \in Seq({"INIT_REQ"}) /\ tcpQueue # <<>>
      BY <1>17 DEF TypeOK, TcpAnswer
    <3> QED
      BY <3>1
  <2>2. n < NmLength
    <3> HIDE DEF n, t, o
    <3> QED
      BY <1>0, <1>2, <2>1
  <2>3. ~Full(nm.queue, NmLength)
    BY <1>0, <2>2 DEF Full
  <2> QED
    BY <1>17, <2>3, TcpAnswerEffect
<1>18. CASE \E up \in BOOLEAN : WifiEvent(up)
  <2>1. PICK up \in BOOLEAN : WifiEvent(up)
    BY <1>18
  <2>2. wifiEvents < MaxWifiEvents
    BY <2>1 DEF WifiEvent
  <2>3. n < NmLength
    <3> HIDE DEF n, t, o
    <3> QED
      BY <1>0, <1>2, <2>2
  <2>4. ~Full(nm.queue, NmLength)
    BY <1>0, <2>3 DEF Full
  <2> QED
    BY <1>1, <2>1, <2>4, WifiEventEffect
<1> QED
  BY <1>1, <1>4, <1>5, <1>6, <1>7, <1>8, <1>9, <1>10, <1>11, <1>12, <1>13, <1>14,
     <1>15, <1>16, <1>17, <1>18
  DEF Next, AmStep, NmStep, WdStep

\* Before the network manager's timer fires no assertion fails, whatever the
\* order of the answers and of the link changes (app_manager.c 198,
\* network_manager.c 188-238).
THEOREM FailureNeedsTimeout ==
  ASSUME QueuesFit
  PROVE  Spec => []FailsOnlyAfterTimeout
<1>1. Init => NmLoad /\ FailsOnlyAfterTimeout
  <2> SUFFICES ASSUME Init PROVE NmLoad /\ FailsOnlyAfterTimeout
    OBVIOUS
  <2>1. nm.queue = <<>> /\ tcpQueue = <<>> /\ wifiEvents = 0 /\ ~halted
    BY DEF Init
  <2>2. wd.at = "receive" /\ wd.queue = <<>>
    BY DEF Init
  <2>3. WdOwed = 0
    BY <2>2 DEF WdOwed, WdOwes
  <2>4. Len(nm.queue) = 0 /\ Len(tcpQueue) = 0
    BY <2>1
  <2> QED
    BY <2>1, <2>3, <2>4 DEF NmLoad, FailsOnlyAfterTimeout
<1>2. TypeOK /\ StartInv /\ NmLoad /\ FailsOnlyAfterTimeout /\ [Next]_vars
        => NmLoad' /\ FailsOnlyAfterTimeout'
  BY NextLoad, NextFails
<1> QED
  BY <1>1, <1>2, StartAlways, PTL DEF Spec
=============================================================================
