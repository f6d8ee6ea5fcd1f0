------------------------- MODULE DeviceManagerProofs -------------------------
(***************************************************************************)
(* Proofs about the device manager, for any valves, any number and size of *)
(* messages and any number of pulses.                                      *)
(***************************************************************************)
EXTENDS DeviceManager, TLAPS, SequenceTheorems, FiniteSetTheorems

-----------------------------------------------------------------------------
(* The flow of a report.                                                   *)

\* More pulses are never less flow.
LEMMA FlowGrows ==
  ASSUME NEW m \in Nat, NEW n \in Nat, m <= n
  PROVE  FlowOf(m) \in Nat /\ FlowOf(n) \in Nat /\ FlowOf(m) <= FlowOf(n)
  BY DEF FlowOf

FlowTypes ==
  /\ state \in DOMAIN Handlers
  /\ {counter, flow, resets} \subseteq Nat
  /\ draft.flow \in Nat /\ draft.resets \in Nat
  /\ posted.flow \in Nat /\ posted.resets \in Nat
  /\ draft = [valves |-> draft.valves, flow |-> draft.flow, resets |-> draft.resets]

\* What is reported at r is no more than what was measured since as many resets.
NotAhead(r, f, n) == r.resets <= n /\ (r.resets = n => r.flow <= f)

FlowInv ==
  /\ FlowTypes
  /\ flow <= FlowOf(counter)
  /\ NotAhead(posted, flow, resets)
  /\ at = "publish" =>
       /\ NotAhead(draft, flow, resets)
       /\ NotAhead(posted, draft.flow, draft.resets)

LEMMA FlowInit == Init => FlowInv
  BY DEF Init, FlowInv, FlowTypes, NotAhead, NoReport, FlowOf, Handlers

LEMMA FlowStep == FlowInv /\ [Next]_vars => FlowInv'
<1> SUFFICES ASSUME FlowInv, [Next]_vars PROVE FlowInv'
  OBVIOUS
<1> USE DEF FlowInv, FlowTypes, NotAhead
<1>1. CASE Receive
  <2>1. at' # "publish"
    BY <1>1 DEF Receive, HasHandler, Handlers, Periodic
  <2> QED
    BY <1>1, <2>1 DEF Receive, sensor, client
<1>2. CASE DisabledInit
  BY <1>2 DEF DisabledInit, Handlers, sensor, client
<1>3. CASE Measure
  BY <1>3 DEF Measure, sensor, client
<1>4. CASE PostBegin
  BY <1>4 DEF PostBegin, sensor, client, NoReport
<1>5. CASE PostValve
  <2>1. PICK v : draft' = [draft EXCEPT !.valves = v]
    BY <1>5 DEF PostValve
  <2>2. draft' = [valves |-> v, flow |-> draft.flow, resets |-> draft.resets]
    BY <2>1
  <2>3. /\ at' = "valves"
        /\ UNCHANGED <<state, posted, counter, flow, resets>>
    BY <1>5 DEF PostValve, sensor, client
  <2>4. /\ draft'.flow = draft.flow /\ draft'.resets = draft.resets
        /\ draft' = [valves |-> draft'.valves, flow |-> draft'.flow, resets |-> draft'.resets]
    BY <2>2
  <2> QED
    BY <2>3, <2>4
<1>6. CASE PostFlow
  <2>1. /\ draft'.flow = flow /\ draft'.resets = resets
        /\ draft' = [valves |-> draft'.valves, flow |-> draft'.flow, resets |-> draft'.resets]
    BY <1>6 DEF PostFlow
  <2>2. UNCHANGED <<state, posted, counter, flow, resets>>
    BY <1>6 DEF PostFlow, sensor, client
  <2> QED
    BY <2>1, <2>2
<1>7. CASE Publish
  BY <1>7 DEF Publish, PostEnds, sensor, client, NoReport
<1>8. CASE PublishFails
  BY <1>8 DEF PublishFails, PostEnds, sensor, client, NoReport
<1>9. CASE \E t \in Periodic : TimerFires(t)
  BY <1>9 DEF TimerFires, sensor, client
<1>10. CASE \E m \in Names \cup {"flow"} : Command(m)
  BY <1>10 DEF Command, task, sensor
<1>11. CASE SetTopic
  BY <1>11 DEF SetTopic, task, sensor
<1>12. CASE SkipMember \/ SetValue \/ SetLevel
  BY <1>12 DEF SkipMember, SetValue, SetLevel, task, sensor
<1>13. CASE ResetFlow
  <2>1. FlowOf(counter) \in Nat
    BY FlowGrows
  <2> QED
    BY <1>13, <2>1 DEF ResetFlow, task
<1>14. CASE PulseCounted
  <2>1. FlowOf(counter) <= FlowOf(counter + 1) /\ FlowOf(counter) \in Nat /\ FlowOf(counter + 1) \in Nat
    BY FlowGrows
  <2> QED
    BY <1>14, <2>1 DEF PulseCounted, task, client
<1>15. CASE PulseStored
  <2>1. FlowOf(counter) \in Nat
    BY FlowGrows
  <2> QED
    BY <1>15, <2>1 DEF PulseStored, task, client
<1>16. CASE UNCHANGED vars
  BY <1>16 DEF vars
<1> QED
  BY <1>1, <1>2, <1>3, <1>4, <1>5, <1>6, <1>7, <1>8, <1>9, <1>10, <1>11, <1>12,
     <1>13, <1>14, <1>15, <1>16 DEF Next, Task, Execute

LEMMA FlowAlways == Spec => []FlowInv
  BY FlowInit, FlowStep, PTL DEF Spec

\* Only the publication of a report changes what the broker has, ...
LEMMA OnlyPublish == [Next]_vars => UNCHANGED posted \/ Publish
  BY DEF Next, Task, Execute, vars, task, Receive, DisabledInit, Measure,
         PostBegin, PostValve, PostFlow, PublishFails, TimerFires, Command,
         SetTopic, SkipMember, SetValue, SetLevel, ResetFlow, PulseCounted, PulseStored

\* The reported flow goes down only after a reset, however pulses and resets
\* come between the steps of a report (water_flow_sensor.c 54-63, 112-115,
\* device_manager.c 254-282).
THEOREM FlowMonotonic == Spec => FlowDropsByReset
<1>1. FlowInv /\ [Next]_vars => [posted'.flow < posted.flow => posted'.resets > posted.resets]_vars
  <2> SUFFICES ASSUME FlowInv, [Next]_vars, posted'.flow < posted.flow
               PROVE  posted'.resets > posted.resets
    OBVIOUS
  <2>1. CASE UNCHANGED posted
    BY <2>1 DEF FlowInv, FlowTypes
  <2>2. CASE Publish
    BY <2>2 DEF Publish, FlowInv, FlowTypes, NotAhead
  <2> QED
    BY <2>1, <2>2, OnlyPublish
<1> QED
  BY <1>1, FlowAlways, PTL DEF Spec, FlowDropsByReset

-----------------------------------------------------------------------------
(* The two activities.                                                     *)

Places(q, e) == {i \in DOMAIN q : q[i] = e}

Handling(e, p) == p = e \/ (e = "POST" /\ p \in {"valves", "publish"})

\* Activity e goes on in exactly one place: in its timer, in the queue, or in
\* the task.
Once(q, ts, p, e) ==
  \/ e \in ts /\ Places(q, e) = {} /\ ~Handling(e, p)
  \/ e \notin ts /\ (\E i \in DOMAIN q : Places(q, e) = {i}) /\ ~Handling(e, p)
  \/ e \notin ts /\ Places(q, e) = {} /\ Handling(e, p)

OnceTypes ==
  /\ state \in DOMAIN Handlers
  /\ queue \in Seq(Events) /\ at \in Points /\ timers \subseteq Periodic

\* Before INIT_REQ is handled nothing else is in the queue.
OnceInv ==
  /\ OnceTypes
  /\ state = "DISABLED" =>
       /\ timers = {}
       /\ \/ queue = <<"INIT_REQ">> /\ at = "receive"
          \/ queue = <<>> /\ at = "INIT_REQ"
  /\ state = "IDLE" =>
       /\ queue \in Seq(Periodic) /\ at # "INIT_REQ"
       /\ \A e \in Periodic : Once(queue, timers, at, e)

LEMMA OnceIsOne ==
  ASSUME NEW e \in Periodic, Once(queue, timers, at, e), timers \subseteq Periodic
  PROVE  Strands(e) = 1
<1>1. {e} \cap timers = (IF e \in timers THEN {e} ELSE {})
  OBVIOUS
<1>2. Cardinality({}) = 0 /\ \A x : Cardinality({x}) = 1
  BY FS_EmptySet, FS_Singleton
<1>3. Cardinality({e} \cap timers) = IF e \in timers THEN 1 ELSE 0
  BY <1>1, <1>2
<1>4. Cardinality(Places(queue, e)) =
        IF \E i \in DOMAIN queue : Places(queue, e) = {i} THEN 1 ELSE 0
  BY <1>2 DEF Once
<1>5. Strands(e) = Cardinality(Places(queue, e)) + Cardinality({e} \cap timers)
                   + (IF Handling(e, at) THEN 1 ELSE 0)
  BY DEF Strands, Places, Handling
<1> QED
  BY <1>3, <1>4, <1>5 DEF Once

\* Posting an event puts it behind the others, in a place of its own.
LEMMA AppendPlaces ==
  ASSUME NEW q \in Seq(Periodic), NEW e \in Periodic, NEW f \in Periodic
  PROVE  Places(Append(q, f), e) =
           Places(q, e) \cup (IF e = f THEN {Len(q) + 1} ELSE {})
  BY DEF Places

\* Receiving moves what is behind the head by one place.
LEMMA TailPlaces ==
  ASSUME NEW q \in Seq(Periodic), q # <<>>, NEW e \in Periodic
  PROVE  /\ Places(q, e) = {} => Places(Tail(q), e) = {} /\ Head(q) # e
         /\ \A i \in DOMAIN q : Places(q, e) = {i} =>
              IF Head(q) = e THEN Places(Tail(q), e) = {}
              ELSE i - 1 \in DOMAIN Tail(q) /\ Places(Tail(q), e) = {i - 1}
<1>1. /\ Head(q) = q[1] /\ 1 \in DOMAIN q
      /\ DOMAIN Tail(q) = 1..(Len(q) - 1) /\ DOMAIN q = 1..Len(q) /\ Len(q) \in Nat
      /\ \A j \in DOMAIN Tail(q) : Tail(q)[j] = q[j + 1]
  OBVIOUS
<1>2. ASSUME Places(q, e) = {}
      PROVE  Places(Tail(q), e) = {} /\ Head(q) # e
  BY <1>1, <1>2 DEF Places
<1>3. ASSUME NEW i \in DOMAIN q, Places(q, e) = {i}, Head(q) = e
      PROVE  Places(Tail(q), e) = {}
  <2>1. 1 \in Places(q, e)
    BY <1>1, <1>3 DEF Places
  <2>2. ASSUME NEW j \in Places(Tail(q), e) PROVE j + 1 \in Places(q, e) /\ j + 1 # 1
    BY <1>1, <2>2 DEF Places
  <2> QED
    BY <1>3, <2>1, <2>2
<1>4. ASSUME NEW i \in DOMAIN q, Places(q, e) = {i}, Head(q) # e
      PROVE  i - 1 \in DOMAIN Tail(q) /\ Places(Tail(q), e) = {i - 1}
  <2>1. i # 1 /\ q[i] = e
    BY <1>1, <1>4 DEF Places
  <2>2. i - 1 \in DOMAIN Tail(q) /\ Tail(q)[i - 1] = e
    BY <1>1, <2>1
  <2>3. ASSUME NEW j \in Places(Tail(q), e) PROVE j = i - 1
    <3>1. j \in Int /\ j + 1 \in Places(q, e)
      BY <1>1, <2>3 DEF Places
    <3> QED
      BY <1>1, <1>4, <3>1
  <2> QED
    BY <2>2, <2>3 DEF Places
<1> QED
  BY <1>2, <1>3, <1>4

\* While the timer of an activity runs the queue holds the other one at most.
LEMMA RoomForTimer ==
  ASSUME NEW t \in Periodic, NEW q \in Seq(Periodic), Places(q, t) = {},
         \A e \in Periodic : Once(q, timers, at, e)
  PROVE  ~Full(q, QueueLength)
<1>1. PICK u \in Periodic : u # t /\ Periodic = {t, u}
  BY DEF Periodic
<1>2. \A i \in DOMAIN q : q[i] = u
  BY <1>1 DEF Places
<1>3. \A i, j \in DOMAIN q : i = j
  BY <1>2 DEF Places, Once
<1>4. Len(q) <= 1
  <2> SUFFICES ASSUME Len(q) > 1 PROVE FALSE
    OBVIOUS
  <2> 1 \in DOMAIN q /\ 2 \in DOMAIN q
    OBVIOUS
  <2> QED
    BY <1>3
<1> QED
  BY <1>4, QueueAssumption DEF Full

LEMMA OnceInit == Init => OnceInv
  BY DEF Init, OnceInv, OnceTypes, Handlers, Events, Points

LEMMA OnceStep == OnceInv /\ [Next]_vars => OnceInv'
<1> SUFFICES ASSUME OnceInv, [Next]_vars PROVE OnceInv'
  OBVIOUS
<1> USE DEF OnceInv, OnceTypes
<1>1. CASE Receive
  <2>1. CASE state = "DISABLED"
    <3>1. queue = <<"INIT_REQ">> /\ at = "receive"
      BY <1>1, <2>1 DEF Receive
    <3>2. /\ Head(queue) = "INIT_REQ" /\ Tail(queue) = <<>>
          /\ HasHandler(Handlers, state, Head(queue))
      BY <2>1, <3>1 DEF HasHandler, Handlers
    <3>3. at' = "INIT_REQ" /\ queue' = <<>> /\ UNCHANGED <<state, timers>>
      BY <1>1, <3>2 DEF Receive
    <3> QED
      BY <2>1, <3>3 DEF Handlers, Points, Events
  <2>2. CASE state = "IDLE"
    <3>1. /\ queue # <<>> /\ queue' = Tail(queue)
          /\ at = "receive" /\ at' = Head(queue)
          /\ Head(queue) \in Periodic /\ Tail(queue) \in Seq(Periodic)
          /\ UNCHANGED <<state, timers>>
      BY <1>1, <2>2 DEF Receive, HasHandler, Handlers
    <3>2. ASSUME NEW e \in Periodic PROVE Once(queue', timers', at', e)
      <4>1. Once(queue, timers, at, e) /\ ~Handling(e, at)
        BY <2>2, <3>1 DEF Handling, Periodic
      <4>2. Handling(e, at') <=> Head(queue) = e
        BY <3>1 DEF Handling, Periodic
      <4> QED
        BY <2>2, <3>1, <4>1, <4>2, TailPlaces DEF Once
    <3> QED
      BY <2>2, <3>1, <3>2 DEF Points, Events, Periodic
  <2> QED
    BY <2>1, <2>2 DEF Handlers
<1>2. CASE DisabledInit
  <2>1. queue = <<>> /\ timers = {} /\ timers' = {} /\ at' = "receive" /\ state' = "IDLE"
    BY <1>2 DEF DisabledInit, Handlers
  <2>2. queue' = Append(<<"MEASURE">>, "POST")
    <3>1. QueueLength \in Nat /\ QueueLength > 1
      BY QueueAssumption
    <3>2. Send(<<>>, QueueLength, "MEASURE") = <<"MEASURE">>
      BY <3>1 DEF Send, Full
    <3>3. Send(<<"MEASURE">>, QueueLength, "POST") = Append(<<"MEASURE">>, "POST")
      BY <3>1 DEF Send, Full
    <3> QED
      BY <1>2, <2>1, <3>2, <3>3 DEF DisabledInit
  <2>3. /\ queue' \in Seq(Periodic) /\ Len(queue') = 2
        /\ queue'[1] = "MEASURE" /\ queue'[2] = "POST"
    BY <2>2 DEF Periodic
  <2>4. Places(queue', "MEASURE") = {1} /\ Places(queue', "POST") = {2}
    BY <2>3 DEF Places
  <2>5. \A e \in Periodic : Once(queue', timers', at', e)
    BY <2>1, <2>3, <2>4 DEF Once, Handling, Periodic
  <2> QED
    BY <2>1, <2>3, <2>5 DEF Handlers, Points, Events, Periodic
<1>3. CASE Measure
  BY <1>3 DEF Measure, AfterMeasure, Once, Handling, Handlers, Points, Periodic
<1>4. CASE PostBegin \/ PostValve \/ PostFlow
  BY <1>4 DEF PostBegin, PostValve, PostFlow, Once, Handling, Handlers, Points, Periodic
<1>5. CASE Publish \/ PublishFails
  BY <1>5 DEF Publish, PublishFails, PostEnds, AfterPost, Once, Handling, Handlers,
              Points, Periodic
<1>6. CASE \E t \in Periodic : TimerFires(t)
  <2>1. PICK t \in Periodic : TimerFires(t)
    BY <1>6
  <2>2. /\ t \in timers /\ timers' = timers \ {t} /\ UNCHANGED <<state, at>>
        /\ queue' = Send(queue, QueueLength, t)
    BY <2>1 DEF TimerFires
  <2>3. state = "IDLE" /\ queue \in Seq(Periodic)
    BY <2>2 DEF Handlers
  <2>4. Places(queue, t) = {} /\ ~Handling(t, at)
    BY <2>2, <2>3 DEF Once
  <2>5. queue' = Append(queue, t)
    BY <2>2, <2>3, <2>4, RoomForTimer DEF Send
  <2>6. queue' \in Seq(Periodic) /\ Len(queue) + 1 \in DOMAIN queue'
        /\ \A i \in DOMAIN queue : i \in DOMAIN queue'
    BY <2>3, <2>5
  <2>7. ASSUME NEW e \in Periodic PROVE Once(queue', timers', at', e)
    <3>1. CASE e = t
      BY <2>2, <2>3, <2>4, <2>5, <2>6, <3>1, AppendPlaces DEF Once
    <3>2. CASE e # t
      <4>1. Places(queue', e) = Places(queue, e) /\ (e \in timers' <=> e \in timers)
        <5>1. Places(Append(queue, t), e) = Places(queue, e) \cup {}
          BY <2>3, <3>2, AppendPlaces
        <5> QED
          BY <2>2, <2>5, <3>2, <5>1
      <4> QED
        BY <2>2, <2>3, <2>6, <4>1 DEF Once
    <3> QED
      BY <3>1, <3>2
  <2> QED
    BY <2>2, <2>3, <2>6, <2>7 DEF Periodic, Events
<1>7. CASE UNCHANGED <<state, queue, at, timers>>
  BY <1>7
<1>8. CASE \/ \E m \in Names \cup {"flow"} : Command(m)
           \/ SetTopic \/ Execute \/ PulseCounted \/ PulseStored
  BY <1>7, <1>8 DEF Command, SetTopic, Execute, SkipMember, SetValue, SetLevel, ResetFlow,
                    PulseCounted, PulseStored, task
<1> QED
  BY <1>1, <1>2, <1>3, <1>4, <1>5, <1>6, <1>7, <1>8 DEF Next, Task, vars

\* Measuring and reporting go on exactly once each, for every length of the
\* queue from two on: neither handler forgets its timer, no event is dropped, and
\* no second strand begins (device_manager.c 236-282).
THEOREM ActivitiesOnce == Spec => []PeriodicOnce
<1>1. Init => OnceInv
  BY OnceInit
<1>2. OnceInv /\ [Next]_vars => OnceInv'
  BY OnceStep
<1>3. OnceInv => PeriodicOnce
  BY OnceIsOne DEF OnceInv, OnceTypes, PeriodicOnce
<1> QED
  BY <1>1, <1>2, <1>3, PTL DEF Spec

-----------------------------------------------------------------------------
(* The commands.                                                           *)

LEMMA BoundedIsSeq ==
  ASSUME NEW S, NEW n \in Nat, NEW q \in BoundedSeq(S, n)
  PROVE  q \in Seq(S) /\ Len(q) <= n
<1>1. PICK m \in 0..n : q \in [1..m -> S]
  BY DEF BoundedSeq, SeqOf
<1> QED
  BY <1>1

CommandTypes ==
  /\ todo \in Seq(Tokens) /\ next \in 1..(IF todo = <<>> THEN 1 ELSE Len(todo))
  /\ method \in Names \cup {"flow", "none"}
  /\ {value, level, commanded} \subseteq [Names -> BOOLEAN]
  /\ switching \in BOOLEAN
  /\ messages \in 0..MaxMessages

\* The last member of q that has a callback is the k-th.
LastKnown(q, k) == Known(q[k]) /\ \A l \in DOMAIN q : l > k => ~Known(q[l])

\* From the n-th on no member of q has one.
NoneKnown(q, n) == \A l \in DOMAIN q : l >= n => ~Known(q[l])

\* A valve that no member still to be executed in this pass names has been told
\* what the last one said; passes over fewer members change nothing of that.
CommandInv ==
  /\ CommandTypes
  /\ switching => /\ todo # <<>> /\ method \in Names /\ Known(todo[next])
                  /\ value[method] = (todo[next] = "true")
  /\ \A v \in Names : ~(switching /\ v = method) => level[v] = value[v]
  /\ \A v \in Names : v # method \/ NoneKnown(todo, next) => value[v] = commanded[v]
  /\ method \in Names => \A k \in DOMAIN todo :
       LastKnown(todo, k) => commanded[method] = (todo[k] = "true")

\* What is left to execute after a member: as the loop and the recursion go on,
\* the last member with a callback stays the same while it is there.
LEMMA MembersLeft ==
  ASSUME CommandTypes, todo # <<>>, MemberDone
  PROVE  /\ todo' \in Seq(Tokens) /\ next' \in 1..(IF todo' = <<>> THEN 1 ELSE Len(todo'))
         /\ method' \in {method, "none"} /\ (method' = method \/ todo' = <<>>)
         /\ NoneKnown(todo', next') => NoneKnown(todo, next + 1)
         /\ \A k \in DOMAIN todo' : LastKnown(todo', k) =>
              \E l \in DOMAIN todo : LastKnown(todo, l) /\ todo[l] = todo'[k]
<1>1. todo \in Seq(Tokens) /\ next \in 1..Len(todo) /\ Len(todo) \in Nat \ {0}
  BY DEF CommandTypes
<1>2. CASE next < Len(todo)
  <2>1. todo' = todo /\ method' = method /\ next' = next + 1
    BY <1>2 DEF MemberDone
  <2>2. next' \in 1..Len(todo)
    BY <1>1, <1>2, <2>1
  <2> QED
    BY <1>1, <2>1, <2>2
<1>3. CASE ~(next < Len(todo))
  <2>1. todo' = Tail(todo) /\ next' = 1 /\ method' = IF todo' = <<>> THEN "none" ELSE method
    BY <1>3 DEF MemberDone
  <2>2. /\ DOMAIN todo = 1..Len(todo) /\ DOMAIN todo' = 1..(Len(todo) - 1)
        /\ todo' \in Seq(Tokens) /\ Len(todo') = Len(todo) - 1
        /\ \A k \in DOMAIN todo' : todo'[k] = todo[k + 1]
    BY <1>1, <2>1
  <2>3. next' \in 1..(IF todo' = <<>> THEN 1 ELSE Len(todo'))
    BY <2>1, <2>2
  <2>4. NoneKnown(todo, next + 1)
    BY <1>1, <1>3 DEF NoneKnown
  <2>5. ASSUME NEW k \in DOMAIN todo', LastKnown(todo', k)
        PROVE  LastKnown(todo, k + 1) /\ k + 1 \in DOMAIN todo /\ todo[k + 1] = todo'[k]
    <3>1. k + 1 \in DOMAIN todo /\ todo[k + 1] = todo'[k]
      BY <1>1, <2>2
    <3>2. ASSUME NEW l \in DOMAIN todo, l > k + 1 PROVE ~Known(todo[l])
      <4>1. k \in Int /\ l \in Int /\ 1 <= l - 1 /\ l - 1 <= Len(todo) - 1 /\ l - 1 > k
        BY <1>1, <2>2, <2>5, <3>2
      <4>2. l - 1 \in DOMAIN todo' /\ todo'[l - 1] = todo[l - 1 + 1]
        BY <1>1, <2>2, <4>1
      <4> QED
        BY <2>5, <4>1, <4>2 DEF LastKnown
    <3> QED
      BY <2>5, <3>1, <3>2 DEF LastKnown
  <2> QED
    BY <2>1, <2>2, <2>3, <2>4, <2>5
<1> QED
  BY <1>2, <1>3

LEMMA CommandInit == Init => CommandInv
<1> SUFFICES ASSUME Init PROVE CommandInv
  OBVIOUS
<1>1. CommandTypes
  <2>1. messages \in 0..MaxMessages
    BY BoundsAssumption DEF Init
  <2>2. switching = FALSE
    BY Zenon DEF Init
  <2>3. [v \in Names |-> FALSE] \in [Names -> BOOLEAN]
    OBVIOUS
  <2>4. {value, level, commanded} \subseteq [Names -> BOOLEAN]
    BY <2>3 DEF Init
  <2>5. todo \in Seq(Tokens) /\ next \in 1..(IF todo = <<>> THEN 1 ELSE Len(todo)) /\ method = "none"
    BY DEF Init
  <2> QED
    BY <2>1, <2>2, <2>4, <2>5 DEF CommandTypes
<1>2. \A v \in Names : level[v] = value[v] /\ value[v] = commanded[v]
  BY DEF Init
<1>3. ~switching /\ DOMAIN todo = {}
  BY DEF Init
<1> QED
  BY <1>1, <1>2, <1>3 DEF CommandInv

LEMMA CommandStep == CommandInv /\ [Next]_vars => CommandInv'
<1> SUFFICES ASSUME CommandInv, [Next]_vars PROVE CommandInv'
  OBVIOUS
<1>1. CommandTypes /\ "flow" \notin Names
  BY DevicesAssumption DEF CommandInv, Names
\* What leaves the commands and the outputs alone.
<1>2. ASSUME UNCHANGED <<message, outputs, commanded, switching, messages>>
      PROVE  CommandInv'
  BY <1>2 DEF CommandInv, CommandTypes, message, outputs, NoneKnown, LastKnown
\* A member is done that had no callback, or whose valve has been switched.
<1>3. ASSUME todo # <<>>, MemberDone, UNCHANGED <<value, commanded, messages>>,
             switching' = FALSE, level' \in [Names -> BOOLEAN], \A v \in Names : level'[v] = value[v],
             method \notin Names \/ ~Known(todo[next]) \/ value[method] = (todo[next] = "true")
      PROVE  CommandInv'
  <2>1. /\ todo' \in Seq(Tokens) /\ next' \in 1..(IF todo' = <<>> THEN 1 ELSE Len(todo'))
        /\ method' \in {method, "none"} /\ (method' = method \/ todo' = <<>>)
        /\ NoneKnown(todo', next') => NoneKnown(todo, next + 1)
        /\ \A k \in DOMAIN todo' : LastKnown(todo', k) =>
             \E l \in DOMAIN todo : LastKnown(todo, l) /\ todo[l] = todo'[k]
    BY <1>1, <1>3, MembersLeft
  <2>2. CommandTypes'
    BY <1>1, <1>3, <2>1 DEF CommandTypes
  <2>3. next \in DOMAIN todo /\ next \in Int
    BY <1>1, <1>3 DEF CommandTypes
  <2>4. ASSUME method \in Names, NoneKnown(todo, next + 1)
        PROVE  value[method] = commanded[method]
    <3>1. CASE Known(todo[next])
      <4>1. LastKnown(todo, next)
        BY <2>3, <2>4, <3>1, <1>1 DEF LastKnown, NoneKnown, CommandTypes
      <4> QED
        BY <1>3, <2>3, <2>4, <3>1, <4>1 DEF CommandInv
    <3>2. CASE ~Known(todo[next])
      <4>1. NoneKnown(todo, next)
        BY <1>1, <2>3, <2>4, <3>2 DEF NoneKnown, CommandTypes
      <4> QED
        BY <2>4, <4>1 DEF CommandInv
    <3> QED
      BY <3>1, <3>2
  <2>5. ASSUME NEW v \in Names, v # method' \/ NoneKnown(todo', next')
        PROVE  value[v] = commanded[v]
    <3>1. CASE v # method
      BY <3>1 DEF CommandInv
    <3>2. CASE v = method
      <4>1. NoneKnown(todo', next')
        BY <2>1, <2>5, <3>2 DEF NoneKnown
      <4> QED
        BY <2>1, <2>4, <3>2, <4>1
    <3> QED
      BY <3>1, <3>2
  <2>6. ASSUME method' \in Names, NEW k \in DOMAIN todo', LastKnown(todo', k)
        PROVE  commanded[method'] = (todo'[k] = "true")
    <3>1. method' = method
      BY <2>1, <2>6
    <3> QED
      BY <2>1, <2>6, <3>1 DEF CommandInv
  <2> QED
    BY <1>3, <2>2, <2>5, <2>6 DEF CommandInv
<1>4. CASE \E m \in Names \cup {"flow"} : Command(m)
  <2>1. PICK m \in Names \cup {"flow"} : Command(m)
    BY <1>4
  <2>2. CASE state # "IDLE"
    <3>1. UNCHANGED <<todo, next, method, value, level, commanded, switching>> /\ messages' \in 0..MaxMessages
      <4>1. messages' = messages + 1 /\ messages < MaxMessages
        BY <2>1 DEF Command
      <4>2. messages' \in 0..MaxMessages
        BY <1>1, <4>1, BoundsAssumption DEF CommandTypes
      <4> QED
        BY <2>1, <2>2, <4>2 DEF Command, outputs
    <3> QED
      BY <3>1 DEF CommandInv, CommandTypes, NoneKnown, LastKnown
  <2>3. CASE state = "IDLE"
    <3>1. /\ todo = <<>> /\ next = 1 /\ next' = 1 /\ ~switching
          /\ UNCHANGED <<value, level, switching>>
      BY <1>1, <2>1, <2>3 DEF Command, outputs, CommandInv, CommandTypes
    <3>2. todo' \in Seq(Tokens) /\ 1 \in 1..(IF todo' = <<>> THEN 1 ELSE Len(todo'))
      <4>1. todo' \in BoundedSeq(Tokens, MaxTokens)
        BY <2>1, <2>3 DEF Command
      <4> QED
        BY <4>1, BoundedIsSeq, BoundsAssumption
    <3>3. messages' \in 0..MaxMessages
      <4>1. messages' = messages + 1 /\ messages < MaxMessages
        BY <2>1 DEF Command
      <4> QED
        BY <1>1, <4>1, BoundsAssumption DEF CommandTypes
    <3>4. method' = IF todo' = <<>> THEN "none" ELSE m
      BY <2>1, <2>3 DEF Command
    <3>5. \A v \in Names : value[v] = commanded[v] /\ level[v] = value[v]
      BY <3>1 DEF CommandInv, NoneKnown
    <3>6. CASE (\A k \in DOMAIN todo' : ~Known(todo'[k])) /\ UNCHANGED commanded
      <4>1. CommandTypes'
        BY <1>1, <3>1, <3>2, <3>3, <3>4, <3>6 DEF CommandTypes
      <4> QED
        BY <3>1, <3>5, <3>6, <4>1 DEF CommandInv, LastKnown
    <3>7. CASE \E k \in DOMAIN todo' :
                 /\ Known(todo'[k]) /\ \A l \in DOMAIN todo' : l > k => ~Known(todo'[l])
                 /\ commanded' = IF m \in Names
                                 THEN [commanded EXCEPT ![m] = (todo'[k] = "true")]
                                 ELSE commanded
      <4>1. PICK k \in DOMAIN todo' :
                 /\ Known(todo'[k]) /\ \A l \in DOMAIN todo' : l > k => ~Known(todo'[l])
                 /\ commanded' = IF m \in Names
                                 THEN [commanded EXCEPT ![m] = (todo'[k] = "true")]
                                 ELSE commanded
        BY <3>7
      <4>2. method' = m /\ DOMAIN todo' = 1..Len(todo') /\ Len(todo') \in Nat
        BY <3>2, <3>4
      <4>3. /\ commanded' \in [Names -> BOOLEAN]
            /\ \A v \in Names : v # m => commanded'[v] = commanded[v]
            /\ m \in Names => commanded'[m] = (todo'[k] = "true")
        BY <1>1, <4>1 DEF CommandTypes
      <4>4. CommandTypes'
        BY <1>1, <3>1, <3>2, <3>3, <4>2, <4>3 DEF CommandTypes
      <4>5. ~NoneKnown(todo', 1)
        BY <4>1, <4>2 DEF NoneKnown
      <4>6. \A l \in DOMAIN todo' : LastKnown(todo', l) => l = k
        BY <4>1, <4>2 DEF LastKnown
      <4> QED
        BY <3>1, <3>5, <4>2, <4>3, <4>4, <4>5, <4>6 DEF CommandInv
    <3> QED
      BY <2>1, <2>3, <3>6, <3>7 DEF Command
  <2> QED
    BY <2>2, <2>3
<1>5. CASE SetTopic
  <2>1. messages' = messages + 1 /\ messages < MaxMessages
    BY <1>5 DEF SetTopic
  <2>2. messages' \in 0..MaxMessages
    BY <1>1, <2>1, BoundsAssumption DEF CommandTypes
  <2>3. UNCHANGED <<todo, next, method, value, level, commanded, switching>>
    BY <1>5 DEF SetTopic, message, outputs
  <2> QED
    BY <2>2, <2>3 DEF CommandInv, CommandTypes, NoneKnown, LastKnown
<1>6. CASE SkipMember
  <2>1. switching = FALSE
    BY <1>1, <1>6 DEF SkipMember, CommandInv, CommandTypes
  <2> QED
    BY <1>1, <1>3, <1>6, <2>1 DEF SkipMember, CommandInv, CommandTypes, outputs
<1>7. CASE SetValue
  <2>1. /\ todo # <<>> /\ method \in Names /\ Known(todo[next]) /\ switching' = TRUE
        /\ value' = [value EXCEPT ![method] = (todo[next] = "true")]
        /\ UNCHANGED <<todo, next, method, level, commanded, messages>>
    BY <1>7 DEF SetValue, message
  <2>2. /\ value' \in [Names -> BOOLEAN] /\ value'[method] = (todo[next] = "true")
        /\ \A v \in Names : v # method => value'[v] = value[v]
    BY <1>1, <2>1 DEF CommandTypes
  <2>3. ~switching
    BY <1>7 DEF SetValue
  <2>4. ~NoneKnown(todo, next)
    BY <1>1, <2>1 DEF NoneKnown, CommandTypes
  <2>5. CommandTypes'
    BY <1>1, <2>1, <2>2 DEF CommandTypes
  <2> QED
    BY <2>1, <2>2, <2>3, <2>4, <2>5 DEF CommandInv, NoneKnown, LastKnown
<1>8. CASE SetLevel
  <2>1. /\ switching /\ switching' = FALSE /\ MemberDone
        /\ level' = [level EXCEPT ![method] = value[method]]
        /\ UNCHANGED <<value, commanded, messages>>
    BY <1>8 DEF SetLevel
  <2>2. todo # <<>> /\ method \in Names /\ value[method] = (todo[next] = "true")
    BY <2>1 DEF CommandInv
  <2>3. level' \in [Names -> BOOLEAN] /\ \A v \in Names : level'[v] = value[v]
    <3>1. \A v \in Names : v # method => level[v] = value[v]
      BY DEF CommandInv
    <3> QED
      BY <1>1, <2>1, <2>2, <3>1 DEF CommandTypes
  <2> QED
    BY <1>3, <2>1, <2>2, <2>3
<1>9. CASE ResetFlow
  <2>1. /\ todo # <<>> /\ method \notin Names /\ MemberDone
        /\ UNCHANGED <<value, level, commanded, messages, switching>>
    BY <1>1, <1>9 DEF ResetFlow, outputs
  <2>2. switching = FALSE
    BY <1>1, <2>1 DEF CommandInv, CommandTypes
  <2> QED
    BY <1>1, <1>3, <2>1, <2>2 DEF CommandInv, CommandTypes
<1>10. CASE Task \/ Publish \/ PublishFails \/ (\E t \in Periodic : TimerFires(t))
  BY <1>2, <1>10 DEF Task, Receive, DisabledInit, Measure, PostBegin, PostValve, PostFlow,
     Publish, PublishFails, PostEnds, TimerFires, client
<1>11. CASE PulseCounted \/ PulseStored
  BY <1>2, <1>11 DEF PulseCounted, PulseStored, client
<1>12. CASE UNCHANGED vars
  BY <1>2, <1>12 DEF vars, message, outputs
<1> QED
  BY <1>4, <1>5, <1>6, <1>7, <1>8, <1>9, <1>10, <1>11, <1>12 DEF Next, Execute

\* When the client's task is done with a message, each valve, and its pin, is as
\* the last member that named it said, for any number of members and although
\* the loop and the recursion execute them several times
\* (mqtt_json_parser.c 59-118, 200-204, digital_in_out.c 115-126).
THEOREM ValvesObey == Spec => []CommandObeyed
<1>1. CommandInv => CommandObeyed
  <2> SUFFICES ASSUME CommandInv, todo = <<>> PROVE value = commanded /\ level = commanded
    BY DEF CommandObeyed
  <2>1. ~switching /\ NoneKnown(todo, next)
    BY DEF CommandInv, NoneKnown
  <2>2. \A v \in Names : value[v] = commanded[v] /\ level[v] = value[v]
    BY <2>1 DEF CommandInv
  <2>3. {value, level, commanded} \subseteq [Names -> BOOLEAN]
    BY DEF CommandInv, CommandTypes
  <2> QED
    BY <2>2, <2>3
<1> QED
  BY <1>1, CommandInit, CommandStep, PTL DEF Spec

-----------------------------------------------------------------------------
(* Type correctness: what the invariants above leave.                      *)

LEMMA SeqIsBounded ==
  ASSUME NEW S, NEW n \in Nat, NEW q \in Seq(S), Len(q) <= n
  PROVE  q \in BoundedSeq(S, n)
<1>1. q \in [1..Len(q) -> S] /\ Len(q) \in 0..n
  OBVIOUS
<1> QED
  BY <1>1 DEF BoundedSeq, SeqOf

LEMMA NoReportType == NoReport \in Reports
<1>1. Len(Valves) \in Nat
  BY DevicesAssumption
<1>2. <<>> \in Seq(BOOLEAN) /\ Len(<<>>) <= Len(Valves)
  BY <1>1
<1>3. <<>> \in BoundedSeq(BOOLEAN, Len(Valves))
  BY <1>1, <1>2, SeqIsBounded
<1> QED
  BY <1>3 DEF NoReport, Reports

RestTypes ==
  /\ Len(queue) <= QueueLength
  /\ counter \in 0..MaxPulses
  /\ {draft, posted} \subseteq Reports
  /\ {counting, halted} \subseteq BOOLEAN

LEMMA SendFits ==
  ASSUME NEW q \in Seq(Events), Len(q) <= QueueLength, NEW e \in Events
  PROVE  Send(q, QueueLength, e) \in Seq(Events) /\ Len(Send(q, QueueLength, e)) <= QueueLength
<1> DEFINE n == Len(q)
<1>1. n \in Nat /\ Append(q, e) \in Seq(Events) /\ Len(Append(q, e)) = n + 1
  OBVIOUS
<1> HIDE DEF n
<1>2. n < QueueLength => n + 1 <= QueueLength
  BY <1>1, QueueAssumption
<1>3. Send(q, QueueLength, e) \in {q, Append(q, e)} /\ (Send(q, QueueLength, e) # q => n < QueueLength)
  BY <1>1, QueueAssumption DEF Send, Full, n
<1> QED
  BY <1>1, <1>2, <1>3 DEF n

LEMMA RestInit == Init => RestTypes
<1> SUFFICES ASSUME Init PROVE RestTypes
  OBVIOUS
<1>1. Len(queue) <= QueueLength /\ counter \in 0..MaxPulses
  <2>1. Len(queue) = 1 /\ counter = 0
    BY DEF Init
  <2> QED
    BY <2>1, QueueAssumption, BoundsAssumption
<1>2. counting = FALSE /\ halted = FALSE
  BY Zenon DEF Init
<1>3. draft = NoReport /\ posted = NoReport
  BY DEF Init
<1> QED
  BY <1>1, <1>2, <1>3, NoReportType DEF RestTypes

LEMMA RestStep ==
  RestTypes /\ OnceTypes /\ FlowTypes /\ CommandTypes /\ [Next]_vars => RestTypes'
<1> SUFFICES ASSUME RestTypes, OnceTypes, FlowTypes, CommandTypes, [Next]_vars PROVE RestTypes'
  OBVIOUS
<1> USE DEF RestTypes
<1>1. queue \in Seq(Events) /\ Periodic \subseteq Events
  BY DEF OnceTypes, Periodic, Events
<1>2. NoReport \in Reports
  BY NoReportType
<1>3. CASE Receive
  <2>1. Len(queue') <= QueueLength
    BY <1>1, <1>3, QueueAssumption DEF Receive
  <2> QED
    BY <1>3, <2>1 DEF Receive, sensor
<1>4. CASE DisabledInit
  <2>1. Len(queue') <= QueueLength
    <3>1. {"MEASURE", "POST"} \subseteq Events
      BY DEF Events
    <3> QED
      BY <1>1, <1>4, <3>1, SendFits DEF DisabledInit
  <2>2. halted' \in BOOLEAN
    BY <1>4 DEF DisabledInit
  <2> QED
    BY <1>4, <2>1, <2>2 DEF DisabledInit, sensor
<1>5. CASE \E t \in Periodic : TimerFires(t)
  <2>1. PICK t \in Periodic : TimerFires(t)
    BY <1>5
  <2>2. Len(queue') <= QueueLength
    BY <1>1, <2>1, SendFits DEF TimerFires
  <2>3. halted' \in BOOLEAN
    BY <2>1 DEF TimerFires, Full
  <2> QED
    BY <2>1, <2>2, <2>3 DEF TimerFires, sensor
<1>6. CASE Measure
  BY <1>6 DEF Measure, sensor
<1>7. CASE PostBegin
  BY <1>2, <1>7 DEF PostBegin, sensor
<1>8. CASE PostValve
  <2> DEFINE q == draft.valves
             b == value[Valves[Len(q) + 1]]
  <2>1. draft \in Reports /\ draft' = [draft EXCEPT !.valves = Append(q, b)] /\ Len(q) < Len(Valves)
    BY <1>8 DEF PostValve
  <2>2. q \in BoundedSeq(BOOLEAN, Len(Valves)) /\ Len(Valves) \in Nat
    BY <2>1, DevicesAssumption DEF Reports
  <2>3. q \in Seq(BOOLEAN)
    BY <2>2, BoundedIsSeq
  <2>4. b \in BOOLEAN
    <3>1. Len(q) + 1 \in DOMAIN Valves
      BY <2>1, <2>2, <2>3, DevicesAssumption
    <3>2. Valves[Len(q) + 1] \in Names
      BY <3>1 DEF Names, Range
    <3> QED
      BY <3>2 DEF CommandTypes
  <2>5. Append(q, b) \in Seq(BOOLEAN) /\ Len(Append(q, b)) <= Len(Valves)
    <3> HIDE DEF b, q
    <3> QED
      BY <2>1, <2>2, <2>3, <2>4
  <2>6. Append(q, b) \in BoundedSeq(BOOLEAN, Len(Valves))
    BY <2>2, <2>5, SeqIsBounded
  <2>7. draft' \in Reports
    <3> HIDE DEF b
    <3> QED
      BY <2>1, <2>6 DEF Reports
  <2> QED
    BY <1>8, <2>7 DEF PostValve, sensor
<1>9. CASE PostFlow
  <2>1. draft' \in Reports
    BY <1>9 DEF PostFlow, Reports, FlowTypes
  <2> QED
    BY <1>9, <2>1 DEF PostFlow, sensor
<1>10. CASE Publish \/ PublishFails
  BY <1>2, <1>10 DEF Publish, PublishFails, PostEnds, sensor
<1>11. CASE (\E m \in Names \cup {"flow"} : Command(m)) \/ SetTopic \/ Execute
  BY <1>11 DEF Command, SetTopic, Execute, SkipMember, SetValue, SetLevel, ResetFlow, task, sensor
<1>12. CASE PulseCounted
  <2>1. counter' \in 0..MaxPulses
    <3>1. counter' = counter + 1 /\ counter < MaxPulses
      BY <1>12 DEF PulseCounted
    <3> QED
      BY <3>1, BoundsAssumption
  <2> QED
    BY <1>12, <2>1 DEF PulseCounted, task
<1>13. CASE PulseStored
  BY <1>13 DEF PulseStored, task
<1>14. CASE UNCHANGED vars
  BY <1>14 DEF vars
<1> QED
  BY <1>3, <1>4, <1>5, <1>6, <1>7, <1>8, <1>9, <1>10, <1>11, <1>12, <1>13, <1>14
  DEF Next, Task

\* Every variable of the three actors stays in its type: the queue within its
\* length, a report with a value for some of the valves, and a flow that is never
\* more than the pulses counted make (device_manager.c 213-297).
THEOREM TypeCorrect == Spec => []TypeOK
<1>1. RestTypes /\ OnceInv /\ FlowInv /\ CommandInv => TypeOK
  <2> SUFFICES ASSUME RestTypes, OnceInv, FlowInv, CommandInv PROVE TypeOK
    OBVIOUS
  <2>1. counter \in 0..MaxPulses /\ flow \in 0..FlowOf(counter) /\ resets \in Nat
    <3>1. counter \in Nat /\ flow \in Nat /\ flow <= FlowOf(counter)
      BY DEF FlowInv, FlowTypes
    <3>2. FlowOf(counter) \in Nat
      BY <3>1, FlowGrows
    <3> QED
      BY <3>1, <3>2 DEF RestTypes, FlowInv, FlowTypes
  <2>2. {counting, switching, halted} \subseteq BOOLEAN
    BY DEF RestTypes, CommandInv, CommandTypes
  <2> QED
    BY <2>1, <2>2 DEF TypeOK, RestTypes, OnceInv, OnceTypes, CommandInv, CommandTypes
<1>2. RestTypes /\ OnceInv /\ FlowInv /\ CommandInv /\ [Next]_vars
        => (RestTypes /\ OnceInv /\ FlowInv /\ CommandInv)'
  BY RestStep, OnceStep, FlowStep, CommandStep DEF OnceInv, FlowInv, CommandInv
<1> QED
  BY <1>1, <1>2, RestInit, OnceInit, FlowInit, CommandInit, PTL DEF Spec
=============================================================================
