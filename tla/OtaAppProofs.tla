---------------------------- MODULE OtaAppProofs ----------------------------
(* Proofs about OtaApp.  The device can be powered off at any moment, in the *)
(* middle of a download and more than once, and always boots a complete     *)
(* image, with and without a bootloader that rolls back.                    *)
EXTENDS OtaApp, TLAPS

\* The queue after a post: still a queue of events, within its length.
LEMMA PostType ==
  ASSUME TypeOK, NEW e \in Events, Post(e)
  PROVE  /\ queue' \in Seq(Events) /\ Len(queue') <= QueueLength
         /\ halted' \in BOOLEAN
  BY QueueAssumption DEF TypeOK, Post, Send, Full

\* The queue of a device that just booted.
LEMMA BootQueue ==
  <<"INIT_REQ">> \in Seq(Events) /\ Len(<<"INIT_REQ">>) <= QueueLength
  BY QueueAssumption DEF Events

\* While an image is installed the task has the link to it.
Linked == at \in {"begin", "write"} => url \in Actions

\* Every reboot leaves the variables of a device that just booted.
LEMMA RebootType ==
  ASSUME TypeOK, Reboot, crashes' \in 0..MaxCrashes
  PROVE  TypeOK' /\ Linked'
<1>1. queue' \in Seq(Events) /\ Len(queue') <= QueueLength
  BY BootQueue DEF Reboot, NextBoot
<1>2. run' \in Slots /\ boot' \in Slots /\ unconfirmed' \in BOOLEAN
  BY FaultsAssumption DEF Reboot, NextBoot, TypeOK, Slots, Other
<1>3. ran' \subseteq Actions
  BY DEF Reboot, NextBoot, TypeOK
<1>4. posts' \in 0..MaxPosts
  BY BoundsAssumption DEF Reboot, NextBoot
<1> QED
  BY <1>1, <1>2, <1>3, <1>4 DEF Reboot, NextBoot, TypeOK, Linked, server, States, Results, Points

\* What the server records has the type of a verdict.
LEMMA RecordType ==
  ASSUME TypeOK, result # "NONE", Record
  PROVE  /\ offered' \in Actions \cup {None}
         /\ verdict' \in [Actions -> {"open", "SUCCESS", "FAILED"}]
<1>1. result \in {"SUCCESS", "FAILED"}
  BY DEF TypeOK, Results
<1>2. [verdict EXCEPT ![action] = result] \in [Actions -> {"open", "SUCCESS", "FAILED"}]
  BY <1>1 DEF TypeOK
<1> QED
  BY <1>2 DEF TypeOK, Record

\* The handlers, the timer, the server, the network manager and the power
\* supply keep every variable within its type.
LEMMA TypeInvariance == Spec => [](TypeOK /\ Linked)
<1> USE DEF TypeOK, Linked, States, Results, Slots, Images, Points
<1>1. Init => TypeOK /\ Linked
  <2> SUFFICES ASSUME Init PROVE TypeOK /\ Linked
    OBVIOUS
  <2>1. queue \in Seq(Events) /\ Len(queue) <= QueueLength
    BY BootQueue DEF Init
  <2>2. slot \in [Slots -> Images] /\ verdict \in [Actions -> {"open", "SUCCESS", "FAILED"}]
    BY DEF Init
  <2>3. posts \in 0..MaxPosts /\ crashes \in 0..MaxCrashes
    BY BoundsAssumption DEF Init
  <2> QED
    BY <2>1, <2>2, <2>3 DEF Init
<1>2. TypeOK /\ Linked /\ [Next]_vars => TypeOK' /\ Linked'
  <2> SUFFICES ASSUME TypeOK, Linked, [Next]_vars PROVE TypeOK' /\ Linked'
    OBVIOUS
  <2> USE DEF memory, flash, server, history, Done, NoPost, Fault, Other
  <2>1. CASE Receive
    <3>1. Head(queue) \in Events /\ Tail(queue) \in Seq(Events) /\ Len(Tail(queue)) <= QueueLength
      BY <2>1, QueueAssumption DEF Receive
    <3>2. Head(queue) \in Events /\ HasHandler(Handlers, state, Head(queue))
            => Head(queue) \in Points \ {"begin", "write"}
      BY DEF HasHandler, Handlers, Events
    <3> QED
      BY <2>1, <3>1, <3>2 DEF Receive
  <2>2. CASE DisabledInit
    BY <2>2 DEF DisabledInit
  <2>3. CASE NoClient
    BY <2>3 DEF NoClient
  <2>4. CASE PollFails
    BY <2>4 DEF PollFails
  <2>5. CASE PollAnswered
    BY <2>5, PostType DEF PollAnswered, Events
  <2>6. CASE PollOffers
    BY <2>6, PostType DEF PollOffers, OfferEvent, Events
  <2>7. CASE PostConfigData
    BY <2>7 DEF PostConfigData
  <2>8. CASE DownloadUnanswered
    BY <2>8 DEF DownloadUnanswered
  <2>9. CASE DownloadNothing
    BY <2>9 DEF DownloadNothing
  <2>10. CASE DownloadImage
    BY <2>10 DEF DownloadImage
  <2>11. CASE Begin
    BY <2>11 DEF Begin
  <2>12. CASE InstallFails
    BY <2>12, PostType DEF InstallFails, RestartPolling, Events
  <2>13. CASE InstallIncomplete
    BY <2>13 DEF InstallIncomplete, RestartPolling
  <2>14. CASE InstallSucceeds
    BY <2>14 DEF InstallSucceeds, RestartPolling
  <2>15. CASE ResultNotSent
    BY <2>15 DEF ResultNotSent
  <2>16. CASE ResultReported
    BY <2>16, RecordType DEF ResultReported
  <2>17. CASE ReplyLost
    BY <2>17, RecordType DEF ReplyLost
  <2>18. CASE TimerFires
    <3>1. Post("OTA_POLL_SERVER") /\ "OTA_POLL_SERVER" \in Events /\ polling' = FALSE
      BY <2>18 DEF TimerFires, Events
    <3>2. /\ UNCHANGED <<state, result, action, url, polled, at>>
          /\ UNCHANGED <<slot, run, boot, unconfirmed, offered, verdict>>
          /\ UNCHANGED <<posts, crashes, tried, ran, faulted>>
      BY <2>18 DEF TimerFires
    <3>3. queue' \in Seq(Events) /\ Len(queue') <= QueueLength /\ halted' \in BOOLEAN
      BY <3>1, PostType
    <3>4. {polling', unconfirmed', polled', halted'} \subseteq BOOLEAN
      BY <3>1, <3>2, <3>3
    <3>5. slot' \in [Slots -> Images] /\ verdict' \in [Actions -> {"open", "SUCCESS", "FAILED"}]
      BY <3>2
    <3> QED
      BY <3>2, <3>3, <3>4, <3>5
  <2>19. ASSUME NEW e \in {"OTA_POLL_SERVER", "OTA_STOP_POLL_SERVER"}, Posted(e)
         PROVE  TypeOK' /\ Linked'
    BY <2>19, PostType, BoundsAssumption DEF Posted, Events
  <2>20. ASSUME NEW a \in Actions, ServerOffers(a)
         PROVE  TypeOK' /\ Linked'
    BY <2>20 DEF ServerOffers
  <2>21. CASE PowerCycle
    BY <2>21, RebootType DEF PowerCycle
  <2>22. CASE Crash
    BY <2>22, RebootType, BoundsAssumption DEF Crash
  <2>23. CASE UNCHANGED vars
    BY <2>23 DEF vars
  <2> QED
    BY <2>1, <2>2, <2>3, <2>4, <2>5, <2>6, <2>7, <2>8, <2>9, <2>10, <2>11,
       <2>12, <2>13, <2>14, <2>15, <2>16, <2>17, <2>18, <2>19, <2>20, <2>21,
       <2>22, <2>23
       DEF Next, Task
<1> QED
  BY <1>1, <1>2, PTL DEF Spec

\* Type correctness of the task, the flash and the server in every behaviour.
THEOREM TypeCorrect == Spec => []TypeOK
  BY TypeInvariance, PTL

-----------------------------------------------------------------------------
(* The device always has an image to boot.                                 *)

\* The strengthening of BootIntact.  A handler of IDLE is only at work in
\* IDLE, and in IDLE the boot slot is the slot the firmware runs from, so
\* what is written is never what the next boot starts.  While the running
\* image may still be rolled back the other slot is not written either, and
\* holds the image to fall back on.
BootInv ==
  /\ BootIntact
  /\ state # "DOWNLOADED" => boot = run
  /\ at \notin {"receive", "INIT_REQ"} => state = "IDLE"
  /\ at = "INIT_REQ" => state = "DISABLED"
  /\ unconfirmed => slot[Other] # Broken
  /\ at = "write" => ~unconfirmed

\* A reboot starts an intact slot, and keeps one to fall back on.
LEMMA RebootIntact ==
  ASSUME TypeOK, BootInv, Reboot
  PROVE  BootInv'
<1>1. PICK next \in Slots :
        /\ next = IF unconfirmed THEN Other ELSE boot
        /\ run' = next /\ boot' = next
        /\ unconfirmed' = (Rollback /\ next # run /\ ~unconfirmed)
        /\ slot' = slot /\ state' = "DISABLED" /\ at' = "receive"
  BY DEF Reboot, NextBoot, TypeOK, Slots, Other
<1>2. slot[next] # Broken
  BY <1>1 DEF BootInv, BootIntact
<1>3. unconfirmed' => Other' = run
  <2>1. run \in {0, 1} /\ next \in {0, 1} /\ Other' = 1 - next
    BY <1>1 DEF Other, Slots, TypeOK
  <2>2. unconfirmed' => next # run
    BY <1>1
  <2> QED
    BY <2>1, <2>2
<1> QED
  BY <1>1, <1>2, <1>3 DEF BootInv, BootIntact

LEMMA BootAlways == Spec => [](TypeOK /\ Linked /\ BootInv)
<1>1. Init => BootInv
  BY ImagesAssumption DEF Init, BootInv, BootIntact, Slots
<1>2. TypeOK /\ Linked /\ BootInv /\ [Next]_vars => BootInv'
  <2> SUFFICES ASSUME TypeOK, Linked, BootInv, [Next]_vars PROVE BootInv'
    OBVIOUS
  <2> USE DEF BootInv, BootIntact, memory, flash, server, history, Done, NoPost, Fault, Other
  <2>1. CASE Receive
    <3>1. HasHandler(Handlers, state, Head(queue)) =>
            /\ Head(queue) # "write"
            /\ Head(queue) = "INIT_REQ" => state = "DISABLED"
            /\ Head(queue) # "INIT_REQ" => state = "IDLE" \/ Head(queue) = "DEINIT_REQ"
      BY DEF HasHandler, Handlers, TypeOK, States
    <3>2. Head(queue) # "DEINIT_REQ"
      BY <2>1 DEF Receive, TypeOK, Events
    <3> QED
      BY <2>1, <3>1, <3>2 DEF Receive
  <2>2. CASE DisabledInit
    BY <2>2 DEF DisabledInit
  <2>3. CASE NoClient \/ PollFails \/ PollAnswered \/ PollOffers \/ PostConfigData
    BY <2>3 DEF NoClient, PollFails, PollAnswered, PollOffers, PostConfigData
  <2>4. CASE DownloadUnanswered \/ DownloadNothing \/ DownloadImage
    BY <2>4 DEF DownloadUnanswered, DownloadNothing, DownloadImage
  <2>5. CASE Begin
    <3>1. Other # run /\ boot = run
      BY <2>5 DEF Begin, TypeOK, Slots
    <3>2. slot'[run] = slot[run]
      BY <2>5, <3>1 DEF Begin, TypeOK
    <3> QED
      BY <2>5, <3>1, <3>2 DEF Begin
  <2>6. CASE InstallFails \/ InstallIncomplete
    BY <2>6 DEF InstallFails, InstallIncomplete, RestartPolling
  <2>7. CASE InstallSucceeds
    <3>1. Other \in Slots /\ Other # run /\ url # Broken
      BY <2>7, ImagesAssumption DEF InstallSucceeds, TypeOK, Linked, Slots
    <3>2. slot'[Other] = url /\ slot'[run] = slot[run]
      BY <2>7, <3>1 DEF InstallSucceeds, TypeOK
    <3> QED
      BY <2>7, <3>1, <3>2 DEF InstallSucceeds
  <2>8. CASE ResultNotSent \/ ResultReported \/ ReplyLost
    BY <2>8 DEF ResultNotSent, ResultReported, ReplyLost
  <2>9. CASE TimerFires
    BY <2>9 DEF TimerFires
  <2>10. CASE \E e \in {"OTA_POLL_SERVER", "OTA_STOP_POLL_SERVER"} : Posted(e)
    BY <2>10 DEF Posted
  <2>11. CASE \E a \in Actions : ServerOffers(a)
    BY <2>11 DEF ServerOffers
  <2>12. CASE PowerCycle \/ Crash
    BY <2>12, RebootIntact DEF PowerCycle, Crash
  <2>13. CASE UNCHANGED vars
    BY <2>13 DEF vars
  <2> QED
    BY <2>1, <2>2, <2>3, <2>4, <2>5, <2>6, <2>7, <2>8, <2>9, <2>10, <2>11,
       <2>12, <2>13
       DEF Next, Task
<1> QED
  BY <1>1, <1>2, TypeInvariance, PTL DEF Spec

\* Wherever the power fails, during a download, after it or on the first boot
\* of an update, the next boot starts a complete image (ota.c 517-605).
THEOREM AlwaysBootable == Spec => []BootIntact
<1>1. BootInv => BootIntact
  BY DEF BootInv
<1> QED
  BY <1>1, BootAlways, PTL

-----------------------------------------------------------------------------
(* Polling goes on.                                                        *)

\* What a post does to the events that are queued.
LEMMA PostQueue ==
  ASSUME TypeOK, NEW e \in Events, Post(e)
  PROVE  /\ \A f : Contains(queue, f) => Contains(queue', f)
         /\ \A f : Contains(queue', f) => Contains(queue, f) \/ f = e
         /\ halted' \/ Contains(queue', e)
<1>1. queue \in Seq(Events)
  BY DEF TypeOK
<1>2. CASE Full(queue, QueueLength)
  BY <1>2 DEF Post, Send
<1>3. CASE ~Full(queue, QueueLength)
  <2>1. queue' = Append(queue, e)
    BY <1>3 DEF Post, Send
  <2> QED
    BY <1>1, <2>1 DEF Contains
<1> QED
  BY <1>2, <1>3

\* What taking the first event does to them.
LEMMA TailQueue ==
  ASSUME TypeOK, queue # <<>>
  PROVE  /\ Contains(queue, Head(queue)) /\ Head(queue) \in Events
         /\ \A f : Contains(Tail(queue), f) => Contains(queue, f)
         /\ \A f : Contains(queue, f) => Head(queue) = f \/ Contains(Tail(queue), f)
<1>1. queue \in Seq(Events)
  BY DEF TypeOK
<1> QED
  BY <1>1 DEF Contains

\* The queue of a device that just booted.
LEMMA BootContains == \A f : Contains(<<"INIT_REQ">>, f) <=> f = "INIT_REQ"
  BY DEF Contains

\* The strengthening of PollPending: nothing is polled before the task is
\* initialised.
PollInv == PollPending /\ (state = "DISABLED" => ~polled)

LEMMA NextPolling == TypeOK /\ BootInv /\ PollInv /\ [Next]_vars => PollInv'
<1> SUFFICES ASSUME TypeOK, BootInv, PollInv, [Next]_vars PROVE PollInv'
  OBVIOUS
<1> SUFFICES ASSUME ~halted PROVE PollInv'
  BY DEF Next, vars, Crash, Reboot, PollInv, PollPending
<1> USE DEF PollInv, PollPending, memory, flash, server, history, Done, NoPost, Fault
<1>0. /\ at \notin {"receive", "INIT_REQ"} => state = "IDLE"
      /\ at = "INIT_REQ" => state = "DISABLED"
  BY DEF BootInv
<1>1. CASE Receive
  <2>1. HasHandler(Handlers, "IDLE", "OTA_POLL_SERVER")
    BY DEF HasHandler, Handlers
  <2> QED
    BY <1>1, <2>1, TailQueue DEF Receive
<1>2. CASE DisabledInit
  BY <1>0, <1>2 DEF DisabledInit
<1>3. CASE NoClient
  BY <1>3 DEF NoClient
<1>4. CASE PollFails \/ PollAnswered
  BY <1>0, <1>4 DEF PollFails, PollAnswered
<1>5. CASE PollOffers
  <2>1. PICK e \in Events : Post(e)
    BY <1>5 DEF PollOffers, OfferEvent, Events
  <2>2. \A f : Contains(queue, f) => Contains(queue', f)
    BY <2>1, PostQueue
  <2>3. at' = "receive" /\ UNCHANGED <<state, polled, polling, faulted>> /\ at = "offer"
    BY <1>5 DEF PollOffers
  <2> QED
    BY <2>2, <2>3
<1>6. CASE PostConfigData \/ DownloadUnanswered \/ DownloadNothing \/ DownloadImage
  BY <1>6 DEF PostConfigData, DownloadUnanswered, DownloadNothing, DownloadImage
<1>7. CASE Begin
  BY <1>7 DEF Begin
<1>8. CASE InstallFails \/ InstallIncomplete \/ InstallSucceeds
  BY <1>0, <1>8 DEF InstallFails, InstallIncomplete, InstallSucceeds, RestartPolling
<1>9. CASE ResultNotSent \/ ResultReported \/ ReplyLost
  BY <1>9 DEF ResultNotSent, ResultReported, ReplyLost
<1>10. CASE TimerFires
  <2>1. Post("OTA_POLL_SERVER") /\ "OTA_POLL_SERVER" \in Events
    BY <1>10 DEF TimerFires, Events
  <2>2. halted' \/ Contains(queue', "OTA_POLL_SERVER")
    BY <2>1, PostQueue
  <2>3. UNCHANGED <<state, polled>>
    BY <1>10 DEF TimerFires
  <2> QED
    BY <2>2, <2>3
<1>11. ASSUME NEW e \in {"OTA_POLL_SERVER", "OTA_STOP_POLL_SERVER"}, Posted(e)
       PROVE  PollInv'
  <2>1. e \in Events /\ Post(e)
    BY <1>11 DEF Posted, Events
  <2>2. \A f : Contains(queue, f) => Contains(queue', f)
    BY <2>1, PostQueue
  <2> QED
    BY <1>11, <2>2 DEF Posted
<1>12. CASE \E a \in Actions : ServerOffers(a)
  BY <1>12 DEF ServerOffers
<1>13. CASE PowerCycle \/ Crash
  BY <1>13 DEF PowerCycle, Crash, Reboot
<1>14. CASE UNCHANGED vars
  BY <1>14 DEF vars
<1> QED
  BY <1>1, <1>2, <1>3, <1>4, <1>5, <1>6, <1>7, <1>8, <1>9, <1>10, <1>11, <1>12,
     <1>13, <1>14
  DEF Next, Task

\* Once the server was polled the next poll is coming, whatever download,
\* result or failure comes in between (ota.c 650-657, 756-767).
THEOREM PollingGoesOn == Spec => []PollPending
<1>1. Init => PollInv
  BY DEF Init, PollInv, PollPending
<1>2. PollInv => PollPending
  BY DEF PollInv
<1> QED
  BY <1>1, <1>2, NextPolling, BootAlways, PTL DEF Spec

-----------------------------------------------------------------------------
(* What the server is told.                                                *)

\* An action from its offer to its end: the id and the link the task keeps are
\* those of one answer, the link of an installation under way is the offer,
\* and so is the image that waits for a reboot or for its confirmation.  The
\* server offers only what has no verdict.
OfferInv ==
  /\ state = "DISABLED" =>
       /\ result = "NONE" /\ action = None /\ url = None
       /\ ~Contains(queue, "OTA_DOWNLOAD_IMAGE")
  /\ url # None => url = action
  /\ at \in {"begin", "write"} => url = offered
  /\ state = "DOWNLOADED" =>
       at = "receive" /\ ~unconfirmed /\ boot # run /\ slot[boot] = offered /\ offered # None
  /\ at \in {"offer", "OTA_POST_OTA_RESULT"} \/ Contains(queue, "OTA_POST_OTA_RESULT")
       => action # None
  /\ offered # None => verdict[offered] = "open"
  /\ unconfirmed /\ state = "DISABLED" => slot[run] = offered /\ offered \in ran

LEMMA InitOffer == Init => OfferInv
<1> SUFFICES ASSUME Init PROVE OfferInv
  OBVIOUS
<1>1. /\ ~Contains(queue, "OTA_DOWNLOAD_IMAGE") /\ ~Contains(queue, "OTA_POST_OTA_RESULT")
  BY BootContains DEF Init
<1> QED
  BY <1>1 DEF Init, OfferInv

LEMMA RebootOffer ==
  ASSUME TypeOK, BootInv, OfferInv, Reboot
  PROVE  OfferInv'
<1>1. /\ ~Contains(queue', "OTA_DOWNLOAD_IMAGE") /\ ~Contains(queue', "OTA_POST_OTA_RESULT")
  <2>1. queue' = <<"INIT_REQ">>
    BY DEF Reboot, NextBoot
  <2> QED
    BY <2>1, BootContains
<1>2. /\ state' = "DISABLED" /\ result' = "NONE" /\ action' = None /\ url' = None
      /\ at' = "receive"
      /\ offered' = offered /\ verdict' = verdict /\ slot' = slot
  BY DEF Reboot, NextBoot, server
<1>3. unconfirmed' => slot'[run'] = offered' /\ offered' \in ran'
  <2> SUFFICES ASSUME unconfirmed' PROVE slot'[run'] = offered' /\ offered' \in ran'
    OBVIOUS
  <2>1. ~unconfirmed /\ run' = boot /\ boot # run
        /\ ran' = ran \cup ({slot[boot]} \cap Actions)
    BY DEF Reboot, NextBoot
  <2>2. slot[boot] = offered /\ offered # None
    BY <2>1 DEF BootInv, OfferInv
  <2>3. offered \in Actions
    BY <2>2 DEF TypeOK
  <2> QED
    BY <1>2, <2>1, <2>2, <2>3
<1> QED
  BY <1>1, <1>2, <1>3 DEF OfferInv

LEMMA RecordOffer ==
  ASSUME TypeOK, OfferInv, Record, action # None, result # "NONE"
  PROVE  /\ offered' # None => offered' = offered /\ verdict'[offered] = verdict[offered]
         /\ verdict[action] = "open" => verdict'[action] = result
         /\ \A a \in Actions : verdict[a] # "open" => verdict'[a] = verdict[a]
         /\ \A a \in Actions : a # action => verdict'[a] = verdict[a]
         /\ offered' \in {offered, None} /\ (offered = action => offered' = None)
  BY DEF TypeOK, Record

LEMMA NextOffer == TypeOK /\ Linked /\ BootInv /\ OfferInv /\ [Next]_vars => OfferInv'
<1> SUFFICES ASSUME TypeOK, Linked, BootInv, OfferInv, [Next]_vars PROVE OfferInv'
  OBVIOUS
<1> USE DEF OfferInv, memory, flash, server, history, Done, NoPost, Fault
<1>0. /\ at \notin {"receive", "INIT_REQ"} => state = "IDLE"
      /\ at = "INIT_REQ" => state = "DISABLED"
  BY DEF BootInv
<1>1. CASE Receive
  <2>1. HasHandler(Handlers, "DOWNLOADED", Head(queue)) => Head(queue) = "DEINIT_REQ"
    BY DEF HasHandler, Handlers
  <2>2. Head(queue) \notin {"DEINIT_REQ", "begin", "write", "offer"}
    BY <1>1, TailQueue DEF Receive, Events
  <2>3. /\ Contains(queue, Head(queue))
        /\ \A f : Contains(queue', f) => Contains(queue, f)
    BY <1>1, TailQueue DEF Receive
  <2>4. at' \in {at, Head(queue)} /\ (state = "DOWNLOADED" => at' = at)
    BY <1>1, <2>1, <2>2 DEF Receive
  <2>5. UNCHANGED <<memory, flash, server, ran>>
    BY <1>1 DEF Receive
  <2>6. at = "receive"
    BY <1>1 DEF Receive
  <2> QED
    BY <2>2, <2>3, <2>4, <2>5, <2>6
<1>2. CASE DisabledInit
  BY <1>0, <1>2 DEF DisabledInit
<1>3. CASE NoClient \/ PostConfigData \/ DownloadUnanswered \/ DownloadNothing \/ DownloadImage
  BY <1>0, <1>3 DEF NoClient, PostConfigData, DownloadUnanswered, DownloadNothing, DownloadImage
<1>4. CASE PollFails
  BY <1>0, <1>4 DEF PollFails
<1>5. CASE PollAnswered
  <2>1. \A f : Contains(queue', f) => Contains(queue, f) \/ f = "OTA_POST_CONFIG_DATA"
    <3>1. "OTA_POST_CONFIG_DATA" \in Events
      BY DEF Events
    <3> QED
      BY <1>5, <3>1, PostQueue DEF PollAnswered
  <2>2. /\ at = "OTA_POLL_SERVER" /\ url' = offered
        /\ action' = IF offered = None THEN action ELSE offered
        /\ at' = IF offered = None THEN "receive" ELSE "offer"
        /\ UNCHANGED <<state, result, flash, server, ran>>
    BY <1>5 DEF PollAnswered
  <2> QED
    BY <1>0, <2>1, <2>2
<1>6. CASE PollOffers
  <2>1. PICK e \in Events : Post(e)
    BY <1>6 DEF PollOffers, OfferEvent, Events
  <2>2. at = "offer" /\ at' = "receive" /\ UNCHANGED <<memory, flash, server, ran>>
    BY <1>6 DEF PollOffers
  <2> QED
    BY <1>0, <2>2
<1>7. CASE Begin
  <2>1. at = "begin" /\ at' = "write" /\ ~unconfirmed
        /\ UNCHANGED <<queue, memory, unconfirmed, server, ran>>
    BY <1>7 DEF Begin
  <2> QED
    BY <1>0, <2>1
<1>8. CASE InstallFails
  <2>1. at \in {"begin", "write"} /\ at' = "receive"
        /\ UNCHANGED <<state, action, url, flash, server, ran>>
    BY <1>8 DEF InstallFails
  <2>2. action # None
    BY <2>1, ImagesAssumption DEF Linked
  <2> QED
    BY <1>0, <2>1, <2>2
<1>9. CASE InstallIncomplete
  BY <1>0, <1>9 DEF InstallIncomplete
<1>10. CASE InstallSucceeds
  <2>1. /\ at = "write" /\ at' = "receive" /\ state' = "DOWNLOADED"
        /\ slot' = [slot EXCEPT ![Other] = url] /\ boot' = Other
        /\ UNCHANGED <<result, action, url, run, unconfirmed, server, queue>>
    BY <1>10 DEF InstallSucceeds
  <2>2. url \in Actions /\ url # None /\ url = offered /\ ~unconfirmed
    BY <2>1, ImagesAssumption DEF Linked, BootInv
  <2>3. Other \in Slots /\ Other # run
    BY DEF TypeOK, Slots, Other
  <2>4. slot'[boot'] = url
    BY <2>1, <2>3 DEF TypeOK
  <2> QED
    BY <2>1, <2>2, <2>3, <2>4
<1>11. CASE ResultNotSent
  BY <1>0, <1>11 DEF ResultNotSent
<1>12. CASE ResultReported \/ ReplyLost
  <2>1. /\ at = "OTA_POST_OTA_RESULT" /\ at' = "receive" /\ result # "NONE" /\ Record
        /\ UNCHANGED <<state, action, url, queue, flash, ran>>
    BY <1>12 DEF ResultReported, ReplyLost
  <2> QED
    BY <1>0, <2>1, RecordOffer
<1>13. CASE TimerFires
  <2>1. Post("OTA_POLL_SERVER") /\ "OTA_POLL_SERVER" \in Events
        /\ UNCHANGED <<memory, at, flash, server, history>>
    BY <1>13 DEF TimerFires, Events
  <2>2. \A f : Contains(queue', f) => Contains(queue, f) \/ f = "OTA_POLL_SERVER"
    BY <2>1, PostQueue
  <2> QED
    BY <2>1, <2>2
<1>14. ASSUME NEW e \in {"OTA_POLL_SERVER", "OTA_STOP_POLL_SERVER"}, Posted(e)
       PROVE  OfferInv'
  <2>1. Post(e) /\ e \in Events /\ UNCHANGED <<memory, at, flash, server, ran>>
    BY <1>14 DEF Posted, Events
  <2>2. \A f : Contains(queue', f) => Contains(queue, f) \/ f = e
    BY <2>1, PostQueue
  <2> QED
    BY <2>1, <2>2
<1>15. ASSUME NEW a \in Actions, ServerOffers(a)
       PROVE  OfferInv'
  <2>1. /\ offered = None /\ offered' = a /\ verdict' = verdict /\ verdict[a] = "open"
        /\ UNCHANGED <<memory, queue, at, flash, ran>>
    BY <1>15 DEF ServerOffers
  <2>2. at \notin {"begin", "write"} /\ offered \notin ran
    BY <2>1, ImagesAssumption DEF Linked, TypeOK
  <2> QED
    BY <2>1, <2>2
<1>16. CASE PowerCycle \/ Crash
  BY <1>16, RebootOffer DEF PowerCycle, Crash
<1>17. CASE UNCHANGED vars
  BY <1>17 DEF vars
<1> QED
  BY <1>1, <1>2, <1>3, <1>4, <1>5, <1>6, <1>7, <1>8, <1>9, <1>10, <1>11, <1>12,
     <1>13, <1>14, <1>15, <1>16, <1>17
  DEF Next, Task

LEMMA OfferAlways == Spec => [](TypeOK /\ Linked /\ BootInv /\ OfferInv)
  BY BootAlways, InitOffer, NextOffer, PTL DEF Spec

\* The strengthening of VerdictTrue: as long as every reply arrived, a result is
\* about the action offered, which was booted or begun.
TruthInv ==
  "lostReply" \notin faulted =>
    /\ VerdictFits
    /\ result = "SUCCESS" => offered \in ran /\ action \in {None, offered}
    /\ result = "FAILED" => offered \in tried /\ action = offered

LEMMA NextTruth ==
  TypeOK /\ Linked /\ BootInv /\ OfferInv /\ TruthInv /\ [Next]_vars => TruthInv'
<1> SUFFICES ASSUME TypeOK, Linked, BootInv, OfferInv, TruthInv, [Next]_vars PROVE TruthInv'
  OBVIOUS
<1> USE DEF TruthInv, VerdictFits, memory, flash, server, history, Done, NoPost, Fault
<1>0. /\ at \notin {"receive", "INIT_REQ"} => state = "IDLE"
      /\ at = "INIT_REQ" => state = "DISABLED"
  BY DEF BootInv
<1>1. CASE Receive \/ NoClient \/ PostConfigData \/ DownloadUnanswered \/ DownloadNothing
           \/ DownloadImage
  BY <1>1 DEF Receive, NoClient, PostConfigData, DownloadUnanswered, DownloadNothing,
     DownloadImage
<1>2. CASE DisabledInit
  <2>1. unconfirmed => offered \in ran
    BY <1>0, <1>2 DEF DisabledInit, OfferInv
  <2>2. action = None /\ result = "NONE"
    BY <1>0, <1>2 DEF DisabledInit, OfferInv
  <2>3. /\ result' # "NONE" => unconfirmed /\ result' = "SUCCESS"
        /\ UNCHANGED <<action, offered, verdict, ran, tried>>
        /\ faulted \subseteq faulted'
    BY <1>2, <2>2 DEF DisabledInit
  <2> QED
    BY <2>1, <2>2, <2>3
<1>3. CASE PollFails \/ PollAnswered \/ PollOffers
  BY <1>3 DEF PollFails, PollAnswered, PollOffers
<1>4. CASE Begin
  BY <1>4 DEF Begin
<1>5. CASE InstallFails
  <2>1. /\ result' = "FAILED" /\ tried' = tried \cup {url} /\ at \in {"begin", "write"}
        /\ UNCHANGED <<action, offered, verdict, ran, faulted>>
    BY <1>5 DEF InstallFails
  <2>2. url = offered /\ url = action
    BY <2>1, ImagesAssumption DEF Linked, OfferInv
  <2> QED
    BY <2>1, <2>2
<1>6. CASE InstallIncomplete \/ InstallSucceeds
  BY <1>6 DEF InstallIncomplete, InstallSucceeds
<1>7. CASE ResultNotSent
  BY <1>7 DEF ResultNotSent
<1>8. CASE ResultReported
  <2>1. /\ result # "NONE" /\ Record /\ result' = "NONE"
        /\ UNCHANGED <<action, ran, tried, faulted>>
    BY <1>8 DEF ResultReported
  <2>2. action # None
    BY <1>8 DEF ResultReported, OfferInv
  <2>3. result \in {"SUCCESS", "FAILED"} /\ action \in Actions
    BY <2>1, <2>2 DEF TypeOK, Results
  <2>4. SUFFICES ASSUME "lostReply" \notin faulted PROVE VerdictFits'
    BY <2>1
  <2>5. /\ result = "SUCCESS" => action \in ran
        /\ result = "FAILED" => action \in tried
    BY <2>2, <2>4
  <2>6. /\ \A a \in Actions : a # action => verdict'[a] = verdict[a]
        /\ verdict'[action] \in {verdict[action], result}
    BY <2>1, <2>2, <2>3 DEF Record, TypeOK
  <2> QED
    BY <2>1, <2>3, <2>4, <2>5, <2>6
<1>9. CASE ReplyLost
  BY <1>9 DEF ReplyLost
<1>10. CASE TimerFires
  BY <1>10 DEF TimerFires
<1>11. CASE \E e \in {"OTA_POLL_SERVER", "OTA_STOP_POLL_SERVER"} : Posted(e)
  BY <1>11 DEF Posted
<1>12. ASSUME NEW a \in Actions, ServerOffers(a)
       PROVE  TruthInv'
  <2>1. /\ offered = None /\ UNCHANGED <<action, result, verdict, ran, tried, faulted>>
    BY <1>12 DEF ServerOffers
  <2>2. offered \notin ran /\ offered \notin tried
    BY <2>1, ImagesAssumption DEF TypeOK
  <2> QED
    BY <2>1, <2>2
<1>13. CASE PowerCycle \/ Crash
  <2>1. /\ result' = "NONE" /\ ran \subseteq ran'
        /\ UNCHANGED <<verdict, tried, faulted>>
    BY <1>13 DEF PowerCycle, Crash, Reboot
  <2> QED
    BY <2>1
<1>14. CASE UNCHANGED vars
  BY <1>14 DEF vars
<1> QED
  BY <1>1, <1>2, <1>3, <1>4, <1>5, <1>6, <1>7, <1>8, <1>9, <1>10, <1>11, <1>12,
     <1>13, <1>14
  DEF Next, Task

\* As long as no reply to a result was lost, the server is told only what
\* happened to the very action: a success of an image that was booted, a failure
\* of an installation that was begun (ota.c 684-695, 770-791).
THEOREM VerdictsTrue == Spec => []VerdictTrue
<1>1. Init => TruthInv
  BY DEF Init, TruthInv, VerdictFits
<1>2. TruthInv => VerdictTrue
  BY DEF TruthInv, VerdictTrue
<1> QED
  BY <1>1, <1>2, NextTruth, OfferAlways, PTL DEF Spec

-----------------------------------------------------------------------------
(* What runs is never called a failure.                                    *)

\* The image in slot s is no update, or its success is recorded.
Settled(s) == slot[s] \in Actions => verdict[slot[s]] = "SUCCESS"

\* The image that runs was confirmed, and the task has yet to report it.  It
\* takes up no download meanwhile.
Reporting ==
  /\ state = "IDLE" /\ result = "SUCCESS"
  /\ offered = slot[run] /\ action \in {None, offered}
  /\ at \notin {"OTA_DOWNLOAD_IMAGE", "begin", "write"}
  /\ ~Contains(queue, "OTA_DOWNLOAD_IMAGE")

\* The strengthening of VerdictFinal: the image that runs is settled or about
\* to be, and before it is confirmed the one to fall back on is.
FinalInv ==
  crashes = 0 =>
    /\ unconfirmed => Settled(Other)
    /\ ~unconfirmed => Settled(run) \/ Reporting

\* A verdict of success stays.
LEMMA SettledStays ==
  ASSUME TypeOK, UNCHANGED <<slot, run>>,
         \A a \in Actions : verdict[a] = "SUCCESS" => verdict'[a] = "SUCCESS"
  PROVE  /\ Settled(run) => Settled(run)'
         /\ Settled(Other) => Settled(Other)'
  BY DEF Settled, Other

LEMMA NextFinal ==
  Rollback /\ TypeOK /\ Linked /\ BootInv /\ OfferInv /\ FinalInv /\ [Next]_vars
    => FinalInv'
<1> SUFFICES ASSUME Rollback, TypeOK, Linked, BootInv, OfferInv, FinalInv, [Next]_vars
             PROVE  FinalInv'
  OBVIOUS
<1> SUFFICES ASSUME crashes' = 0 PROVE FinalInv'
  BY DEF FinalInv
<1>0. crashes = 0 \/ Crash
  BY DEF Next, Task, vars, history, Receive, DisabledInit, NoClient, PollFails, PollAnswered,
     PollOffers, PostConfigData, DownloadUnanswered, DownloadNothing, DownloadImage, Begin,
     InstallFails, InstallIncomplete, InstallSucceeds, ResultNotSent, ResultReported,
     ReplyLost, TimerFires, Posted, ServerOffers, PowerCycle
<1>1. CASE Crash
  BY <1>1, BoundsAssumption DEF Crash, TypeOK
<1> SUFFICES ASSUME crashes = 0, ~Crash PROVE FinalInv'
  BY <1>0, <1>1
<1> USE DEF memory, flash, server, history, Done, NoPost, Fault
<1>2. /\ at \notin {"receive", "INIT_REQ"} => state = "IDLE"
      /\ at = "INIT_REQ" => state = "DISABLED"
      /\ unconfirmed => Settled(Other)
      /\ ~unconfirmed => Settled(run) \/ Reporting
  BY DEF BootInv, FinalInv
\* Steps that leave the flash and the verdicts alone.
<1>3. ASSUME UNCHANGED <<flash, verdict>>, Reporting => Reporting'
      PROVE  FinalInv'
  <2>1. /\ Settled(run) => Settled(run)'
        /\ Settled(Other) => Settled(Other)'
    BY <1>3, SettledStays
  <2> QED
    BY <1>2, <1>3, <2>1 DEF FinalInv
<1>4. CASE Receive
  <2>1. Contains(queue, Head(queue)) /\ \A f : Contains(queue', f) => Contains(queue, f)
    BY <1>4, TailQueue DEF Receive
  <2>2. at' \in {at, Head(queue)} /\ Head(queue) \notin {"begin", "write"}
    BY <1>4, TailQueue DEF Receive, Events
  <2>3. UNCHANGED <<memory, flash, server>>
    BY <1>4 DEF Receive
  <2> QED
    BY <1>3, <2>1, <2>2, <2>3 DEF Reporting
<1>5. CASE DisabledInit
  <2>1. state = "DISABLED" /\ at = "INIT_REQ" /\ at' = "receive" /\ state' = "IDLE"
        /\ UNCHANGED <<action, slot, run, offered, verdict, queue>>
    BY <1>2, <1>5 DEF DisabledInit
  <2>2. action = None /\ ~Contains(queue, "OTA_DOWNLOAD_IMAGE")
    BY <2>1 DEF OfferInv
  <2>3. /\ Settled(run) => Settled(run)'
        /\ Settled(Other) => Settled(Other)'
    BY <2>1, SettledStays
  <2>4. CASE unconfirmed' = unconfirmed
    BY <1>2, <2>1, <2>3, <2>4 DEF FinalInv, Reporting
  <2>5. CASE unconfirmed /\ ~unconfirmed' /\ result' = "SUCCESS"
    <3>1. slot[run] = offered
      BY <2>1, <2>5 DEF OfferInv
    <3> QED
      BY <2>1, <2>2, <2>5, <3>1 DEF FinalInv, Reporting
  <2> QED
    BY <1>5, <2>4, <2>5 DEF DisabledInit
<1>6. CASE NoClient \/ PostConfigData \/ DownloadUnanswered \/ DownloadNothing \/ PollFails
  BY <1>3, <1>6 DEF NoClient, PostConfigData, DownloadUnanswered, DownloadNothing, PollFails,
     Reporting
<1>7. CASE PollAnswered
  <2>1. Contains(queue', "OTA_DOWNLOAD_IMAGE") => Contains(queue, "OTA_DOWNLOAD_IMAGE")
    <3>1. "OTA_POST_CONFIG_DATA" \in Events
      BY DEF Events
    <3> QED
      BY <1>7, <3>1, PostQueue DEF PollAnswered
  <2>2. /\ at' \in {"receive", "offer"} /\ action' \in {action, offered}
        /\ UNCHANGED <<state, result, flash, server>>
    BY <1>7 DEF PollAnswered
  <2> QED
    BY <1>3, <2>1, <2>2 DEF Reporting
<1>8. CASE PollOffers
  <2>1. OfferEvent \in Events /\ (result # "NONE" => OfferEvent # "OTA_DOWNLOAD_IMAGE")
    BY DEF OfferEvent, Events
  <2>2. at' = "receive" /\ Post(OfferEvent) /\ UNCHANGED <<memory, flash, server>>
    BY <1>8 DEF PollOffers
  <2>3. \A f : Contains(queue', f) => Contains(queue, f) \/ f = OfferEvent
    BY <2>1, <2>2, PostQueue
  <2> QED
    BY <1>3, <2>1, <2>2, <2>3 DEF Reporting
<1>9. CASE DownloadImage
  BY <1>3, <1>9 DEF DownloadImage, Reporting
<1>10. CASE Begin \/ InstallSucceeds
  <2>1. at \in {"begin", "write"} /\ ~unconfirmed
    BY <1>10 DEF Begin, InstallSucceeds, BootInv
  <2>2. Settled(run)
    BY <1>2, <2>1 DEF Reporting
  <2>3. Other # run
    BY DEF TypeOK, Slots, Other
  <2>4. slot'[run] = slot[run] /\ UNCHANGED <<run, unconfirmed, verdict>>
    BY <1>10, <2>3 DEF Begin, InstallSucceeds, TypeOK
  <2> QED
    BY <2>1, <2>2, <2>4 DEF FinalInv, Settled
<1>11. CASE InstallFails \/ InstallIncomplete
  BY <1>3, <1>11 DEF InstallFails, InstallIncomplete, Reporting
<1>12. CASE ResultNotSent
  BY <1>3, <1>12 DEF ResultNotSent, Reporting
<1>13. CASE ResultReported \/ ReplyLost
  <2>1. /\ at = "OTA_POST_OTA_RESULT" /\ result # "NONE" /\ Record
        /\ UNCHANGED flash
    BY <1>13 DEF ResultReported, ReplyLost
  <2>2. action # None
    BY <2>1 DEF OfferInv
  <2>3. action \in Actions
    BY <2>2 DEF TypeOK
  <2>4. \A a \in Actions : verdict[a] = "SUCCESS" => verdict'[a] = "SUCCESS"
    BY <2>1, <2>2, RecordOffer
  <2>5. /\ Settled(run) => Settled(run)'
        /\ Settled(Other) => Settled(Other)'
    BY <2>1, <2>4, SettledStays
  <2>6. ASSUME Reporting PROVE Settled(run)'
    <3>1. result = "SUCCESS" /\ offered = slot[run] /\ action = offered
      BY <2>2, <2>6 DEF Reporting
    <3>2. verdict[action] = "open"
      BY <2>2, <3>1 DEF OfferInv
    <3>3. verdict'[action] = "SUCCESS"
      BY <2>1, <2>2, <3>1, <3>2, RecordOffer
    <3> QED
      BY <2>1, <3>1, <3>3 DEF Settled
  <2> QED
    BY <1>2, <2>1, <2>5, <2>6 DEF FinalInv
<1>14. CASE TimerFires
  <2>1. Post("OTA_POLL_SERVER") /\ "OTA_POLL_SERVER" \in Events
        /\ UNCHANGED <<memory, at, flash, server>>
    BY <1>14 DEF TimerFires, Events
  <2>2. \A f : Contains(queue', f) => Contains(queue, f) \/ f = "OTA_POLL_SERVER"
    BY <2>1, PostQueue
  <2> QED
    BY <1>3, <2>1, <2>2 DEF Reporting
<1>15. ASSUME NEW e \in {"OTA_POLL_SERVER", "OTA_STOP_POLL_SERVER"}, Posted(e)
       PROVE  FinalInv'
  <2>1. Post(e) /\ e \in Events /\ UNCHANGED <<memory, at, flash, server>>
    BY <1>15 DEF Posted, Events
  <2>2. \A f : Contains(queue', f) => Contains(queue, f) \/ f = e
    BY <2>1, PostQueue
  <2> QED
    BY <1>3, <2>1, <2>2 DEF Reporting
<1>16. ASSUME NEW a \in Actions, ServerOffers(a)
       PROVE  FinalInv'
  <2>1. offered = None /\ UNCHANGED <<flash, verdict>>
    BY <1>16 DEF ServerOffers
  <2>2. Reporting => slot[run] \notin Actions
    BY <2>1, ImagesAssumption DEF Reporting
  <2>3. Settled(run) \/ unconfirmed
    BY <1>2, <2>2 DEF Settled
  <2>4. /\ Settled(run) => Settled(run)'
        /\ Settled(Other) => Settled(Other)'
    BY <2>1, SettledStays
  <2> QED
    BY <1>2, <2>1, <2>3, <2>4 DEF FinalInv
<1>17. CASE PowerCycle
  <2>1. state = "DOWNLOADED" /\ Reboot
    BY <1>17 DEF PowerCycle
  <2>2. ~unconfirmed /\ boot # run
    BY <2>1 DEF OfferInv
  <2>3. Settled(run)
    BY <1>2, <2>1, <2>2 DEF Reporting
  <2>4. run' = boot /\ unconfirmed' = TRUE /\ slot' = slot /\ verdict' = verdict
    BY <2>1, <2>2, FaultsAssumption DEF Reboot, NextBoot
  <2>5. Other' = run
    BY <2>2, <2>4 DEF Other, TypeOK, Slots
  <2> QED
    BY <2>3, <2>4, <2>5 DEF FinalInv, Settled
<1>18. CASE UNCHANGED vars
  BY <1>3, <1>18 DEF vars, Reporting
<1> QED
  BY <1>4, <1>5, <1>6, <1>7, <1>8, <1>9, <1>10, <1>11, <1>12, <1>13, <1>14, <1>15,
     <1>16, <1>17, <1>18
  DEF Next, Task

\* On a device whose bootloader rolls back, the server has no failure of an
\* update that the next boot starts, whatever result and second attempt race
\* each other in the queue and whatever replies get lost, unless it crashed
\* (ota.c 401-406, 688-695).
THEOREM VerdictsFinal ==
  ASSUME Rollback
  PROVE  Spec => []VerdictFinal
<1>1. Init => FinalInv
  BY ImagesAssumption DEF Init, FinalInv, Settled, Slots
<1>2. TypeOK /\ BootInv /\ OfferInv /\ FinalInv => VerdictFinal
  <2> SUFFICES ASSUME TypeOK, BootInv, OfferInv, FinalInv,
                      NEW a \in Actions, slot[NextBoot] = a, verdict[a] = "FAILED",
                      ~(crashes > 0)
               PROVE  FALSE
    BY DEF VerdictFinal
  <2>1. crashes = 0
    BY BoundsAssumption DEF TypeOK
  <2>2. a # None
    BY ImagesAssumption
  <2>3. offered # a
    BY <2>2 DEF OfferInv
  <2>4. ~Settled(NextBoot)
    BY DEF Settled
  <2>5. ~unconfirmed /\ NextBoot = boot
    BY <2>1, <2>4 DEF FinalInv, NextBoot
  <2>6. state # "DOWNLOADED" /\ boot = run
    BY <2>3, <2>5 DEF OfferInv, BootInv
  <2>7. Reporting
    BY <2>1, <2>4, <2>5, <2>6 DEF FinalInv
  <2> QED
    BY <2>3, <2>5, <2>6, <2>7 DEF Reporting
<1>3. Rollback
  OBVIOUS
<1> QED
  BY <1>1, <1>2, <1>3, NextFinal, OfferAlways, PTL DEF Spec

-----------------------------------------------------------------------------
(* The device implements the updater of module Updater.                    *)

\* What the steps of the updater ask for: the slot being written holds nothing
\* and its action counts as attempted; an action that is no longer offered has
\* its verdict; and, as long as every reply arrived, the success that waits to be
\* reported is of the image that runs, is confirmed and still offered.
UpdateInv ==
  /\ at = "write" => slot[Other] = Broken /\ url \in tried
  /\ action \notin {None, offered} => verdict[action] # "open"
  /\ "lostReply" \notin faulted /\ result = "SUCCESS" =>
       offered = slot[run] /\ offered \in Actions /\ ~unconfirmed

LEMMA InitUpdate == Init => UpdateInv
  BY DEF Init, UpdateInv

LEMMA NextUpdate ==
  TypeOK /\ Linked /\ BootInv /\ OfferInv /\ UpdateInv /\ [Next]_vars => UpdateInv'
<1> SUFFICES ASSUME TypeOK, Linked, BootInv, OfferInv, UpdateInv, [Next]_vars
             PROVE  UpdateInv'
  OBVIOUS
<1> USE DEF UpdateInv, memory, flash, server, history, Done, NoPost, Fault, Other
<1>0. at = "INIT_REQ" => state = "DISABLED"
  BY DEF BootInv
<1>1. CASE Receive
  <2>1. Head(queue) # "write"
    BY <1>1, TailQueue DEF Receive, Events
  <2> QED
    BY <1>1, <2>1 DEF Receive
<1>2. CASE DisabledInit
  <2>1. unconfirmed => offered = slot[run] /\ offered \in Actions
    BY <1>0, <1>2 DEF DisabledInit, OfferInv, TypeOK
  <2>2. /\ at' = "receive" /\ (result' = result \/ (result' = "SUCCESS" /\ unconfirmed))
        /\ (result' # result => ~unconfirmed')
        /\ (unconfirmed' => unconfirmed)
        /\ faulted \subseteq faulted'
        /\ UNCHANGED <<slot, run, action, offered, verdict>>
    BY <1>2 DEF DisabledInit
  <2>3. result = "NONE"
    BY <1>0, <1>2 DEF DisabledInit, OfferInv
  <2> QED
    BY <2>1, <2>2, <2>3
<1>3. CASE NoClient \/ PostConfigData \/ DownloadUnanswered \/ DownloadNothing \/ DownloadImage
  BY <1>3 DEF NoClient, PostConfigData, DownloadUnanswered, DownloadNothing, DownloadImage
<1>4. CASE PollFails \/ PollAnswered \/ PollOffers
  BY <1>4 DEF PollFails, PollAnswered, PollOffers
<1>5. CASE Begin
  <2>1. Other \in Slots /\ Other # run
    BY DEF TypeOK, Slots
  <2>2. slot'[Other] = Broken /\ slot'[run] = slot[run]
    BY <1>5, <2>1 DEF Begin, TypeOK
  <2>3. /\ url' \in tried' /\ faulted' = faulted
        /\ UNCHANGED <<run, unconfirmed, action, offered, verdict, result>>
    BY <1>5 DEF Begin
  <2> QED
    BY <2>2, <2>3
<1>6. CASE InstallFails \/ InstallIncomplete
  BY <1>6 DEF InstallFails, InstallIncomplete
<1>7. CASE InstallSucceeds
  <2>1. Other \in Slots /\ Other # run
    BY DEF TypeOK, Slots
  <2>2. slot'[run] = slot[run]
    BY <1>7, <2>1 DEF InstallSucceeds, TypeOK
  <2> QED
    BY <1>7, <2>2 DEF InstallSucceeds
<1>8. CASE ResultNotSent
  BY <1>8 DEF ResultNotSent
<1>9. CASE ResultReported \/ ReplyLost
  <2>1. /\ result # "NONE" /\ Record /\ at' = "receive" /\ action' = action
        /\ "lostReply" \in faulted' \/ result' = "NONE"
    BY <1>9 DEF ResultReported, ReplyLost
  <2>2. action # None
    BY <1>9 DEF ResultReported, ReplyLost, OfferInv
  <2>3. action \in Actions /\ result # "open"
    BY <2>2 DEF TypeOK, Results
  <2>4. verdict'[action] # "open"
    BY <2>1, <2>3 DEF Record, TypeOK
  <2> QED
    BY <2>1, <2>4
<1>10. CASE TimerFires
  BY <1>10 DEF TimerFires
<1>11. CASE \E e \in {"OTA_POLL_SERVER", "OTA_STOP_POLL_SERVER"} : Posted(e)
  BY <1>11 DEF Posted
<1>12. CASE \E a \in Actions : ServerOffers(a)
  <2>1. None \notin Actions
    BY ImagesAssumption
  <2> QED
    BY <1>12, <2>1 DEF ServerOffers
<1>13. CASE PowerCycle \/ Crash
  BY <1>13 DEF PowerCycle, Crash, Reboot
<1>14. CASE UNCHANGED vars
  BY <1>14 DEF vars
<1> QED
  BY <1>1, <1>2, <1>3, <1>4, <1>5, <1>6, <1>7, <1>8, <1>9, <1>10, <1>11, <1>12,
     <1>13, <1>14
  DEF Next, Task

\* A boot of the slot the next boot starts is a boot of the updater, the end of
\* its trial, or nothing to it.
LEMMA RebootUpdates ==
  ASSUME TypeOK, BootInv, OfferInv, Reboot
  PROVE  [Abstract!Next]_(Abstract!vars)
<1>1. /\ run' = (IF unconfirmed THEN Other ELSE boot)
      /\ unconfirmed' = (Rollback /\ run' # run /\ ~unconfirmed)
      /\ state' = "DISABLED"
      /\ UNCHANGED <<slot, offered, verdict, tried, faulted>>
  BY DEF Reboot, NextBoot, server
<1>2. /\ Stage' = IF unconfirmed' THEN "trial" ELSE "stable"
      /\ run \in {0, 1} /\ boot \in {0, 1} /\ unconfirmed \in BOOLEAN
  BY <1>1 DEF Stage, TypeOK, Slots
<1>3. CASE unconfirmed
  <2>1. Stage = "trial"
    BY <1>3 DEF Stage, OfferInv
  <2>2. run' = Other /\ Other' = run
    BY <1>1, <1>2, <1>3 DEF Other
  <2>3. slot'[run'] = slot[Other] /\ slot'[Other'] = slot[run]
    BY <1>1, <2>2
  <2>4. Stage' = "stable"
    BY <1>1, <1>2, <1>3
  <2> QED
    BY <1>1, <2>1, <2>3, <2>4 DEF Abstract!Next, Abstract!FallBack, Abstract!Swap
<1>4. CASE ~unconfirmed /\ state = "DOWNLOADED"
  <2>1. Stage = "ready" /\ boot # run
    BY <1>4 DEF Stage, OfferInv
  <2>2. run' = Other /\ Other' = run
    BY <1>1, <1>2, <1>4, <2>1 DEF Other
  <2>3. slot'[run'] = slot[Other] /\ slot'[Other'] = slot[run]
    BY <1>1, <2>2
  <2>4. Stage' = IF Rollback THEN "trial" ELSE "stable"
    BY <1>1, <1>2, <1>4, <2>1
  <2> QED
    BY <1>1, <2>1, <2>3, <2>4 DEF Abstract!Next, Abstract!Boot, Abstract!Swap
<1>5. CASE ~unconfirmed /\ state # "DOWNLOADED"
  <2>1. Stage = "stable" /\ run' = run
    BY <1>1, <1>5 DEF Stage, BootInv
  <2>2. Other' = Other /\ Stage' = "stable"
    BY <1>1, <1>2, <2>1 DEF Other
  <2> QED
    BY <1>1, <2>1, <2>2 DEF Abstract!vars
<1> QED
  BY <1>3, <1>4, <1>5

\* A result that reaches the server is a report of the updater, the first on the
\* action offered, or nothing to the server.
LEMMA RecordUpdates ==
  ASSUME TypeOK, OfferInv, TruthInv, UpdateInv,
         at = "OTA_POST_OTA_RESULT", state = "IDLE", result # "NONE", Record,
         faulted' \in {faulted, faulted \cup {"lostReply"}},
         UNCHANGED <<state, flash, tried>>
  PROVE  [Abstract!Next]_(Abstract!vars)
<1>1. /\ Stage = IF unconfirmed THEN "trial" ELSE "stable"
      /\ Stage' = Stage /\ Other' = Other /\ slot' = slot /\ run' = run
  BY DEF Stage, Other, flash
<1>2. result \in {"SUCCESS", "FAILED"} /\ action \in Actions
  BY DEF TypeOK, Results, OfferInv
<1>3. CASE action # offered
  <2>1. verdict' = verdict /\ offered' = offered
    BY <1>2, <1>3, ImagesAssumption DEF Record, UpdateInv
  <2>2. "lostReply" \in faulted
    BY <1>2, <1>3, ImagesAssumption DEF TruthInv
  <2> QED
    BY <1>1, <2>1, <2>2 DEF Abstract!vars
<1>4. CASE action = offered
  <2>1. offered # None /\ verdict[offered] = "open"
    BY <1>2, <1>4, ImagesAssumption DEF OfferInv
  <2>2. verdict' = [verdict EXCEPT ![offered] = result] /\ offered' = None
    BY <1>4, <2>1 DEF Record
  <2>3. Stage # "ready"
    BY <1>1
  <2>4. "lostReply" \in faulted \/ Abstract!Deserved(result)
    <3> SUFFICES ASSUME "lostReply" \notin faulted PROVE Abstract!Deserved(result)
      OBVIOUS
    <3>1. result = "SUCCESS" => offered = slot[run] /\ Stage = "stable"
      BY <1>1 DEF UpdateInv
    <3>2. result = "FAILED" => offered \in tried
      BY DEF TruthInv
    <3> QED
      BY <1>2, <3>1, <3>2 DEF Abstract!Deserved
  <2>5. ("lostReply" \in faulted') \in {"lostReply" \in faulted, TRUE}
    OBVIOUS
  <2>6. Abstract!Report(result)
    BY <1>1, <2>1, <2>2, <2>3, <2>4, <2>5 DEF Abstract!Report, Abstract!slots
  <2> QED
    BY <1>2, <2>6 DEF Abstract!Next
<1> QED
  BY <1>3, <1>4

LEMMA StepUpdates ==
  TypeOK /\ Linked /\ BootInv /\ OfferInv /\ TruthInv /\ UpdateInv /\ [Next]_vars
    => [Abstract!Next]_(Abstract!vars)
<1> SUFFICES ASSUME TypeOK, Linked, BootInv, OfferInv, TruthInv, UpdateInv, [Next]_vars
             PROVE  [Abstract!Next]_(Abstract!vars)
  OBVIOUS
<1> USE DEF memory, flash, server, history, Done, NoPost, Fault
<1>0. /\ at \notin {"receive", "INIT_REQ"} => state = "IDLE"
      /\ at = "INIT_REQ" => state = "DISABLED"
      /\ Other \in Slots /\ run \in Slots /\ Other # run
  BY DEF BootInv, TypeOK, Slots, Other
\* What the updater has of the device.
<1>1. ASSUME UNCHANGED <<state, slot, run, unconfirmed, offered, tried, verdict>>,
             "lostReply" \in faulted' <=> "lostReply" \in faulted
      PROVE  UNCHANGED Abstract!vars
  <2>1. Stage' = Stage /\ Other' = Other
    BY <1>1 DEF Stage, Other
  <2> QED
    BY <1>1, <2>1 DEF Abstract!vars
<1>2. CASE \/ Receive \/ NoClient \/ PollFails \/ PollAnswered \/ PollOffers \/ PostConfigData
           \/ DownloadUnanswered \/ DownloadNothing \/ DownloadImage
           \/ InstallIncomplete \/ ResultNotSent \/ TimerFires
           \/ \E e \in {"OTA_POLL_SERVER", "OTA_STOP_POLL_SERVER"} : Posted(e)
  BY <1>1, <1>2 DEF Receive, NoClient, PollFails, PollAnswered, PollOffers, PostConfigData,
     DownloadUnanswered, DownloadNothing, DownloadImage, InstallIncomplete,
     ResultNotSent, TimerFires, Posted
<1>3. CASE DisabledInit
  <2>1. /\ state = "DISABLED" /\ state' = "IDLE"
        /\ UNCHANGED <<slot, run, offered, tried, verdict>>
        /\ "lostReply" \in faulted' <=> "lostReply" \in faulted
    BY <1>0, <1>3 DEF DisabledInit
  <2>2. Other' = Other
    BY <2>1 DEF Other
  <2>3. CASE unconfirmed' = unconfirmed
    <3>1. Stage' = Stage
      BY <2>1, <2>3 DEF Stage
    <3> QED
      BY <2>1, <2>2, <3>1 DEF Abstract!vars
  <2>4. CASE unconfirmed /\ ~unconfirmed'
    <3>1. Stage = "trial" /\ Stage' = "stable"
      BY <2>1, <2>4 DEF Stage
    <3> QED
      BY <2>1, <2>2, <3>1 DEF Abstract!Next, Abstract!Confirm
  <2> QED
    BY <1>3, <2>3, <2>4 DEF DisabledInit
<1>4. CASE Begin \/ InstallFails
  <2>1. url = offered /\ offered # None /\ state = "IDLE"
    BY <1>0, <1>4, ImagesAssumption DEF Begin, InstallFails, OfferInv, Linked
  <2>2. /\ tried' = tried \cup {offered}
        /\ slot' = slot \/ (slot' = [slot EXCEPT ![Other] = Broken] /\ ~unconfirmed)
        /\ UNCHANGED <<state, run, unconfirmed, offered, verdict, faulted>>
    BY <1>4, <2>1 DEF Begin, InstallFails
  <2>3. Stage' = Stage /\ Other' = Other /\ Stage # "ready"
        /\ (~unconfirmed => Stage = "stable")
    BY <2>1, <2>2 DEF Stage, Other
  <2>4. /\ slot'[run'] = slot[run]
        /\ slot'[Other'] = slot[Other] \/ (slot'[Other'] = Broken /\ Stage = "stable")
    BY <1>0, <2>2, <2>3 DEF TypeOK
  <2> QED
    BY <2>1, <2>2, <2>3, <2>4 DEF Abstract!Next, Abstract!Attempt
<1>5. CASE InstallSucceeds
  <2>1. /\ slot' = [slot EXCEPT ![Other] = offered] /\ state' = "DOWNLOADED"
        /\ UNCHANGED <<run, unconfirmed, offered, verdict, tried, faulted>>
    BY <1>5 DEF InstallSucceeds, OfferInv
  <2>2. state = "IDLE" /\ ~unconfirmed /\ slot[Other] = Broken /\ offered \in tried
    BY <1>0, <1>5 DEF InstallSucceeds, BootInv, OfferInv, UpdateInv
  <2>3. Stage = "stable" /\ Stage' = "ready" /\ Other' = Other
    BY <2>1, <2>2 DEF Stage, Other
  <2>4. slot'[run'] = slot[run] /\ slot'[Other'] = offered
    BY <1>0, <2>1, <2>3 DEF TypeOK
  <2> QED
    BY <2>1, <2>2, <2>3, <2>4 DEF Abstract!Next, Abstract!Install
<1>6. CASE ResultReported \/ ReplyLost
  <2>1. /\ at = "OTA_POST_OTA_RESULT" /\ result # "NONE" /\ Record
        /\ faulted' \in {faulted, faulted \cup {"lostReply"}}
        /\ UNCHANGED <<state, flash, tried>>
    BY <1>6 DEF ResultReported, ReplyLost
  <2>2. state = "IDLE"
    BY <1>0, <2>1
  <2> QED
    BY <2>1, <2>2, RecordUpdates
<1>7. ASSUME NEW a \in Actions, ServerOffers(a)
      PROVE  [Abstract!Next]_(Abstract!vars)
  <2>1. /\ offered = None /\ verdict[a] = "open" /\ offered' = a
        /\ UNCHANGED <<state, flash, verdict, tried, faulted>>
    BY <1>7 DEF ServerOffers
  <2>2. Stage' = Stage /\ Other' = Other
    BY <2>1 DEF Stage, Other
  <2>3. Abstract!Offer(a)
    BY <2>1, <2>2 DEF Abstract!Offer, Abstract!slots
  <2> QED
    BY <2>3 DEF Abstract!Next
<1>8. CASE PowerCycle \/ Crash
  BY <1>8, RebootUpdates DEF PowerCycle, Crash
<1>9. CASE UNCHANGED vars
  BY <1>1, <1>9 DEF vars
<1> QED
  BY <1>2, <1>3, <1>4, <1>5, <1>6, <1>7, <1>8, <1>9 DEF Next, Task

\* The device implements its abstract specification, for any set of updates, any
\* faults, posts and crashes and with and without a bootloader that rolls back:
\* an offer is attempted until its image is complete, a trial ends in its
\* confirmation or in the image from before, and the server hears one verdict on
\* each action, deserved unless a reply was lost (ota.c 517-605, 630-636, 684-695,
\* 770-791).
THEOREM Refinement == Spec => ImplementsUpdater
<1>1. Init => Abstract!Init
  <2> SUFFICES ASSUME Init PROVE Abstract!Init
    OBVIOUS
  <2>1. Stage = "stable" /\ Other = 1
    BY DEF Init, Stage, Other
  <2> QED
    BY <2>1 DEF Init, Abstract!Init, Slots
<1>2. Init => TruthInv
  BY DEF Init, TruthInv, VerdictFits
<1> QED
  BY <1>1, <1>2, OfferAlways, NextTruth, InitUpdate, NextUpdate, StepUpdates, PTL
  DEF Spec, ImplementsUpdater, Abstract!Spec

\* What holds of every update holds of the firmware's: a complete image runs,
\* and another waits while a boot may need it; an action that is offered has no
\* verdict, and no verdict is ever changed (ota.c 562-586, 630-636, 684-695).
THEOREM UpdaterDisciplined == Spec => []Abstract!Discipline /\ Abstract!VerdictOnce
<1>1. Abstract!Init => Abstract!Discipline
  BY ImagesAssumption DEF Abstract!Init, Abstract!Discipline
<1>2. Abstract!Discipline /\ [Abstract!Next]_(Abstract!vars) => Abstract!Discipline'
  <2> SUFFICES ASSUME Abstract!Discipline, [Abstract!Next]_(Abstract!vars)
               PROVE  Abstract!Discipline'
    OBVIOUS
  <2> USE ImagesAssumption DEF Abstract!Discipline
  <2>1. CASE \E a \in Actions : Abstract!Offer(a)
    BY <2>1 DEF Abstract!Offer, Abstract!slots
  <2>2. CASE Abstract!Attempt \/ Abstract!Install
    BY <2>2 DEF Abstract!Attempt, Abstract!Install
  <2>3. CASE Abstract!Boot \/ Abstract!Confirm \/ Abstract!FallBack
    BY <2>3 DEF Abstract!Boot, Abstract!Confirm, Abstract!FallBack, Abstract!Swap
  <2>4. CASE \E outcome \in {"SUCCESS", "FAILED"} : Abstract!Report(outcome)
    BY <2>4 DEF Abstract!Report, Abstract!slots
  <2>5. CASE UNCHANGED Abstract!vars
    BY <2>5 DEF Abstract!vars
  <2> QED
    BY <2>1, <2>2, <2>3, <2>4, <2>5 DEF Abstract!Next
<1>3. Abstract!Discipline /\ [Abstract!Next]_(Abstract!vars)
        => [\A a \in Actions : verdict[a] # "open" => verdict'[a] = verdict[a]]_(Abstract!vars)
  BY DEF Abstract!Discipline, Abstract!Next, Abstract!vars, Abstract!Offer, Abstract!Attempt,
     Abstract!Install, Abstract!Boot, Abstract!Confirm, Abstract!FallBack, Abstract!Report
<1> QED
  BY <1>1, <1>2, <1>3, Refinement, PTL
  DEF ImplementsUpdater, Abstract!Spec, Abstract!VerdictOnce
=============================================================================
