------------------------------- MODULE OtaApp --------------------------------
(***************************************************************************)
(* Firmware update over the air (components/application/ota.c).  The task  *)
(* polls an update server; the answer may link to an action, an update the *)
(* server wants installed.  The task downloads the image into the flash    *)
(* slot it does not run from, makes that slot the boot slot and waits for  *)
(* a reboot.  Only on a later boot it reports the result, with the id of   *)
(* the action the server offers by then.                                   *)
(*                                                                         *)
(* The result, the action id and the links are in memory and lost in a     *)
(* reboot; the slots and the boot slot survive it.                         *)
(*                                                                         *)
(* Handlers are split around their requests to the server, which take      *)
(* seconds to minutes: events arrive, the server acts and the power may    *)
(* fail meanwhile.  The server and the ESP-IDF OTA library are external.   *)
(* The server serves an action until it has recorded a verdict on it.      *)
(***************************************************************************)
EXTENDS AppEvents

CONSTANTS
  Actions,      \* the updates the server wants installed
  None,         \* no action, no link
  Factory,      \* the image the device was shipped with
  Broken,       \* the content of a slot that is being written
  QueueLength,  \* xQueueCreate( 8, ... )
  Rollback,     \* CONFIG_BOOTLOADER_APP_ROLLBACK_ENABLE
  Faults,       \* what may go wrong besides crashes: see FaultKinds
  MaxPosts,     \* bound: events other tasks post in one run of the firmware
  MaxCrashes,   \* bound: crashes and power losses
  MaxBacklog    \* bound: events queued when the timer fires, few in 5 minutes

\* The reply to a result is lost after the server recorded it; the running
\* image cannot be marked valid; esp_http_client_init returns NULL.
FaultKinds == {"lostReply", "markFails", "noClient"}

ASSUME ImagesAssumption ==
  Factory # Broken /\ {None, Factory, Broken} \cap Actions = {}
ASSUME QueueAssumption == QueueLength \in Nat \ {0}
ASSUME FaultsAssumption == Rollback \in BOOLEAN /\ Faults \subseteq FaultKinds
ASSUME BoundsAssumption == MaxPosts \in Nat /\ MaxCrashes \in Nat /\ MaxBacklog \in Nat

States == {"DISABLED", "IDLE", "DOWNLOADED"}
Results == {"NONE", "SUCCESS", "FAILED"}
Slots == {0, 1}
Images == Actions \cup {Factory, Broken}
Events == {"INIT_REQ", "OTA_POLL_SERVER", "OTA_STOP_POLL_SERVER",
           "OTA_POST_CONFIG_DATA", "OTA_DOWNLOAD_IMAGE", "OTA_POST_OTA_RESULT"}

VARIABLES
  state,        \* ctx.state
  result,       \* ctx.ota_update_result
  action,       \* ctx.action_id
  url,          \* the action urlDeploymentBase links to
  polling,      \* the polling timer runs
  queue,        \* ctx.queue
  at,           \* where the task is
  slot,         \* the image in each slot
  run,          \* the slot the firmware runs from
  boot,         \* the slot the next boot starts
  unconfirmed,  \* the running image is PENDING_VERIFY
  offered,      \* server: the action it offers
  verdict,      \* server: what it recorded of each action
  posts,        \* events posted by other tasks since the boot
  polled,       \* the server was polled since the boot
  crashes,      \* crashes so far
  tried,        \* actions whose installation was begun
  ran,          \* actions whose image was booted
  faulted,      \* faults that have happened
  halted        \* an assert failed

vars == <<state, result, action, url, polling, queue, at, slot, run, boot,
          unconfirmed, offered, verdict, posts, polled, crashes, tried, ran, faulted, halted>>
memory == <<state, result, action, url, polled>>
flash == <<slot, run, boot, unconfirmed>>
server == <<offered, verdict>>
history == <<posts, crashes, tried, ran, faulted>>

\* The handler tables.  Nobody sends DEINIT_REQ, the one entry of DOWNLOADED.
Handlers ==
  [DISABLED |-> {"INIT_REQ"},
   IDLE |-> {"OTA_POLL_SERVER", "OTA_POST_CONFIG_DATA", "OTA_DOWNLOAD_IMAGE",
             "OTA_POST_OTA_RESULT"},
   DOWNLOADED |-> {"DEINIT_REQ"}]

Init ==
  /\ state = "DISABLED" /\ result = "NONE" /\ action = None /\ url = None
  /\ polling = FALSE
  /\ queue = <<"INIT_REQ">>
  /\ at = "receive"
  /\ slot = [s \in Slots |-> IF s = 0 THEN Factory ELSE Broken]
  /\ run = 0 /\ boot = 0 /\ unconfirmed = FALSE
  /\ offered = None
  /\ verdict = [a \in Actions |-> "open"]
  /\ posts = 0 /\ polled = FALSE /\ crashes = 0
  /\ tried = {} /\ ran = {} /\ faulted = {}
  /\ halted = FALSE

-----------------------------------------------------------------------------
(* The task.  `at' is "receive", the event whose handler was entered, or a  *)
(* point inside that handler.                                              *)

\* OTA_PostMsg: its assertion fails when the queue is full.
Post(e) ==
  /\ queue' = Send(queue, QueueLength, e)
  /\ halted' = Full(queue, QueueLength)

NoPost == UNCHANGED <<queue, halted>>
Fault(f) == f \in Faults /\ faulted' = faulted \cup {f}
Done == at' = "receive"
Other == 1 - run

Receive ==
  /\ at = "receive"
  /\ queue # <<>>
  /\ queue' = Tail(queue)
  /\ at' = IF HasHandler(Handlers, state, Head(queue)) THEN Head(queue) ELSE at
  /\ UNCHANGED <<memory, polling, flash, server, history, halted>>

\* _state_disabled_init: an image on its first boot is marked valid, and that
\* is the success that will be reported.
DisabledInit ==
  /\ at = "INIT_REQ"
  /\ IF unconfirmed
     THEN \/ unconfirmed' = FALSE /\ result' = "SUCCESS" /\ UNCHANGED faulted
          \/ Fault("markFails") /\ UNCHANGED <<unconfirmed, result>>
     ELSE UNCHANGED <<unconfirmed, result, faulted>>
  /\ state' = "IDLE"
  /\ Done
  /\ NoPost
  /\ UNCHANGED <<action, url, polled, polling, slot, run, boot, server, posts,
                 crashes, tried, ran>>

\* A handler returns at once because it gets no HTTP client.
NoClient ==
  /\ at \in {"OTA_POLL_SERVER", "OTA_POST_CONFIG_DATA", "OTA_DOWNLOAD_IMAGE",
             "OTA_POST_OTA_RESULT"}
  /\ Fault("noClient")
  /\ Done
  /\ NoPost
  /\ UNCHANGED <<memory, polling, flash, server, posts, crashes, tried, ran>>

\* The poll fails, or its answer is empty, or it cannot be parsed; in the last
\* case the links have been cleared.
PollFails ==
  /\ at = "OTA_POLL_SERVER"
  /\ polling' = TRUE
  /\ url' \in {url, None}
  /\ polled' = TRUE
  /\ Done
  /\ NoPost
  /\ UNCHANGED <<state, result, action, flash, server, history>>

\* The answer has the links; the one to configData comes first.
PollAnswered ==
  /\ at = "OTA_POLL_SERVER"
  /\ polling' = TRUE
  /\ url' = offered
  /\ action' = IF offered = None THEN action ELSE offered
  /\ polled' = TRUE
  /\ NoPost \/ Post("OTA_POST_CONFIG_DATA")
  /\ at' = IF offered = None THEN "receive" ELSE "offer"
  /\ UNCHANGED <<state, result, flash, server, history>>

\* Variant: a pending result is not looked at.
OfferEventDownload == "OTA_DOWNLOAD_IMAGE"
OfferEvent == IF result # "NONE" THEN "OTA_POST_OTA_RESULT" ELSE "OTA_DOWNLOAD_IMAGE"

PollOffers ==
  /\ at = "offer"
  /\ Post(OfferEvent)
  /\ Done
  /\ UNCHANGED <<memory, polling, flash, server, history>>

\* Whether the server answers is of no consequence.
PostConfigData ==
  /\ at = "OTA_POST_CONFIG_DATA"
  /\ Done
  /\ NoPost
  /\ UNCHANGED <<memory, polling, flash, server, history>>

\* The request for the deployment fails; also when the link was cleared.
DownloadUnanswered ==
  /\ at = "OTA_DOWNLOAD_IMAGE"
  /\ Done
  /\ NoPost
  /\ UNCHANGED <<memory, polling, flash, server, history>>

\* The answer has no artifact main.bin: the timer is stopped and started.
DownloadNothing ==
  /\ at = "OTA_DOWNLOAD_IMAGE"
  /\ url # None
  /\ polling' = TRUE
  /\ Done
  /\ NoPost
  /\ UNCHANGED <<memory, flash, server, history>>

DownloadImage ==
  /\ at = "OTA_DOWNLOAD_IMAGE"
  /\ url # None /\ url = offered
  /\ polling' = FALSE
  /\ at' = "begin"
  /\ NoPost
  /\ UNCHANGED <<memory, flash, server, history>>

\* esp_https_ota_begin erases the other slot.
Begin ==
  /\ at = "begin"
  /\ ~unconfirmed
  /\ slot' = [slot EXCEPT ![Other] = Broken]
  /\ tried' = tried \cup {url}
  /\ at' = "write"
  /\ NoPost
  /\ UNCHANGED <<memory, polling, run, boot, unconfirmed, server, posts, crashes, ran,
                 faulted>>

\* Variant: after a failure the polling timer is not started again.
RestartPollingNot == UNCHANGED polling
RestartPolling == polling' = TRUE

\* Beginning or finishing fails, or the image is rejected.  After a failed
\* finish the code aborts a handle that is gone, which may crash (Crash).
InstallFails ==
  /\ at \in {"begin", "write"}
  /\ result' = "FAILED"
  /\ Post("OTA_POST_OTA_RESULT")
  /\ tried' = tried \cup {url}
  /\ RestartPolling
  /\ Done
  /\ UNCHANGED <<state, action, url, polled, flash, server, posts, crashes, ran,
                 faulted>>

\* Variant: the download is used without asking whether it is complete.
InstallIncompleteUsed ==
  /\ at = "write"
  /\ boot' = Other
  /\ state' = "DOWNLOADED"
  /\ RestartPolling
  /\ Done
  /\ NoPost
  /\ UNCHANGED <<result, action, url, polled, slot, run, unconfirmed, server, history>>
\* The connection ended early: no result, the next poll starts over.
InstallIncomplete ==
  /\ at = "write"
  /\ RestartPolling
  /\ Done
  /\ NoPost
  /\ UNCHANGED <<memory, flash, server, history>>

InstallSucceeds ==
  /\ at = "write"
  /\ slot' = [slot EXCEPT ![Other] = url]
  /\ boot' = Other
  /\ state' = "DOWNLOADED"
  /\ RestartPolling
  /\ Done
  /\ NoPost
  /\ UNCHANGED <<result, action, url, polled, run, unconfirmed, server, history>>

\* What the server records when a result reaches it.
Record ==
  /\ verdict' = IF verdict[action] # "open" THEN verdict
                ELSE [verdict EXCEPT ![action] = result]
  /\ offered' = IF offered = action THEN None ELSE offered

ResultNotSent ==
  /\ at = "OTA_POST_OTA_RESULT"
  /\ Done
  /\ NoPost
  /\ UNCHANGED <<memory, polling, flash, server, history>>

\* Variant: the result is kept after it was reported.
ResultReportedKept ==
  /\ at = "OTA_POST_OTA_RESULT"
  /\ result # "NONE"
  /\ Record
  /\ UNCHANGED result
  /\ Done
  /\ NoPost
  /\ UNCHANGED <<state, action, url, polled, polling, flash, history>>
\* Variant: a result is posted though there is none.
ResultReportedAlways ==
  /\ at = "OTA_POST_OTA_RESULT"
  /\ action # None
  /\ Record
  /\ result' = "NONE"
  /\ Done
  /\ NoPost
  /\ UNCHANGED <<state, action, url, polled, polling, flash, history>>
ResultReported ==
  /\ at = "OTA_POST_OTA_RESULT"
  /\ result # "NONE"
  /\ Record
  /\ result' = "NONE"
  /\ Done
  /\ NoPost
  /\ UNCHANGED <<state, action, url, polled, polling, flash, history>>

\* The server recorded the result, but the request failed for the task.
ReplyLost ==
  /\ at = "OTA_POST_OTA_RESULT"
  /\ result # "NONE"
  /\ Fault("lostReply")
  /\ Record
  /\ Done
  /\ NoPost
  /\ UNCHANGED <<memory, polling, flash, posts, crashes, tried, ran>>

Task ==
  \/ Receive
  \/ DisabledInit
  \/ NoClient
  \/ PollFails
  \/ PollAnswered
  \/ PollOffers
  \/ PostConfigData
  \/ DownloadUnanswered
  \/ DownloadNothing
  \/ DownloadImage
  \/ Begin
  \/ InstallFails
  \/ InstallIncomplete
  \/ InstallSucceeds
  \/ ResultNotSent
  \/ ResultReported
  \/ ReplyLost

-----------------------------------------------------------------------------
(* Others.                                                                 *)

TimerFires ==
  /\ polling
  /\ Len(queue) <= MaxBacklog
  /\ polling' = FALSE
  /\ Post("OTA_POLL_SERVER")
  /\ UNCHANGED <<memory, at, flash, server, history>>

\* The network manager, when the link comes up or goes down, and the TCP
\* server, when the OTA configuration is saved.  The last post of a run of the
\* firmware is a poll: what the bound leaves room for is that the link is up.
Posted(e) ==
  /\ posts < IF e = "OTA_POLL_SERVER" THEN MaxPosts ELSE MaxPosts - 1
  /\ posts' = posts + 1
  /\ Post(e)
  /\ UNCHANGED <<memory, polling, at, flash, server, crashes, tried, ran, faulted>>

ServerOffers(a) ==
  /\ offered = None
  /\ verdict[a] = "open"
  /\ offered' = a
  /\ UNCHANGED <<memory, polling, queue, at, flash, verdict, history, halted>>

\* An image that was not marked valid on its first boot is given up for the one
\* in the other slot.
NextBoot == IF unconfirmed THEN Other ELSE boot

Reboot ==
  /\ run' = NextBoot
  /\ boot' = NextBoot
  /\ unconfirmed' = (Rollback /\ NextBoot # run /\ ~unconfirmed)
  /\ ran' = ran \cup ({slot[NextBoot]} \cap Actions)
  /\ state' = "DISABLED" /\ result' = "NONE" /\ action' = None /\ url' = None
  /\ polling' = FALSE
  /\ queue' = <<"INIT_REQ">>
  /\ at' = "receive"
  /\ posts' = 0 /\ polled' = FALSE
  /\ halted' = FALSE
  /\ UNCHANGED <<slot, server, tried, faulted>>

\* Nothing in the code reboots after a download: somebody does.
PowerCycle == state = "DOWNLOADED" /\ Reboot /\ UNCHANGED crashes

\* A failed assertion, a panic or a loss of power, at any point.
Crash == crashes < MaxCrashes /\ Reboot /\ crashes' = crashes + 1

-----------------------------------------------------------------------------
Next ==
  \/ /\ ~halted
     /\ \/ Task
        \/ TimerFires
        \/ \E e \in {"OTA_POLL_SERVER", "OTA_STOP_POLL_SERVER"} : Posted(e)
        \/ \E a \in Actions : ServerOffers(a)
        \/ PowerCycle
  \/ Crash

Spec == Init /\ [][Next]_vars

\* The task runs, the timer fires, the link comes up after a boot, somebody
\* power-cycles a device that waits for it, and requests that are repeated
\* without end do not all fail.
Fairness ==
  /\ WF_vars(~halted /\ Task)
  /\ WF_vars(~halted /\ TimerFires)
  /\ WF_vars(~halted /\ ~polled /\ Posted("OTA_POLL_SERVER"))
  /\ WF_vars(~halted /\ PowerCycle)
  /\ SF_vars(~halted /\ PollAnswered)
  /\ SF_vars(~halted /\ ResultReported)

FairSpec == Spec /\ Fairness

-----------------------------------------------------------------------------
(* Properties.                                                             *)

Points == {"receive", "INIT_REQ", "OTA_POLL_SERVER", "OTA_POST_CONFIG_DATA",
           "OTA_DOWNLOAD_IMAGE", "OTA_POST_OTA_RESULT", "offer", "begin", "write"}

TypeOK ==
  /\ state \in States /\ result \in Results
  /\ action \in Actions \cup {None} /\ url \in Actions \cup {None}
  /\ queue \in Seq(Events) /\ Len(queue) <= QueueLength
  /\ at \in Points
  /\ slot \in [Slots -> Images] /\ run \in Slots /\ boot \in Slots
  /\ offered \in Actions \cup {None}
  /\ verdict \in [Actions -> {"open", "SUCCESS", "FAILED"}]
  /\ posts \in 0..MaxPosts /\ crashes \in 0..MaxCrashes
  /\ tried \subseteq Actions /\ ran \subseteq Actions /\ faulted \subseteq Faults
  /\ {polling, unconfirmed, polled, halted} \subseteq BOOLEAN

\* What the server is told of an action is about that action: it succeeded
\* only if its image was booted, it failed only if its installation was begun
\* (ota.c 684-695 and 770-791, where the id and the result come from
\* different polls and different boots).
VerdictFits ==
  \A a \in Actions :
    /\ verdict[a] = "SUCCESS" => a \in ran
    /\ verdict[a] = "FAILED" => a \in tried

\* The same, as long as no reply to a result was lost, whatever else fails.
VerdictTrue == "lostReply" \in faulted \/ VerdictFits

\* An update that the next boot starts has not been given up: the server has
\* no failure of it.  The result of the installation and that of a second
\* attempt race each other in the queue (ota.c 401-406, 688-695).  A crash
\* excuses it: the result is in memory only, so a device that crashes before
\* it has reported a success tries the update again.  It holds with rollback;
\* without, no success is reported and every device tries the update again.
VerdictFinal ==
  \A a \in Actions : slot[NextBoot] = a => verdict[a] # "FAILED" \/ crashes > 0

\* Whenever the power fails, the device boots a complete image: the slot the
\* next boot starts is never the one being written or left half written
\* (ota.c 562-586).
BootIntact == slot[run] # Broken /\ slot[boot] # Broken

\* Once the server was polled, the next poll is coming: the timer runs, or the
\* poll is queued, or a handler that will start the timer is at work (ota.c
\* 656-657, 756-767).  Without memory for an HTTP client the poll itself returns
\* before it starts the timer, and polling ends until the link comes up again.
PollPending ==
  state = "IDLE" /\ polled /\ ~halted /\ "noClient" \notin faulted =>
    polling \/ Contains(queue, "OTA_POLL_SERVER")
            \/ at \in {"OTA_POLL_SERVER", "begin", "write"}

\* An update that runs is reported to the server as a success (ota.c 630-636,
\* 770-791), unless it crashed, could not be marked valid, or the memory for an
\* HTTP client was missing.
InstalledReported ==
  \A a \in Actions :
    slot[run] = a ~> \/ verdict[a] = "SUCCESS" \/ crashes > 0
                     \/ {"markFails", "noClient"} \cap faulted # {}

-----------------------------------------------------------------------------
(* The device implements the updater of module Updater.                    *)

Stage ==
  IF state = "DOWNLOADED" THEN "ready" ELSE IF unconfirmed THEN "trial" ELSE "stable"

Abstract == INSTANCE Updater WITH
  image <- slot[run],
  spare <- slot[Other],
  stage <- Stage,
  offer <- offered,
  attempted <- tried,
  lost <- "lostReply" \in faulted

\* Queue, requests, polls and crashes do not show: seen from outside, an offer
\* is attempted until its image is complete, then the device only boots it, a
\* trial ends in a confirmation or in the image from before, and each verdict is
\* the first on the action offered and, as long as no reply was lost, deserved
\* (ota.c 517-605, 630-636, 684-695, 770-791).
ImplementsUpdater == Abstract!Spec
=============================================================================
