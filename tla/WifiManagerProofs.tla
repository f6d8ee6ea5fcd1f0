-------------------------- MODULE WifiManagerProofs --------------------------
(***************************************************************************)
(* Proofs about the Wi-Fi manager, for any networks, any length of its     *)
(* queue, any retry limit and any number of requests, failures and phones. *)
(***************************************************************************)
EXTENDS WifiManager, TLAPS, SequenceTheorems

-----------------------------------------------------------------------------
(* The mutex of the flash.                                                 *)

Saving == {"ssid", "password", "commit"}

\* Until a commit has failed, the mutex is taken exactly while a save writes.
StorageInv ==
  /\ save \in {"no", "lock"} \cup Saving
  /\ ~leaked => (locked <=> save \in Saving)

LEMMA StorageInit == Init => StorageInv
  BY DEF Init, StorageInv, Saving

LEMMA StorageStep == StorageInv /\ [Next]_vars => StorageInv'
<1> SUFFICES ASSUME StorageInv, [Next]_vars PROVE StorageInv'
  OBVIOUS
<1> USE DEF StorageInv, Saving
<1>1. CASE LockStorage
  BY <1>1 DEF LockStorage
<1>2. CASE SaveSsid \/ SavePassword
  BY <1>2 DEF SaveSsid, SavePassword
<1>3. CASE SaveFails \/ Committed \/ CommitFails
  BY <1>3 DEF SaveFails, Committed, CommitFails, SaveReturns
<1>4. CASE UserDisconnected \/ GotIp
  BY <1>4 DEF UserDisconnected, GotIp, BeginSave, Handles
<1>5. CASE UNCHANGED <<save, locked, leaked>>
  BY <1>5
<1>6. CASE \/ LoadAndRestore \/ (\E m \in Connects : ConnectSta(m)) \/ StartScan
           \/ ScanDone \/ UserAttemptFailed \/ ConnectionLost \/ StartAp \/ StopAp
           \/ StopApIgnored \/ HttpStop \/ HttpRestarted \/ GotIpRestored \/ DisconnectSta
  BY <1>5, <1>6 DEF LoadAndRestore, ConnectSta, StartScan, ScanDone, UserAttemptFailed,
     ConnectionLost, StartAp, StopAp, StopApIgnored, HttpStop, HttpRestarted,
     GotIpRestored, DisconnectSta, credentials, storage
<1>7. CASE \/ (\E s \in Senders : SendDone(s)) \/ EventHandler
           \/ (\E t \in Timers : TimerFires(t)) \/ Http
  BY <1>5, <1>7 DEF SendDone, EventHandler, TimerFires, Http, HttpConnect, HttpCopies,
     HttpDisconnect, HttpScan, Request, credentials, storage
<1>8. CASE StationOnline \/ StationFails \/ ScanEnds \/ PhoneJoins \/ PhoneLeaves
  BY <1>5, <1>8 DEF StationOnline, StationFails, ScanEnds, PhoneJoins, PhoneLeaves,
     manager, credentials, storage
<1>9. CASE UNCHANGED vars
  BY <1>5, <1>9 DEF vars
<1> QED
  BY <1>1, <1>2, <1>3, <1>4, <1>6, <1>7, <1>8, <1>9 DEF Next, Manager, Save

\* Whichever access of a save fails, except the commit, the mutex of the flash
\* is given back: outside a save nobody holds it, and a save finds it free
\* (wifi_manager.c 226-298).
THEOREM SaveReleases == Spec => []StorageFree
<1>1. StorageInv => StorageFree
  BY DEF StorageInv, StorageFree, Saving
<1> QED
  BY <1>1, StorageInit, StorageStep, PTL DEF Spec

-----------------------------------------------------------------------------
(* The SCAN bit.                                                           *)

\* Adding to a sequence of events loses nothing.
LEMMA AppendContains ==
  ASSUME NEW q \in Seq(WifiEvents), NEW f \in WifiEvents
  PROVE  /\ Append(q, f) \in Seq(WifiEvents)
         /\ Contains(Append(q, f), f)
         /\ \A e : Contains(q, e) => Contains(Append(q, f), e)
  BY DEF Contains

LEMMA ConcatContains ==
  ASSUME NEW q \in Seq(WifiEvents), NEW r \in Seq(WifiEvents)
  PROVE  /\ q \o r \in Seq(WifiEvents)
         /\ \A e : Contains(q, e) => Contains(q \o r, e)
  BY DEF Contains

\* Taking the head loses nothing else.
LEMMA TailContains ==
  ASSUME NEW q \in Seq(WifiEvents), q # <<>>
  PROVE  /\ Tail(q) \in Seq(WifiEvents)
         /\ \A e : Contains(q, e) => Head(q) = e \/ Contains(Tail(q), e)
  BY DEF Contains

ScanInv ==
  /\ events \in Seq(WifiEvents) /\ phones \in Nat
  /\ ScanNeverStuck

LEMMA ScanInit == Init => ScanInv
  BY DEF Init, ScanInv, ScanNeverStuck

LEMMA ScanStep == ScanInv /\ [Next]_vars => ScanInv'
<1> SUFFICES ASSUME ScanInv, [Next]_vars PROVE ScanInv'
  OBVIOUS
<1> USE DEF ScanInv, ScanNeverStuck, driver
<1>1. \A f \in WifiEvents :
        /\ Append(events, f) \in Seq(WifiEvents)
        /\ Contains(Append(events, f), f)
        /\ \A e : Contains(events, e) => Contains(Append(events, f), e)
  BY AppendContains
<1>2. {"STA_DISCONNECTED", "STA_GOT_IP", "SCAN_DONE", "AP_START", "AP_STOP",
       "AP_STACONNECTED", "AP_STADISCONNECTED"} = WifiEvents
  BY DEF WifiEvents
<1>3. CASE \E m \in Connects : ConnectSta(m)
  <2>1. PICK m \in Connects : ConnectSta(m)
    BY <1>3
  <2>2. "SCAN" \in bits' => "SCAN" \in bits
    BY <2>1 DEF ConnectSta, RequestBits, Connects
  <2>3. CASE ConnectIgnored
    BY <2>1, <2>2, <2>3 DEF ConnectSta
  <2>4. CASE ~ConnectIgnored
    BY <1>1, <1>2, <2>1, <2>2, <2>4 DEF ConnectSta
  <2> QED
    BY <2>3, <2>4
<1>4. CASE StartScan
  BY <1>4 DEF StartScan
<1>5. CASE StartAp
  BY <1>1, <1>2, <1>5 DEF StartAp
<1>6. CASE StopAp
  <2>1. [i \in 1..phones |-> "AP_STADISCONNECTED"] \in Seq(WifiEvents)
    BY <1>2
  <2>2. <<"AP_STOP">> \in Seq(WifiEvents)
    BY <1>2
  <2>3. /\ events' \in Seq(WifiEvents)
        /\ \A e : Contains(events, e) => Contains(events', e)
    BY <1>6, <2>1, <2>2, ConcatContains DEF StopAp
  <2> QED
    BY <1>6, <2>3 DEF StopAp
<1>7. CASE DisconnectSta
  BY <1>1, <1>2, <1>7 DEF DisconnectSta
<1>8. CASE EventHandler
  <2> DEFINE e == Head(events)
  <2>1. Tail(events) \in Seq(WifiEvents) /\ events' = Tail(events) /\ UNCHANGED <<phones, scanning, halted>>
    BY <1>8, TailContains DEF EventHandler
  <2>2. ASSUME "SCAN" \in bits' PROVE "SCAN" \in bits /\ e \notin {"SCAN_DONE", "STA_DISCONNECTED"}
    BY <1>8, <2>2 DEF EventHandler, Cleared, Raised, ClearedOnDisconnect
  <2> QED
    BY <1>8, <2>1, <2>2, TailContains DEF EventHandler
<1>9. CASE StationOnline \/ StationFails \/ ScanEnds
  BY <1>1, <1>2, <1>9 DEF StationOnline, StationFails, ScanEnds, manager
<1>10. CASE PhoneJoins \/ PhoneLeaves
  <2>1. phones' \in Nat
    BY <1>10 DEF PhoneJoins, PhoneLeaves
  <2>2. PICK f \in WifiEvents : events' = Append(events, f)
    BY <1>2, <1>10 DEF PhoneJoins, PhoneLeaves
  <2>3. UNCHANGED <<bits, scanning, halted>>
    BY <1>10 DEF PhoneJoins, PhoneLeaves, manager
  <2> QED
    BY <1>1, <2>1, <2>2, <2>3
<1>11. CASE UNCHANGED driver /\ UNCHANGED halted /\ ("SCAN" \in bits' => "SCAN" \in bits)
  BY <1>11
<1>12. CASE \/ LoadAndRestore \/ ScanDone \/ UserAttemptFailed \/ UserDisconnected
            \/ ConnectionLost \/ StopApIgnored \/ HttpStop \/ HttpRestarted
            \/ GotIpRestored \/ GotIp \/ Save
  BY <1>11, <1>12 DEF LoadAndRestore, ScanDone, UserAttemptFailed, UserDisconnected,
     ConnectionLost, StopApIgnored, HttpStop, HttpRestarted, GotIpRestored, GotIp, Save,
     LockStorage, SaveSsid, SavePassword, SaveFails, Committed, CommitFails, SaveReturns
<1>13. CASE \/ (\E s \in Senders : SendDone(s)) \/ (\E t \in Timers : TimerFires(t)) \/ Http
  BY <1>11, <1>13 DEF SendDone, TimerFires, Http, HttpConnect, HttpCopies,
     HttpDisconnect, HttpScan, Request
<1>14. CASE UNCHANGED vars
  BY <1>11, <1>14 DEF vars
<1> QED
  BY <1>3, <1>4, <1>5, <1>6, <1>7, <1>8, <1>9, <1>10, <1>12, <1>13, <1>14 DEF Next, Manager

\* A SCAN bit that is set will be cleared: a scan runs, or the event that ends
\* it is on its way, for any number of connections that interrupt a scan
\* (wifi_manager.c 652-672, 1090-1102).
THEOREM ScanReleased == Spec => []ScanNeverStuck
<1>1. ScanInv => ScanNeverStuck
  BY DEF ScanInv
<1> QED
  BY <1>1, ScanInit, ScanStep, PTL DEF Spec

-----------------------------------------------------------------------------
(* Type correctness, part by part.                                         *)

MessageTypes ==
  /\ queue \in Seq(Messages) /\ Len(queue) <= QueueLength
  /\ sending \in [Senders -> Messages \cup {Nothing}]

\* Taking a message from the queue.
LEMMA HandlesQueue ==
  ASSUME MessageTypes, NEW m, Handles(m)
  PROVE  /\ m \in Messages /\ sending["manager"] = Nothing
         /\ queue' \in Seq(Messages) /\ Len(queue') <= QueueLength
         /\ \A n : Contains(queue, n) => n = m \/ Contains(queue', n)
<1>1. queue \in Seq(Messages) /\ queue # <<>> /\ Head(queue) = m /\ queue' = Tail(queue)
  BY DEF Handles, MessageTypes
<1>2. m \in Messages /\ Tail(queue) \in Seq(Messages) /\ Len(Tail(queue)) <= QueueLength
  BY <1>1, QueueAssumption DEF MessageTypes
<1>3. \A n : Contains(queue, n) => n = m \/ Contains(Tail(queue), n)
  BY <1>1 DEF Contains
<1> QED
  BY <1>1, <1>2, <1>3 DEF Handles

\* Beginning to send loses no message when the task was not sending.
LEMMA StartSendTypes ==
  ASSUME MessageTypes, NEW s \in Senders, NEW m \in Messages \cup {Nothing}, StartSend(s, m)
  PROVE  /\ sending' \in [Senders -> Messages \cup {Nothing}]
         /\ sending'[s] = m
         /\ \A t \in Senders : t # s => sending'[t] = sending[t]
  BY DEF StartSend, MessageTypes

LEMMA MessagesStep == MessageTypes /\ events \in Seq(WifiEvents) /\ [Next]_vars => MessageTypes'
<1> SUFFICES ASSUME MessageTypes, events \in Seq(WifiEvents), [Next]_vars PROVE MessageTypes'
  OBVIOUS
<1>1. {"manager", "events", "timers", "http"} = Senders
  BY DEF Senders
<1>2. {"CONNECT_RESTORE", "CONNECT_AUTO", "CONNECT_USER", "START_AP", "STOP_AP",
       "DISCONNECT_STA", "START_WIFI_SCAN"} \subseteq Messages
  BY DEF Messages, Connects
\* Messages are taken and others sent by the manager; ...
<1>3. ASSUME NEW m, Handles(m), UNCHANGED sending
      PROVE  MessageTypes'
  BY <1>3, HandlesQueue DEF MessageTypes
<1>4. ASSUME NEW m, Handles(m), NEW n \in Messages, StartSend("manager", n)
      PROVE  MessageTypes'
  BY <1>1, <1>4, HandlesQueue, StartSendTypes DEF MessageTypes
\* ... what the other tasks send leaves the queue alone until there is room.
<1>5. ASSUME UNCHANGED queue, NEW s \in Senders, NEW n \in Messages \cup {Nothing}, StartSend(s, n)
      PROVE  MessageTypes'
  BY <1>5, StartSendTypes DEF MessageTypes
<1>6. CASE UNCHANGED <<queue, sending>>
  BY <1>6 DEF MessageTypes
<1>7. CASE LoadAndRestore \/ ConnectionLost
  BY <1>2, <1>3, <1>4, <1>7 DEF LoadAndRestore, ConnectionLost
<1>8. CASE \/ (\E m \in Connects : ConnectSta(m)) \/ StartScan \/ ScanDone \/ UserAttemptFailed
           \/ UserDisconnected \/ StartAp \/ StopAp \/ StopApIgnored \/ GotIpRestored
           \/ GotIp \/ DisconnectSta
  BY <1>3, <1>8 DEF ConnectSta, StartScan, ScanDone, UserAttemptFailed, UserDisconnected,
     StartAp, StopAp, StopApIgnored, GotIpRestored, GotIp, DisconnectSta
<1>9. CASE HttpStop \/ HttpRestarted \/ LockStorage \/ SaveSsid \/ SavePassword
  BY <1>6, <1>9 DEF HttpStop, HttpRestarted, LockStorage, SaveSsid, SavePassword
<1>10. CASE SaveFails \/ Committed \/ CommitFails
  BY <1>1, <1>2, <1>5, <1>6, <1>10 DEF SaveFails, Committed, CommitFails, SaveReturns
<1>11. CASE \E s \in Senders : SendDone(s)
  <2>1. PICK s \in Senders : SendDone(s)
    BY <1>11
  <2>2. sending[s] \in Messages
    BY <2>1 DEF SendDone, MessageTypes
  <2>3. queue' = Append(queue, sending[s]) /\ Len(queue) < QueueLength /\ StartSend(s, Nothing)
    BY <2>1 DEF SendDone
  <2>4. queue' \in Seq(Messages) /\ Len(queue') <= QueueLength
    BY <2>2, <2>3, QueueAssumption DEF MessageTypes
  <2> QED
    BY <2>3, <2>4, StartSendTypes DEF MessageTypes
<1>12. CASE EventHandler
  <2>1. \A e \in WifiEvents : MessageOf(e) \in Messages \cup {Nothing}
    BY DEF MessageOf, WifiEvents, Messages, Connects
  <2>2. Head(events) \in WifiEvents
    BY <1>12 DEF EventHandler
  <2> QED
    BY <1>1, <1>5, <1>12, <2>1, <2>2 DEF EventHandler
<1>13. CASE \E t \in Timers : TimerFires(t)
  BY <1>1, <1>2, <1>5, <1>13 DEF TimerFires
<1>14. CASE Http
  BY <1>1, <1>2, <1>5, <1>6, <1>14 DEF Http, HttpConnect, HttpCopies, HttpDisconnect, HttpScan, Request
<1>15. CASE StationOnline \/ StationFails \/ ScanEnds \/ PhoneJoins \/ PhoneLeaves
  BY <1>6, <1>15 DEF StationOnline, StationFails, ScanEnds, PhoneJoins, PhoneLeaves, manager
<1> QED
  BY <1>6, <1>7, <1>8, <1>9, <1>10, <1>11, <1>12, <1>13, <1>14, <1>15
  DEF Next, Manager, Save, vars

ControlTypes ==
  /\ bits \subseteq Bits /\ timers \subseteq Timers
  /\ retries \in 0..MaxRetries
  /\ save \in {"no", "lock", "ssid", "password", "commit"} /\ afterSave \in AfterSaves
  /\ {locked, leaked, gaveUp} \subseteq BOOLEAN
  /\ restart \in {"no", "mode", "stop"}

LEMMA ControlStep == ControlTypes /\ [Next]_vars => ControlTypes'
<1> SUFFICES ASSUME ControlTypes, [Next]_vars PROVE ControlTypes'
  OBVIOUS
<1> USE DEF ControlTypes, storage, credentials
<1>1. CASE LoadAndRestore \/ ScanDone \/ StartAp \/ StopAp \/ StopApIgnored \/ HttpStop
           \/ HttpRestarted
  BY <1>1 DEF LoadAndRestore, ScanDone, StartAp, StopAp, StopApIgnored, HttpStop, HttpRestarted
<1>2. CASE (\E m \in Connects : ConnectSta(m)) \/ StartScan \/ DisconnectSta
  BY <1>2 DEF ConnectSta, StartScan, DisconnectSta, RequestBits, Bits
<1>3. CASE UserAttemptFailed \/ UserDisconnected \/ GotIp
  BY <1>3 DEF UserAttemptFailed, UserDisconnected, GotIp, BeginSave, AfterSaves
<1>4. CASE ConnectionLost \/ GotIpRestored
  <2>1. retries' \in 0..MaxRetries
    <3>1. retries' \in {retries, 0, retries + 1} /\ (retries' = retries + 1 => retries < MaxRetries)
      BY <1>4 DEF ConnectionLost, GotIpRestored, RetriesLeft
    <3> QED
      BY <3>1, QueueAssumption
  <2>2. bits' \subseteq Bits /\ timers' \subseteq Timers
    BY <1>4 DEF ConnectionLost, GotIpRestored, RetryTimers, Timers
  <2>3. UNCHANGED <<save, afterSave, locked, leaked, gaveUp, restart>>
    BY <1>4 DEF ConnectionLost, GotIpRestored
  <2> QED
    BY <2>1, <2>2, <2>3
<1>5. CASE LockStorage \/ SaveSsid \/ SavePassword
  BY <1>5 DEF LockStorage, SaveSsid, SavePassword
<1>6. CASE SaveFails \/ Committed \/ CommitFails
  <2>1. SaveReturns /\ locked' \in BOOLEAN /\ leaked' \in BOOLEAN
    BY <1>6 DEF SaveFails, Committed, CommitFails
  <2>2. retries' \in 0..MaxRetries
    BY <2>1, QueueAssumption DEF SaveReturns
  <2>3. timers' \subseteq Timers
    BY <2>1 DEF SaveReturns
  <2>4. save' = "no" /\ afterSave' \in AfterSaves /\ UNCHANGED <<bits, restart, gaveUp>>
    BY <2>1 DEF SaveReturns, AfterSaves
  <2> QED
    BY <2>1, <2>2, <2>3, <2>4
<1>7. CASE EventHandler
  BY <1>7 DEF EventHandler, Raised, Bits
<1>8. CASE (\E s \in Senders : SendDone(s)) \/ (\E t \in Timers : TimerFires(t))
  BY <1>8 DEF SendDone, TimerFires
<1>9. CASE Http
  BY <1>9 DEF Http, HttpConnect, HttpCopies, HttpDisconnect, HttpScan, Request
<1>10. CASE StationOnline \/ StationFails \/ ScanEnds \/ PhoneJoins \/ PhoneLeaves
  BY <1>10 DEF StationOnline, StationFails, ScanEnds, PhoneJoins, PhoneLeaves, manager
<1>11. CASE UNCHANGED vars
  BY <1>11 DEF vars
<1> QED
  BY <1>1, <1>2, <1>3, <1>4, <1>5, <1>6, <1>7, <1>8, <1>9, <1>10, <1>11
  DEF Next, Manager, Save

CredentialTypes ==
  /\ {config, saved} \subseteq Credentials
  /\ entering \in Seq(Networks) /\ Len(entering) <= 2

\* A field of some credentials in place of another's is a field of credentials.
LEMMA CredentialFields ==
  ASSUME NEW c \in Credentials, NEW n \in Networks \cup {NoNet}
  PROVE  /\ [c EXCEPT !.ssid = n] \in Credentials
         /\ [c EXCEPT !.password = n] \in Credentials
         /\ c.ssid \in Networks \cup {NoNet} /\ c.password \in Networks \cup {NoNet}
         /\ Blank \in Credentials
  BY DEF Credentials, Blank

LEMMA CredentialStep == CredentialTypes /\ [Next]_vars => CredentialTypes'
<1> SUFFICES ASSUME CredentialTypes, [Next]_vars PROVE CredentialTypes'
  OBVIOUS
<1> USE DEF CredentialTypes
<1>1. CASE LoadAndRestore
  <2>1. [saved EXCEPT !.password = NoNet] \in Credentials /\ Blank \in Credentials
    BY CredentialFields
  <2> QED
    BY <1>1, <2>1 DEF LoadAndRestore
<1>2. CASE UserDisconnected
  BY <1>2, CredentialFields DEF UserDisconnected
<1>3. CASE SaveSsid \/ SavePassword
  <2>1. config.ssid \in Networks \cup {NoNet} /\ config.password \in Networks \cup {NoNet}
    BY CredentialFields
  <2>2. saved' \in Credentials /\ UNCHANGED <<config, entering>>
    BY <1>3, <2>1, CredentialFields DEF SaveSsid, SavePassword
  <2> QED
    BY <2>2
<1>4. CASE HttpConnect
  <2>1. PICK n \in Networks : entering' = <<n, n>>
    BY <1>4 DEF HttpConnect
  <2>2. config' = Blank /\ saved' = saved
    BY <1>4 DEF HttpConnect, Request
  <2>3. entering' \in Seq(Networks) /\ Len(entering') <= 2
    BY <2>1
  <2> QED
    BY <2>2, <2>3, CredentialFields
<1>5. CASE HttpCopies
  <2>1. Head(entering) \in Networks /\ Tail(entering) \in Seq(Networks) /\ Len(Tail(entering)) <= 2
    BY <1>5 DEF HttpCopies
  <2> QED
    BY <1>5, <2>1, CredentialFields DEF HttpCopies
<1>6. CASE UNCHANGED <<config, saved, entering>>
  BY <1>6
<1>7. CASE \/ (\E m \in Connects : ConnectSta(m)) \/ StartScan \/ ScanDone \/ UserAttemptFailed
           \/ ConnectionLost \/ StartAp \/ StopAp \/ StopApIgnored \/ HttpStop \/ HttpRestarted
           \/ GotIpRestored \/ GotIp \/ DisconnectSta \/ LockStorage
  BY <1>6, <1>7 DEF ConnectSta, StartScan, ScanDone, UserAttemptFailed, ConnectionLost, StartAp,
     StopAp, StopApIgnored, HttpStop, HttpRestarted, GotIpRestored, GotIp, DisconnectSta,
     LockStorage, credentials
<1>8. CASE SaveFails \/ Committed \/ CommitFails
  BY <1>6, <1>8 DEF SaveFails, Committed, CommitFails, SaveReturns
<1>9. CASE \/ (\E s \in Senders : SendDone(s)) \/ EventHandler
           \/ (\E t \in Timers : TimerFires(t)) \/ HttpDisconnect \/ HttpScan
  BY <1>6, <1>9 DEF SendDone, EventHandler, TimerFires, HttpDisconnect, HttpScan, Request, credentials
<1>10. CASE StationOnline \/ StationFails \/ ScanEnds \/ PhoneJoins \/ PhoneLeaves
  BY <1>6, <1>10 DEF StationOnline, StationFails, ScanEnds, PhoneJoins, PhoneLeaves, manager,
     credentials
<1>11. CASE UNCHANGED vars
  BY <1>6, <1>11 DEF vars
<1> QED
  BY <1>1, <1>2, <1>3, <1>4, <1>5, <1>7, <1>8, <1>9, <1>10, <1>11
  DEF Next, Manager, Save, Http

\* No more phones are at the access point than have ever joined it.
DriverTypes ==
  /\ station \in {"idle", "connecting", "online"} /\ mode \in {"STA", "APSTA"}
  /\ phones \in Nat /\ joins \in 0..MaxJoins /\ phones <= joins
  /\ events \in Seq(WifiEvents)
  /\ {lost, scanning, halted} \subseteq BOOLEAN

LEMMA DriverStep == DriverTypes /\ [Next]_vars => DriverTypes'
<1> SUFFICES ASSUME DriverTypes, [Next]_vars PROVE DriverTypes'
  OBVIOUS
<1> USE DEF DriverTypes, driver, counts
<1>1. \A f \in {"STA_DISCONNECTED", "STA_GOT_IP", "SCAN_DONE", "AP_START", "AP_STOP",
             "AP_STACONNECTED", "AP_STADISCONNECTED"} :
        Append(events, f) \in Seq(WifiEvents)
  BY AppendContains DEF WifiEvents
<1>2. CASE \E m \in Connects : ConnectSta(m)
  <2>1. PICK m \in Connects : ConnectSta(m)
    BY <1>2
  <2>2. /\ station' \in {station, "connecting"} /\ lost' \in {lost, FALSE}
        /\ halted' \in {halted, TRUE} /\ UNCHANGED <<mode, phones, joins>>
    BY <2>1 DEF ConnectSta
  <2>3. scanning' \in BOOLEAN
    BY <2>1 DEF ConnectSta
  <2>4. events' \in Seq(WifiEvents)
    BY <1>1, <2>1 DEF ConnectSta
  <2> QED
    BY <2>2, <2>3, <2>4
<1>3. CASE StartScan
  BY <1>3 DEF StartScan
<1>4. CASE StartAp
  BY <1>1, <1>4 DEF StartAp
<1>5. CASE StopAp
  <2>1. [i \in 1..phones |-> "AP_STADISCONNECTED"] \in Seq(WifiEvents)
    BY DEF WifiEvents
  <2>2. <<"AP_STOP">> \in Seq(WifiEvents)
    BY DEF WifiEvents
  <2>3. events' \in Seq(WifiEvents)
    BY <1>5, <2>1, <2>2, ConcatContains DEF StopAp
  <2>4. mode' = "STA" /\ phones' = 0 /\ UNCHANGED <<station, lost, scanning, joins, halted>>
    BY <1>5 DEF StopAp
  <2> QED
    BY <2>3, <2>4
<1>6. CASE DisconnectSta
  BY <1>1, <1>6 DEF DisconnectSta
<1>7. CASE EventHandler
  BY <1>7, TailContains DEF EventHandler
<1>8. CASE StationOnline \/ StationFails \/ ScanEnds
  BY <1>1, <1>8 DEF StationOnline, StationFails, ScanEnds
<1>9. CASE PhoneJoins
  <2>1. joins' \in 0..MaxJoins /\ phones' \in Nat /\ phones' <= joins'
    BY <1>9, BoundsAssumption DEF PhoneJoins
  <2> QED
    BY <1>1, <1>9, <2>1 DEF PhoneJoins
<1>10. CASE PhoneLeaves
  <2>1. joins' \in 0..MaxJoins /\ phones' \in Nat /\ phones' <= joins'
    BY <1>10, BoundsAssumption DEF PhoneLeaves
  <2> QED
    BY <1>1, <1>10, <2>1 DEF PhoneLeaves
<1>11. CASE UNCHANGED <<station, mode, phones, joins, events, lost, scanning, halted>>
  BY <1>11
<1>12. CASE \/ LoadAndRestore \/ ScanDone \/ UserAttemptFailed \/ UserDisconnected
            \/ ConnectionLost \/ StopApIgnored \/ HttpStop \/ HttpRestarted
            \/ GotIpRestored \/ GotIp \/ LockStorage \/ SaveSsid \/ SavePassword
  BY <1>11, <1>12 DEF LoadAndRestore, ScanDone, UserAttemptFailed, UserDisconnected,
     ConnectionLost, StopApIgnored, HttpStop, HttpRestarted, GotIpRestored, GotIp,
     LockStorage, SaveSsid, SavePassword
<1>13. CASE SaveFails \/ Committed \/ CommitFails
  BY <1>11, <1>13 DEF SaveFails, Committed, CommitFails, SaveReturns
<1>14. CASE \/ (\E s \in Senders : SendDone(s)) \/ (\E t \in Timers : TimerFires(t)) \/ Http
  BY <1>11, <1>14 DEF SendDone, TimerFires, Http, HttpConnect, HttpCopies, HttpDisconnect,
     HttpScan, Request
<1>15. CASE UNCHANGED vars
  BY <1>11, <1>15 DEF vars
<1> QED
  BY <1>2, <1>3, <1>4, <1>5, <1>6, <1>7, <1>8, <1>9, <1>10, <1>12, <1>13, <1>14, <1>15
  DEF Next, Manager, Save

TypeInv == MessageTypes /\ ControlTypes /\ CredentialTypes /\ DriverTypes

LEMMA InitTypes == Init => TypeInv
<1> SUFFICES ASSUME Init PROVE TypeInv
  OBVIOUS
<1>1. MessageTypes
  <2>1. queue = <<>> /\ Len(queue) <= QueueLength
    BY QueueAssumption DEF Init
  <2>2. sending \in [Senders -> Messages \cup {Nothing}]
    BY DEF Init, Messages
  <2> QED
    BY <2>1, <2>2 DEF MessageTypes
<1>2. ControlTypes
  <2>1. retries \in 0..MaxRetries
    BY QueueAssumption DEF Init
  <2>2. /\ bits \subseteq Bits /\ timers \subseteq Timers
        /\ save = "no" /\ afterSave \in AfterSaves /\ restart = "no"
    BY DEF Init, AfterSaves
  <2>3. locked = FALSE /\ leaked = FALSE /\ gaveUp = FALSE
    BY Zenon DEF Init
  <2> QED
    BY <2>1, <2>2, <2>3 DEF ControlTypes
<1>3. CredentialTypes
  <2>1. config = Blank /\ Blank \in Credentials
    BY DEF Init, Credentials, Blank
  <2>2. \A n \in Networks : [ssid |-> n, password |-> n] \in Credentials
    BY DEF Credentials
  <2>3. saved \in Credentials
    BY <2>1, <2>2 DEF Init
  <2>4. entering \in Seq(Networks) /\ Len(entering) <= 2
    BY DEF Init
  <2> QED
    BY <2>1, <2>3, <2>4 DEF CredentialTypes
<1>4. DriverTypes
  <2>1. phones \in Nat /\ joins \in 0..MaxJoins /\ phones <= joins
    BY BoundsAssumption DEF Init
  <2>2. station = "idle" /\ mode = "STA" /\ events \in Seq(WifiEvents)
    BY DEF Init
  <2>3. lost = FALSE /\ scanning = FALSE /\ halted = FALSE
    BY Zenon DEF Init
  <2> QED
    BY <2>1, <2>2, <2>3 DEF DriverTypes
<1> QED
  BY <1>1, <1>2, <1>3, <1>4 DEF TypeInv

LEMMA NextTypes == TypeInv /\ [Next]_vars => TypeInv'
  BY MessagesStep, ControlStep, CredentialStep, DriverStep DEF TypeInv, DriverTypes

LEMMA TypesAlways == Spec => []TypeInv
  BY InitTypes, NextTypes, PTL DEF Spec

\* Every variable of the manager, of its timers and of the driver stays in its
\* type: the counter of retries below its limit, no message in the queue that no
\* handler knows, and no phone at the access point that has not joined it
\* (wifi_manager.c 890-1340).
THEOREM TypeCorrect == Spec => []TypeOK
<1>1. TypeInv => TypeOK
  <2> SUFFICES ASSUME TypeInv PROVE TypeOK
    OBVIOUS
  <2>1. phones \in 0..MaxJoins
    BY BoundsAssumption DEF TypeInv, DriverTypes
  <2>2. {gaveUp, lost, scanning, halted} \subseteq BOOLEAN /\ {locked, leaked} \subseteq BOOLEAN
    BY DEF TypeInv, ControlTypes, DriverTypes
  <2>3. /\ station \in {"idle", "connecting", "online"} /\ mode \in {"STA", "APSTA"}
        /\ events \in Seq(WifiEvents)
    BY DEF TypeInv, DriverTypes
  <2> QED
    BY <2>1, <2>2, <2>3 DEF TypeInv, MessageTypes, ControlTypes, CredentialTypes, TypeOK
<1> QED
  BY <1>1, TypesAlways, PTL

-----------------------------------------------------------------------------
(* What the driver is asked to do while no phone has joined.               *)

\* Event e is in q at one place at most.
Once(q, e) == \A i, j \in DOMAIN q : q[i] = e /\ q[j] = e => i = j

LEMMA AppendOnce ==
  ASSUME NEW q \in Seq(WifiEvents), NEW f \in WifiEvents
  PROVE  /\ \A e : Contains(Append(q, f), e) => Contains(q, e) \/ e = f
         /\ \A e : Once(q, e) /\ (e = f => ~Contains(q, e)) => Once(Append(q, f), e)
  BY DEF Contains, Once

LEMMA TailOnce ==
  ASSUME NEW q \in Seq(WifiEvents), q # <<>>
  PROVE  /\ \A e : Contains(Tail(q), e) => Contains(q, e)
         /\ Contains(q, Head(q))
         /\ \A e : Once(q, e) => Once(Tail(q), e)
         /\ Once(q, Head(q)) => ~Contains(Tail(q), Head(q))
  BY DEF Contains, Once

\* CONNECTING stands for a station that is not idle, until the event that it is
\* idle again has been handled; a phone that joins or leaves clears the bit.
Alone ==
  /\ ~Contains(events, "AP_STACONNECTED") /\ ~Contains(events, "AP_STADISCONNECTED")
  /\ station # "idle" \/ Contains(events, "STA_DISCONNECTED") => "CONNECTING" \in bits
  /\ station # "idle" => ~Contains(events, "STA_DISCONNECTED")
  /\ Once(events, "STA_DISCONNECTED")

AloneInv == DriverAccepts /\ (joins = 0 /\ ~halted => Alone)

LEMMA AloneInit == Init => AloneInv
  BY DEF Init, AloneInv, DriverAccepts, Alone, Once, Contains

LEMMA AloneStep == DriverTypes /\ AloneInv /\ [Next]_vars => AloneInv'
<1>1. ASSUME AloneInv, UNCHANGED vars PROVE AloneInv'
  BY <1>1 DEF vars, AloneInv, Alone, DriverAccepts
<1> SUFFICES ASSUME DriverTypes, AloneInv, Next PROVE AloneInv'
  BY <1>1
<1> USE DEF driver, counts
<1>2. ~halted /\ events \in Seq(WifiEvents) /\ joins \in Nat
  BY BoundsAssumption DEF Next, DriverTypes
<1>3. joins = 0 => Alone
  BY <1>2 DEF AloneInv
\* What keeps the invariant: no event and no new connection, ...
<1>4. ASSUME UNCHANGED <<events, joins, halted>>, station' # "idle" => station # "idle",
             "CONNECTING" \in bits => "CONNECTING" \in bits'
      PROVE  AloneInv'
  BY <1>2, <1>3, <1>4 DEF AloneInv, Alone, DriverAccepts
\* ... an event of no consequence, ...
<1>5. ASSUME NEW f \in WifiEvents \ {"STA_DISCONNECTED", "AP_STACONNECTED", "AP_STADISCONNECTED"},
             events' = Append(events, f), UNCHANGED <<joins, halted>>,
             station' # "idle" => station # "idle",
             "CONNECTING" \in bits => "CONNECTING" \in bits'
      PROVE  AloneInv'
  BY <1>2, <1>3, <1>5, AppendOnce DEF AloneInv, Alone, DriverAccepts
\* ... and the end of a connection or of an attempt.
<1>6. ASSUME station # "idle", station' = "idle", events' = Append(events, "STA_DISCONNECTED"),
             UNCHANGED <<joins, halted>>, "CONNECTING" \in bits => "CONNECTING" \in bits'
      PROVE  AloneInv'
  <2>1. "STA_DISCONNECTED" \in WifiEvents
    BY DEF WifiEvents
  <2> QED
    BY <1>2, <1>3, <1>6, <2>1, AppendOnce DEF AloneInv, Alone, DriverAccepts
<1>7. {"SCAN_DONE", "AP_START", "AP_STOP", "STA_GOT_IP"}
        \subseteq WifiEvents \ {"STA_DISCONNECTED", "AP_STACONNECTED", "AP_STADISCONNECTED"}
  BY DEF WifiEvents
<1>8. CASE \E m \in Connects : ConnectSta(m)
  <2>1. PICK m \in Connects : ConnectSta(m)
    BY <1>8
  <2>2. CASE ConnectIgnored
    BY <1>4, <2>1, <2>2 DEF ConnectSta
  <2>3. CASE ~ConnectIgnored
    <3>1. "CONNECTING" \notin bits /\ "CONNECTING" \in bits' /\ UNCHANGED <<joins, config>>
      BY <2>1, <2>3 DEF ConnectSta, ConnectIgnored, credentials
    <3>2. joins = 0 => station = "idle" /\ ~Contains(events, "STA_DISCONNECTED")
      BY <1>3, <3>1 DEF Alone
    <3>3. CASE station = "idle" /\ config.ssid # NoNet
      <4>1. halted' = halted /\ events' \in {events, Append(events, "SCAN_DONE")}
        BY <2>1, <2>3, <3>3 DEF ConnectSta
      <4> QED
        BY <1>2, <1>3, <1>7, <3>1, <3>2, <4>1, AppendOnce DEF AloneInv, Alone, DriverAccepts
    <3>4. CASE ~(station = "idle" /\ config.ssid # NoNet)
      <4>1. halted' = TRUE
        BY <2>1, <2>3, <3>4 DEF ConnectSta
      <4> QED
        BY <1>2, <3>1, <3>2, <3>4, <4>1 DEF AloneInv, DriverAccepts
    <3> QED
      BY <3>3, <3>4
  <2> QED
    BY <2>2, <2>3
<1>9. CASE StartScan
  <2>1. joins = 0 /\ "CONNECTING" \notin bits => station = "idle"
    BY <1>3 DEF Alone
  <2>2. UNCHANGED <<events, station, joins>> /\ bits \subseteq bits'
    BY <1>9 DEF StartScan
  <2>3. halted' => "CONNECTING" \notin bits /\ station = "connecting"
    BY <1>2, <1>9 DEF StartScan
  <2> QED
    BY <1>2, <1>3, <2>1, <2>2, <2>3 DEF AloneInv, Alone, DriverAccepts
<1>10. CASE StartAp
  BY <1>4, <1>5, <1>7, <1>10 DEF StartAp
<1>11. CASE StopAp
  <2>1. UNCHANGED <<station, joins, halted, bits>>
    BY <1>11 DEF StopAp
  <2>2. CASE joins = 0
    <3>1. phones = 0
      BY <2>2 DEF DriverTypes
    <3>2. events \o [i \in 1..0 |-> "AP_STADISCONNECTED"] \o <<"AP_STOP">> = Append(events, "AP_STOP")
      BY <1>2, <1>7
    <3>3. events' \in {events, Append(events, "AP_STOP")}
      BY <1>11, <3>1, <3>2 DEF StopAp
    <3> QED
      BY <1>4, <1>5, <1>7, <2>1, <3>3
  <2>3. CASE joins # 0
    BY <1>2, <2>1, <2>3 DEF AloneInv, DriverAccepts
  <2> QED
    BY <2>2, <2>3
<1>12. CASE DisconnectSta
  <2>1. bits \subseteq bits' /\ UNCHANGED <<joins, halted>>
    BY <1>12 DEF DisconnectSta
  <2> QED
    BY <1>4, <1>6, <1>12, <2>1 DEF DisconnectSta
<1>13. CASE EventHandler
  <2> DEFINE e == Head(events)
  <2>1. events # <<>> /\ events' = Tail(events) /\ UNCHANGED <<station, joins, halted>>
    BY <1>13 DEF EventHandler
  <2>2. e \notin {"STA_DISCONNECTED", "AP_STACONNECTED", "AP_STADISCONNECTED"}
          => ("CONNECTING" \in bits => "CONNECTING" \in bits')
    BY <1>13 DEF EventHandler, Cleared, ClearedOnDisconnect
  <2>3. ASSUME joins = 0 PROVE Alone'
    <3>1. Alone /\ Contains(events, e)
      BY <1>2, <1>3, <2>1, <2>3, TailOnce
    <3>2. e \notin {"AP_STACONNECTED", "AP_STADISCONNECTED"}
      BY <3>1 DEF Alone
    <3>3. /\ \A f : Contains(Tail(events), f) => Contains(events, f)
          /\ Once(Tail(events), "STA_DISCONNECTED")
          /\ e = "STA_DISCONNECTED" => ~Contains(Tail(events), "STA_DISCONNECTED")
      <4>1. Once(events, "STA_DISCONNECTED") /\ events \in Seq(WifiEvents) /\ events # <<>>
        BY <1>2, <2>1, <3>1 DEF Alone
      <4> QED
        BY <4>1, TailOnce
    <3>4. CASE e = "STA_DISCONNECTED"
      BY <2>1, <3>1, <3>3, <3>4 DEF Alone
    <3>5. CASE e # "STA_DISCONNECTED"
      BY <2>1, <2>2, <3>1, <3>2, <3>3, <3>5 DEF Alone
    <3> QED
      BY <3>4, <3>5
  <2> QED
    BY <1>2, <2>1, <2>3 DEF AloneInv, DriverAccepts
<1>14. CASE StationOnline
  BY <1>5, <1>7, <1>14 DEF StationOnline, manager
<1>15. CASE StationFails
  BY <1>6, <1>15 DEF StationFails, manager
<1>16. CASE ScanEnds
  BY <1>5, <1>7, <1>16 DEF ScanEnds, manager
<1>17. CASE PhoneJoins \/ PhoneLeaves
  <2>1. joins' = joins + 1 \/ (joins' = joins /\ phones > 0)
    BY <1>17 DEF PhoneJoins, PhoneLeaves
  <2>2. joins \in Nat /\ phones \in Nat /\ phones <= joins
    BY <1>2 DEF DriverTypes
  <2>3. joins' # 0
    BY <2>1, <2>2
  <2>4. halted' = halted
    BY <1>17 DEF PhoneJoins, PhoneLeaves
  <2> QED
    BY <1>2, <2>3, <2>4 DEF AloneInv, DriverAccepts
<1>18. CASE \/ LoadAndRestore \/ ScanDone \/ UserAttemptFailed \/ UserDisconnected
            \/ ConnectionLost \/ StopApIgnored \/ HttpStop \/ HttpRestarted
            \/ GotIpRestored \/ GotIp \/ LockStorage \/ SaveSsid \/ SavePassword
  <2>1. UNCHANGED <<events, joins, halted, station>>
    BY <1>18 DEF LoadAndRestore, ScanDone, UserAttemptFailed, UserDisconnected,
       ConnectionLost, StopApIgnored, HttpStop, HttpRestarted, GotIpRestored, GotIp,
       LockStorage, SaveSsid, SavePassword
  <2>2. "CONNECTING" \in bits => "CONNECTING" \in bits'
    BY <1>18 DEF LoadAndRestore, ScanDone, UserAttemptFailed, UserDisconnected,
       ConnectionLost, StopApIgnored, HttpStop, HttpRestarted, GotIpRestored, GotIp,
       LockStorage, SaveSsid, SavePassword
  <2> QED
    BY <1>4, <2>1, <2>2
<1>19. CASE SaveFails \/ Committed \/ CommitFails
  BY <1>4, <1>19 DEF SaveFails, Committed, CommitFails, SaveReturns
<1>20. CASE \/ (\E s \in Senders : SendDone(s)) \/ (\E t \in Timers : TimerFires(t)) \/ Http
  BY <1>4, <1>20 DEF SendDone, TimerFires, Http, HttpConnect, HttpCopies, HttpDisconnect,
     HttpScan, Request
<1> QED
  BY <1>8, <1>9, <1>10, <1>11, <1>12, <1>13, <1>14, <1>15, <1>16, <1>17, <1>18, <1>19, <1>20
  DEF Next, Manager, Save

\* Until a phone joins the access point, the driver is never asked to connect or
\* to scan while the station is busy, in whatever order attempts fail, scans and
\* requests come and messages wait: it can only refuse an order to connect
\* without credentials (wifi_manager.c 1041-1044, 1090-1102).
THEOREM DriverNeverRefuses == Spec => []DriverAccepts
<1>1. AloneInv => DriverAccepts
  BY DEF AloneInv
<1>2. TypeInv => DriverTypes
  BY DEF TypeInv
<1> QED
  BY <1>1, <1>2, TypesAlways, AloneInit, AloneStep, PTL DEF Spec

-----------------------------------------------------------------------------
(* Another attempt.                                                        *)

\* The messages that make the manager try again.
Tries == Connects \cup {"STA_DISCONNECTED", "LOAD_AND_RESTORE_STA"}

\* Each address the station has got in q is lost again in q.
Followed(q) ==
  \A i \in DOMAIN q : q[i] = "STA_GOT_IP" =>
    \E j \in DOMAIN q : j > i /\ q[j] = "STA_DISCONNECTED"

LEMMA AppendFollowed ==
  ASSUME NEW q \in Seq(WifiEvents), NEW f \in WifiEvents \ {"STA_GOT_IP"}
  PROVE  /\ Followed(q) => Followed(Append(q, f))
         /\ f = "STA_DISCONNECTED" => Followed(Append(q, f))
<1> DEFINE a == Append(q, f)
<1>1. /\ DOMAIN a = 1..Len(q) + 1 /\ DOMAIN q = 1..Len(q) /\ Len(q) \in Nat
      /\ \A i \in 1..Len(q) : a[i] = q[i]
      /\ a[Len(q) + 1] = f
  OBVIOUS
<1>2. \A i \in DOMAIN a : a[i] = "STA_GOT_IP" => i \in DOMAIN q /\ q[i] = "STA_GOT_IP"
  BY <1>1
<1> HIDE DEF a
<1>3. ASSUME Followed(q) PROVE Followed(a)
  BY <1>1, <1>2, <1>3 DEF Followed
<1>4. ASSUME f = "STA_DISCONNECTED" PROVE Followed(a)
  <2>1. \A i \in DOMAIN q : Len(q) + 1 > i
    BY <1>1
  <2> QED
    BY <1>1, <1>2, <1>4, <2>1 DEF Followed
<1> QED
  BY <1>3, <1>4 DEF a

LEMMA ConcatFollowed ==
  ASSUME NEW q \in Seq(WifiEvents), NEW r \in Seq(WifiEvents \ {"STA_GOT_IP"}), Followed(q)
  PROVE  Followed(q \o r)
  BY DEF Followed

LEMMA TailFollowed ==
  ASSUME NEW q \in Seq(WifiEvents), q # <<>>, Followed(q)
  PROVE  /\ Followed(Tail(q))
         /\ Head(q) = "STA_GOT_IP" => Contains(Tail(q), "STA_DISCONNECTED")
<1>1. Followed(Tail(q))
  <2> SUFFICES ASSUME NEW i \in DOMAIN Tail(q), Tail(q)[i] = "STA_GOT_IP"
               PROVE  \E j \in DOMAIN Tail(q) : j > i /\ Tail(q)[j] = "STA_DISCONNECTED"
    BY DEF Followed
  <2>1. i + 1 \in DOMAIN q /\ q[i + 1] = "STA_GOT_IP" /\ i \in Nat
    OBVIOUS
  <2>2. PICK j \in DOMAIN q : j > i + 1 /\ q[j] = "STA_DISCONNECTED"
    BY <2>1 DEF Followed
  <2>3. j - 1 \in DOMAIN Tail(q) /\ j - 1 > i /\ Tail(q)[j - 1] = "STA_DISCONNECTED"
    BY <2>1, <2>2
  <2> QED
    BY <2>3
<1>2. ASSUME Head(q) = "STA_GOT_IP" PROVE Contains(Tail(q), "STA_DISCONNECTED")
  <2>1. 1 \in DOMAIN q /\ q[1] = "STA_GOT_IP"
    BY <1>2
  <2>2. PICK j \in DOMAIN q : j > 1 /\ q[j] = "STA_DISCONNECTED"
    BY <2>1 DEF Followed
  <2>3. j - 1 \in DOMAIN Tail(q) /\ Tail(q)[j - 1] = "STA_DISCONNECTED"
    BY <2>1, <2>2
  <2> QED
    BY <2>3 DEF Contains
<1> QED
  BY <1>1, <1>2

\* A message that is taken is no longer queued; all others stay on their way.
LEMMA HandlesPending ==
  ASSUME MessageTypes, NEW m, Handles(m),
         UNCHANGED sending \/ \E n \in Messages : StartSend("manager", n)
  PROVE  \A t \in Tries : t # m /\ Pending(t) => Pending(t)'
<1>1. \A t : Contains(queue, t) => t = m \/ Contains(queue', t)
  BY HandlesQueue
<1>2. \A t \in Tries : t # Nothing
  BY DEF Tries, Connects, Nothing
<1>3. \A s \in Senders : sending[s] \in Tries => sending'[s] = sending[s]
  <2>1. sending["manager"] = Nothing /\ "manager" \in Senders
    BY DEF Handles, Senders
  <2> QED
    BY <1>2, <2>1, StartSendTypes
<1> QED
  BY <1>1, <1>3 DEF Pending

\* A task that is not sending may begin to.
LEMMA StartSendPending ==
  ASSUME MessageTypes, UNCHANGED queue, NEW s \in Senders, sending[s] = Nothing,
         NEW n \in Messages \cup {Nothing}, StartSend(s, n)
  PROVE  Pending(n)' /\ \A t \in Tries : Pending(t) => Pending(t)'
<1>1. \A t \in Tries : t # Nothing
  BY DEF Tries, Connects, Nothing
<1> QED
  BY <1>1, StartSendTypes DEF Pending

\* What is sent gets into the queue.
LEMMA SendDonePending ==
  ASSUME MessageTypes, NEW s \in Senders, SendDone(s)
  PROVE  \A t \in Tries : Pending(t) => Pending(t)'
<1>1. queue \in Seq(Messages) /\ sending[s] \in Messages /\ queue' = Append(queue, sending[s])
  BY DEF SendDone, MessageTypes
<1>2. /\ Contains(queue', sending[s])
      /\ \A t : Contains(queue, t) => Contains(queue', t)
  BY <1>1 DEF Contains
<1>3. \A r \in Senders : r # s => sending'[r] = sending[r]
  BY StartSendTypes DEF SendDone
<1> QED
  BY <1>2, <1>3 DEF Pending

\* A station that is idle while the bits or an event say that it is connected,
\* or will be, has the event of its disconnection ahead, behind every event of
\* an address; a save that ends finds its task not sending.
RetryState ==
  /\ NeverGivesUp
  /\ station = "idle" =>
       /\ bits \cap {"CONNECTED", "CONNECTING"} # {} => Contains(events, "STA_DISCONNECTED")
       /\ Followed(events)
  /\ save # "no" => sending["manager"] = Nothing

RetryInv == ~halted => RetryState

LEMMA RetryInit == Init => RetryInv
  BY DEF Init, RetryInv, RetryState, NeverGivesUp, Followed, Retrying, Pending, Senders

LEMMA RetryStep == TypeInv /\ RetryInv /\ [Next]_vars => RetryInv'
<1>1. ASSUME RetryInv, UNCHANGED vars PROVE RetryInv'
  BY <1>1 DEF vars, RetryInv, RetryState, NeverGivesUp, Followed, Retrying, Pending
<1> SUFFICES ASSUME TypeInv, RetryInv, Next, ~halted' PROVE RetryState'
  BY <1>1 DEF RetryInv
<1> USE DEF driver, counts
<1>2. ~halted /\ RetryState /\ MessageTypes /\ events \in Seq(WifiEvents)
  BY DEF Next, RetryInv, TypeInv, DriverTypes
<1>3. /\ {"manager", "events", "timers", "http"} = Senders
      /\ {"CONNECT_RESTORE", "CONNECT_AUTO", "CONNECT_USER", "START_AP", "STOP_AP",
          "DISCONNECT_STA", "START_WIFI_SCAN", "STA_DISCONNECTED"} \subseteq Messages
      /\ Connects \subseteq Tries /\ "STA_DISCONNECTED" \in Tries
      /\ Connects \subseteq Messages
  BY DEF Senders, Messages, Connects, Tries
<1> DEFINE Kept == \A t \in Tries : Pending(t) => Pending(t)'
           KeptEvents == \A e : Contains(events, e) => Contains(events', e)
           KeptRest == /\ "RETRY" \in timers => "RETRY" \in timers'
                       /\ entering # <<>> => entering' # <<>>
                       /\ "AP_STA_CONNECTED" \in bits => "AP_STA_CONNECTED" \in bits'
           NoNewBits == bits' \cap {"CONNECTED", "CONNECTING"} \subseteq bits
           SaveAlone == save' # "no" => sending'["manager"] = Nothing
\* A step that loses nothing of what makes the manager try again.
<1>4. ASSUME Kept, KeptEvents, KeptRest PROVE Retrying => Retrying'
  BY <1>4 DEF Retrying, Tries
<1>5. ASSUME Retrying => Retrying', UNCHANGED <<station, config, gaveUp>>, NoNewBits,
             KeptEvents, Followed(events) => Followed(events'), SaveAlone
      PROVE  RetryState'
  BY <1>2, <1>5 DEF RetryState, NeverGivesUp
\* A step that leaves the driver as it is, and one after which the manager is
\* trying again, or has a reason not to.
<1>6. ASSUME Kept, KeptRest, UNCHANGED <<station, config, gaveUp, events>>, NoNewBits, SaveAlone
      PROVE  RetryState'
  BY <1>4, <1>5, <1>6
<1>7. ASSUME Retrying' \/ gaveUp', UNCHANGED <<station, events>>, NoNewBits, SaveAlone
      PROVE  RetryState'
  BY <1>2, <1>7 DEF RetryState, NeverGivesUp
\* The end of a connection or of an attempt.
<1>8. ASSUME events' = Append(events, "STA_DISCONNECTED"), SaveAlone PROVE RetryState'
  <2>1. "STA_DISCONNECTED" \in WifiEvents \ {"STA_GOT_IP"}
    BY DEF WifiEvents
  <2>2. Contains(events', "STA_DISCONNECTED") /\ Followed(events')
    BY <1>2, <1>8, <2>1, AppendContains, AppendFollowed
  <2> QED
    BY <1>8, <2>2 DEF RetryState, NeverGivesUp, Retrying
<1>9. ASSUME NEW m, Handles(m), UNCHANGED sending \/ \E n \in Messages : StartSend("manager", n)
      PROVE  /\ \A t \in Tries : t # m /\ Pending(t) => Pending(t)'
             /\ m \notin Tries => Kept
             /\ sending["manager"] = Nothing /\ save = "no"
  <2>1. \A t \in Tries : t # m /\ Pending(t) => Pending(t)'
    BY <1>2, <1>9, HandlesPending
  <2> QED
    BY <1>9, <2>1 DEF Handles
<1>10. ASSUME UNCHANGED <<queue, sending>> PROVE Kept
  BY <1>10 DEF Pending
<1>11. CASE LoadAndRestore
  <2>1. CASE gaveUp'
    <3>1. UNCHANGED <<station, events, bits, save>> /\ save = "no"
      BY <1>11 DEF LoadAndRestore, storage, Handles
    <3> QED
      BY <1>7, <2>1, <3>1
  <2>2. CASE StartSend("manager", "CONNECT_RESTORE")
    <3>1. UNCHANGED <<station, events, bits, save>> /\ save = "no"
      BY <1>11 DEF LoadAndRestore, storage, Handles
    <3>2. sending'["manager"] = "CONNECT_RESTORE" /\ "CONNECT_RESTORE" \in Tries
      BY <1>2, <1>3, <2>2, StartSendTypes DEF Tries, Connects
    <3>3. Retrying'
      BY <1>3, <3>2 DEF Retrying, Pending, Tries
    <3> QED
      BY <1>7, <3>1, <3>3
  <2> QED
    BY <1>11, <2>1, <2>2 DEF LoadAndRestore
<1>12. CASE \E m \in Connects : ConnectSta(m)
  <2>1. PICK m \in Connects : ConnectSta(m)
    BY <1>12
  <2>2. SaveAlone
    BY <1>2, <2>1 DEF ConnectSta, RetryState, credentials, storage
  <2>3. CASE ConnectIgnored
    <3>1. UNCHANGED <<station, events, gaveUp, config>> /\ NoNewBits
      BY <2>1, <2>3 DEF ConnectSta, RequestBits, credentials
    <3>2. station = "idle" => Contains(events, "STA_DISCONNECTED")
      BY <1>2, <2>3 DEF RetryState, ConnectIgnored
    <3>3. station = "idle" => Retrying'
      BY <3>1, <3>2 DEF Retrying
    <3> QED
      BY <1>2, <2>2, <3>1, <3>2, <3>3 DEF RetryState, NeverGivesUp
  <2>4. CASE ~ConnectIgnored
    <3>1. station' = "connecting"
      BY <2>1, <2>4 DEF ConnectSta
    <3> QED
      BY <2>2, <3>1 DEF RetryState, NeverGivesUp
  <2> QED
    BY <2>3, <2>4
<1>13. CASE StartScan \/ ScanDone \/ StopApIgnored \/ GotIpRestored
  <2>1. PICK m \in {"START_WIFI_SCAN", "SCAN_DONE", "STOP_AP", "STA_GOT_IP"} : Handles(m)
    BY <1>13 DEF StartScan, ScanDone, StopApIgnored, GotIpRestored
  <2>2. m \notin Tries
    BY DEF Tries, Connects
  <2>3. /\ UNCHANGED <<sending, station, events, gaveUp, config, entering, save>>
        /\ timers \subseteq timers' /\ NoNewBits
        /\ "AP_STA_CONNECTED" \in bits => "AP_STA_CONNECTED" \in bits'
    BY <1>13 DEF StartScan, ScanDone, StopApIgnored, GotIpRestored, credentials, storage
  <2>4. Kept /\ save = "no"
    BY <1>9, <2>1, <2>2, <2>3
  <2> QED
    BY <1>6, <2>3, <2>4
<1>14. CASE GotIp
  <2>1. Handles("STA_GOT_IP") /\ "STA_GOT_IP" \notin Tries
    BY <1>14 DEF GotIp, Tries, Connects
  <2>2. /\ UNCHANGED <<sending, station, events, gaveUp, config, entering, timers>>
        /\ NoNewBits
        /\ "AP_STA_CONNECTED" \in bits => "AP_STA_CONNECTED" \in bits'
    BY <1>14 DEF GotIp
  <2> QED
    BY <1>6, <1>9, <2>1, <2>2
<1>15. CASE UserAttemptFailed \/ UserDisconnected
  <2>1. Handles("STA_DISCONNECTED") /\ UNCHANGED <<sending, station, events>> /\ NoNewBits /\ gaveUp'
    BY <1>15 DEF UserAttemptFailed, UserDisconnected
  <2> QED
    BY <1>7, <1>9, <2>1
<1>16. CASE ConnectionLost
  <2>1. /\ "RETRY" \in timers' \/ "AP_STA_CONNECTED" \in bits'
        /\ NoNewBits
    BY <1>16 DEF ConnectionLost, RetryTimers
  <2>2. UNCHANGED <<station, events, save>> /\ save = "no"
    BY <1>16 DEF ConnectionLost, Handles, credentials, storage
  <2>3. Retrying'
    BY <2>1 DEF Retrying
  <2> QED
    BY <1>7, <2>1, <2>2, <2>3
<1>17. CASE StartAp
  <2>1. Handles("START_AP") /\ "START_AP" \notin Tries
    BY <1>17 DEF StartAp, Tries, Connects
  <2>2. UNCHANGED <<sending, station, bits, gaveUp, config, entering, timers, save>>
    BY <1>17 DEF StartAp, credentials, storage
  <2>3. "AP_START" \in WifiEvents \ {"STA_GOT_IP"}
    BY DEF WifiEvents
  <2>4. KeptEvents /\ (Followed(events) => Followed(events'))
    BY <1>2, <1>17, <2>3, AppendContains, AppendFollowed DEF StartAp
  <2> QED
    BY <1>4, <1>5, <1>9, <2>1, <2>2, <2>4
<1>18. CASE StopAp
  <2>1. Handles("STOP_AP") /\ "STOP_AP" \notin Tries
    BY <1>18 DEF StopAp, Tries, Connects
  <2>2. UNCHANGED <<sending, station, bits, gaveUp, config, entering, timers, save>>
    BY <1>18 DEF StopAp, credentials, storage
  <2> DEFINE left == [i \in 1..phones |-> "AP_STADISCONNECTED"]
  <2>3. left \in Seq(WifiEvents \ {"STA_GOT_IP"}) /\ <<"AP_STOP">> \in Seq(WifiEvents \ {"STA_GOT_IP"})
    BY DEF WifiEvents, TypeInv, DriverTypes
  <2>4. left \in Seq(WifiEvents) /\ <<"AP_STOP">> \in Seq(WifiEvents)
    BY DEF WifiEvents, TypeInv, DriverTypes
  <2>5. events' \in {events, (events \o left) \o <<"AP_STOP">>}
    BY <1>18 DEF StopAp
  <2> HIDE DEF left
  <2>6. events \o left \in Seq(WifiEvents)
    BY <1>2, <2>4, ConcatContains
  <2>7. KeptEvents
    BY <1>2, <2>4, <2>5, <2>6, ConcatContains
  <2>8. ASSUME Followed(events) PROVE Followed(events')
    <3>1. Followed(events \o left)
      BY <1>2, <2>3, <2>8, ConcatFollowed
    <3> QED
      BY <2>3, <2>5, <2>6, <2>8, <3>1, ConcatFollowed
  <2> QED
    BY <1>4, <1>5, <1>9, <2>1, <2>2, <2>7, <2>8
<1>19. CASE HttpStop \/ HttpRestarted
  <2>1. UNCHANGED <<queue, sending, station, events, gaveUp, config, entering, timers, bits, save>>
    BY <1>19 DEF HttpStop, HttpRestarted, credentials, storage
  <2>2. SaveAlone
    BY <1>2, <2>1 DEF RetryState
  <2> QED
    BY <1>6, <1>10, <2>1, <2>2
<1>20. CASE DisconnectSta
  <2>1. Handles("DISCONNECT_STA") /\ "DISCONNECT_STA" \notin Tries
    BY <1>20 DEF DisconnectSta, Tries, Connects
  <2>2. UNCHANGED <<sending, gaveUp, config, entering, timers, save>> /\ bits \subseteq bits' /\ NoNewBits
    BY <1>20 DEF DisconnectSta, credentials, storage
  <2>3. Kept /\ SaveAlone
    BY <1>9, <2>1, <2>2
  <2> QED
    BY <1>6, <1>8, <1>20, <2>2, <2>3 DEF DisconnectSta
<1>21. CASE LockStorage \/ SaveSsid \/ SavePassword
  <2>1. UNCHANGED <<queue, sending, station, events, gaveUp, config, entering, timers, bits>> /\ save # "no"
    BY <1>21 DEF LockStorage, SaveSsid, SavePassword
  <2>2. SaveAlone
    BY <1>2, <2>1 DEF RetryState
  <2> QED
    BY <1>6, <1>10, <2>1, <2>2
<1>22. CASE SaveFails \/ Committed \/ CommitFails
  <2>1. SaveReturns /\ save # "no"
    BY <1>22 DEF SaveFails, Committed, CommitFails
  <2>2. sending["manager"] = Nothing
    BY <1>2, <2>1 DEF RetryState
  <2>3. /\ UNCHANGED <<queue, station, events, gaveUp, config, entering, bits>>
        /\ timers \subseteq timers' /\ save' = "no"
        /\ StartSend("manager", "START_AP") \/ UNCHANGED sending
    BY <2>1 DEF SaveReturns
  <2>4. Kept
    BY <1>2, <1>3, <1>10, <2>2, <2>3, StartSendPending
  <2> QED
    BY <1>6, <2>3, <2>4
<1>23. CASE \E s \in Senders : SendDone(s)
  <2>1. PICK s \in Senders : SendDone(s)
    BY <1>23
  <2>2. UNCHANGED <<station, events, gaveUp, config, entering, timers, bits, save>>
    BY <2>1 DEF SendDone, credentials, storage
  <2>3. sending["manager"] = Nothing => sending'["manager"] = Nothing
    BY <1>2, <1>3, <2>1, StartSendTypes DEF SendDone
  <2>4. SaveAlone
    BY <1>2, <2>2, <2>3 DEF RetryState
  <2> QED
    BY <1>2, <1>6, <2>1, <2>2, <2>4, SendDonePending
\* What the other tasks begin to send.
<1>24. ASSUME NEW s \in Senders \ {"manager"}, sending[s] = Nothing,
              NEW n \in Messages \cup {Nothing}, StartSend(s, n), UNCHANGED <<queue, save>>
       PROVE  Kept /\ Pending(n)' /\ SaveAlone
  <2>1. Kept /\ Pending(n)'
    BY <1>2, <1>24, StartSendPending
  <2>2. sending'["manager"] = sending["manager"]
    BY <1>2, <1>3, <1>24, StartSendTypes
  <2> QED
    BY <1>2, <1>24, <2>1, <2>2 DEF RetryState
<1>25. CASE EventHandler
  <2> DEFINE e == Head(events)
  <2>1. /\ events # <<>> /\ events' = Tail(events) /\ sending["events"] = Nothing
        /\ StartSend("events", MessageOf(e))
        /\ bits' = (bits \ Cleared(e)) \cup Raised(e)
        /\ UNCHANGED <<queue, timers, config, entering, save, gaveUp, station>>
    BY <1>25 DEF EventHandler, credentials, storage
  <2>2. PICK n \in Messages \cup {Nothing} : n = MessageOf(e)
    BY <1>2, <1>3, <2>1 DEF MessageOf
  <2>3. Kept /\ Pending(n)' /\ SaveAlone
    BY <1>3, <1>24, <2>1, <2>2
  <2>4. \A f : Contains(events, f) => e = f \/ Contains(events', f)
    BY <1>2, <2>1, TailContains
  <2>5. e \in {"STA_DISCONNECTED", "AP_STADISCONNECTED"} => Retrying'
    <3>1. e = "STA_DISCONNECTED" => n = "STA_DISCONNECTED"
      BY <1>3, <2>2 DEF MessageOf
    <3>2. e = "AP_STADISCONNECTED" => n = "CONNECT_AUTO"
      BY <2>2 DEF MessageOf, Messages, Connects
    <3> QED
      BY <2>3, <3>1, <3>2 DEF Retrying, Connects
  <2>6. e \notin {"STA_DISCONNECTED", "AP_STADISCONNECTED"} /\ Retrying => Retrying'
    <3>1. ASSUME e \notin {"STA_DISCONNECTED", "AP_STADISCONNECTED"}
          PROVE  "AP_STA_CONNECTED" \in bits => "AP_STA_CONNECTED" \in bits'
      BY <2>1, <3>1 DEF Cleared
    <3> QED
      BY <2>1, <2>3, <2>4, <3>1 DEF Retrying, Tries
  <2>7. ASSUME station = "idle" PROVE Followed(events')
    BY <1>2, <2>1, <2>7, TailFollowed DEF RetryState
  <2>8. ASSUME station = "idle", bits' \cap {"CONNECTED", "CONNECTING"} # {}
        PROVE  Contains(events', "STA_DISCONNECTED")
    <3>1. e # "STA_DISCONNECTED"
      BY <2>1, <2>8 DEF Cleared, Raised, ClearedOnDisconnect
    <3>2. CASE e = "STA_GOT_IP"
      BY <1>2, <2>1, <2>8, <3>2, TailFollowed DEF RetryState
    <3>3. CASE e # "STA_GOT_IP"
      <4>1. bits \cap {"CONNECTED", "CONNECTING"} # {}
        BY <2>1, <2>8, <3>3 DEF Raised
      <4> QED
        BY <1>2, <2>4, <2>8, <3>1, <4>1 DEF RetryState
    <3> QED
      BY <3>2, <3>3
  <2> QED
    BY <1>2, <2>1, <2>3, <2>5, <2>6, <2>7, <2>8 DEF RetryState, NeverGivesUp
<1>26. CASE \E t \in Timers : TimerFires(t)
  <2>1. PICK t \in Timers : TimerFires(t)
    BY <1>26
  <2> DEFINE n == IF t = "RETRY" THEN "CONNECT_AUTO" ELSE "STOP_AP"
  <2>2. /\ sending["timers"] = Nothing /\ StartSend("timers", n) /\ timers' = timers \ {t}
        /\ UNCHANGED <<queue, bits, config, entering, save, gaveUp, station, events>>
    BY <2>1 DEF TimerFires, credentials, storage
  <2>3. Kept /\ Pending(n)' /\ SaveAlone
    <3>1. n \in Messages \cup {Nothing}
      BY <1>3
    <3> HIDE DEF n
    <3> QED
      BY <1>3, <1>24, <2>2, <3>1
  <2>4. CASE t = "RETRY"
    <3>1. Retrying'
      BY <2>3, <2>4 DEF Retrying, Connects
    <3> QED
      BY <1>7, <2>2, <2>3, <3>1
  <2>5. CASE t # "RETRY"
    BY <1>6, <2>2, <2>3, <2>5
  <2> QED
    BY <2>4, <2>5
<1>27. CASE HttpDisconnect \/ HttpScan
  <2>1. PICK n \in {"DISCONNECT_STA", "START_WIFI_SCAN"} : StartSend("http", n)
    BY <1>27 DEF HttpDisconnect, HttpScan
  <2>2. /\ sending["http"] = Nothing
        /\ UNCHANGED <<queue, timers, bits, config, entering, save, gaveUp, station, events>>
    BY <1>27 DEF HttpDisconnect, HttpScan, Request, storage
  <2>3. Kept /\ SaveAlone
    BY <1>3, <1>24, <2>1, <2>2
  <2> QED
    BY <1>6, <2>2, <2>3
<1>28. CASE HttpConnect
  <2>1. /\ entering' # <<>>
        /\ UNCHANGED <<queue, sending, bits, save, station, events>>
    BY <1>28 DEF HttpConnect, Request, storage
  <2>2. SaveAlone
    BY <1>2, <2>1 DEF RetryState
  <2>3. Retrying'
    BY <2>1 DEF Retrying
  <2> QED
    BY <1>7, <2>1, <2>2, <2>3
<1>29. CASE HttpCopies
  <2>1. /\ StartSend("http", "CONNECT_USER") \/ (entering' # <<>> /\ UNCHANGED sending)
        /\ UNCHANGED <<queue, bits, save>>
    BY <1>29 DEF HttpCopies, storage
  <2>2. UNCHANGED <<station, events>>
    BY <1>29 DEF HttpCopies
  <2>3. SaveAlone
    BY <1>2, <1>3, <2>1, StartSendTypes DEF RetryState
  <2>4. Retrying'
    <3>1. CASE StartSend("http", "CONNECT_USER")
      <4>1. sending'["http"] = "CONNECT_USER"
        BY <1>2, <1>3, <3>1, StartSendTypes
      <4> QED
        BY <1>3, <4>1 DEF Retrying, Pending, Connects
    <3>2. CASE entering' # <<>>
      BY <3>2 DEF Retrying
    <3> QED
      BY <2>1, <3>1, <3>2
  <2> QED
    BY <1>7, <2>1, <2>2, <2>3, <2>4
<1>30. ASSUME UNCHANGED manager PROVE Kept /\ KeptRest /\ NoNewBits /\ SaveAlone
  <2>1. UNCHANGED <<queue, sending, timers, bits, entering, save>>
    BY <1>30 DEF manager, credentials, storage
  <2> QED
    BY <1>2, <1>10, <2>1 DEF RetryState
<1>31. CASE StationOnline
  BY <1>30, <1>31 DEF StationOnline, RetryState, NeverGivesUp
<1>32. CASE StationFails
  BY <1>8, <1>30, <1>32 DEF StationFails
<1>33. CASE ScanEnds \/ PhoneJoins \/ PhoneLeaves
  <2>1. PICK f \in {"SCAN_DONE", "AP_STACONNECTED", "AP_STADISCONNECTED"} : events' = Append(events, f)
    BY <1>33 DEF ScanEnds, PhoneJoins, PhoneLeaves
  <2>2. f \in WifiEvents \ {"STA_GOT_IP"}
    BY DEF WifiEvents
  <2>3. KeptEvents /\ (Followed(events) => Followed(events'))
    BY <1>2, <2>1, <2>2, AppendContains, AppendFollowed
  <2>4. UNCHANGED manager /\ station' = station
    BY <1>33 DEF ScanEnds, PhoneJoins, PhoneLeaves
  <2>5. UNCHANGED <<config, gaveUp>>
    BY <2>4 DEF manager, credentials
  <2> QED
    BY <1>4, <1>5, <1>30, <2>3, <2>4, <2>5
<1> QED
  BY <1>11, <1>12, <1>13, <1>14, <1>15, <1>16, <1>17, <1>18, <1>19, <1>20, <1>21, <1>22,
     <1>23, <1>25, <1>26, <1>27, <1>28, <1>29, <1>31, <1>32, <1>33
  DEF Next, Manager, Save, Http

\* A device with credentials that is offline tries again, or its last failure
\* was one the user asked for, in whatever order connections fail, addresses
\* come, phones join and leave and users enter credentials
\* (wifi_manager.c 1177-1249, 702-708).
THEOREM TriesAgain == Spec => []NeverGivesUp
<1>1. RetryInv => NeverGivesUp
  BY DEF RetryInv, RetryState, NeverGivesUp
<1> QED
  BY <1>1, TypesAlways, RetryInit, RetryStep, PTL DEF Spec
=============================================================================
