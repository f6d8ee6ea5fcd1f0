# Verification of the bimbrownik firmware

TLA+ models of the ESP32 firmware under `src/`, with the TLC configurations
that check them and the TLAPS proofs of what matters most. `PROJECT.json` maps
every definition to the lines it models, and lists the runs, the mutants that
show each property can fail, the findings, the hazards and the theorems.

    tlc -workers 2 -config TcpServer.cfg MCTcpServer.tla     # one run
    tlapm TcpServerProofs.tla                                # one proof

## The system

The firmware controls valves and reads sensors; it is configured over TCP,
reports over MQTT and updates itself over HTTPS. It is a set of *active
objects*: FreeRTOS tasks with a bounded queue each, a state, and a table of
handlers per state. A task takes one event, looks it up in the table of its
current state and runs the handler; an event without an entry is dropped
without a word (`utils/app_events.c`). Posting has a timeout of zero and
`assert( 0 )` behind it, so an overflow reboots the device. Only the Wi-Fi
manager, a component of third-party origin that was adapted here, works
differently: its senders wait.

| Component | State it keeps | Operations | Hard behaviour |
|---|---|---|---|
| Application manager (`app_manager.c`) | state, answers counted, timer | starts the modules, collects answers | timeout against late answers |
| Network manager (`network_manager.c`) | state, answers, Wi-Fi result, timer | starts the Wi-Fi driver and the TCP server, passes link changes on | the same; link changes during the start |
| Wi-Fi driver task (`wifidrv.c`) | state | starts the Wi-Fi manager, registers callbacks | callbacks race their registration |
| Wi-Fi manager (`wifi_manager.c`, `http_app.c`, `nvs_sync.c`) | queue of 3, event bits, retry counter, timers, credentials in memory and flash, the mutex of the flash | connect, scan, access point, save | four senders, bits and credentials read and written by several tasks, blocking sends, failing writes |
| TCP server (`tcp_server.c`) | two sockets, link flag | listen, accept, serve, close | drives itself by events; blocks in accept |
| MQTT task (`mqtt_app.c`) | client handle, flags, two timers | connect, retry, publish, reconfigure | callbacks in the client's own task |
| OTA task (`ota.c`, `ota_parser.c`) | result, action id, links, flash slots | poll, download, report | crashes, lost replies, results older than actions |
| Configuration stores (`mqtt_config.c`, `ota_config.c`, `dev_config.c`) | values in memory and in flash | set, save, call back | crash between keys, failing writes, a certificate sent in blocks |
| Device manager, outputs, water flow sensor (`device_manager.c`, `drivers/`) | values, pins, pulse counter, two timers | measure, report, obey commands | three actors without a lock: task, client's task, interrupt handler |
| Temperature task | state | scan, measure | never started by the firmware |
| JSON dispatch, lwjson, 1-Wire, UI, mDNS, DNS | (almost) none | | sequential, generated or third-party |

The interactions: the application manager sends INIT_REQ to the network
manager, which starts the Wi-Fi driver and the TCP server and counts their
answers. The Wi-Fi driver starts the Wi-Fi manager, whose task calls back on
every change of the link; the change goes through the queues of driver and
network manager to TCP server, OTA and MQTT. A configuration saved through the
TCP server calls back into MQTT and OTA. The device manager calls
`MQTTApp_PostData` from its own task, and the task of the MQTT client calls the
methods of the device manager's outputs and sensor.

What makes each part correct:

- *start*: nobody is told to be ready before what it needs is; one answer per
  request; the start ends; the services learn of the link in the end;
- *TCP server*: one client at a time, served next to a listener and known to the
  network manager; no leaked socket; the server never stalls, never forgets a
  lost link, does not overflow its own queue; what it began it ends;
- *MQTT*: at most one client, no state that contradicts it, always a retry on
  its way, attempts end, a new configuration reaches the client;
- *OTA*: the device always boots a complete image, reports the truth about the
  right update, and never stops polling;
- *Wi-Fi manager*: it goes on trying, a scan never blocks the next ones, the
  driver gets only orders it accepts, requests are processed, a failed save
  leaves the flash free for the next;
- *device manager*: measuring and reporting go on exactly once each, a valve does
  what the last command said, the reported flow drops only by a reset, and the
  broker has the state of the devices in the end;
- *configuration*: a boot finds for every value what was last saved or what was
  being saved, and the certificate is what was uploaded, with its terminator.

## The modules

`AppEvents` has what all tasks share: a bounded queue whose send fails when it
is full, and the look-up in a handler table. Every module of a task extends it
except `WifiManager`; `ConfigStore` has no queue and does not need it. A failed
assertion is the variable `halted`, after which nothing happens: the device
reboots, and what a reboot keeps is modelled where something is kept (`OtaApp`,
`ConfigStore`).

**TcpServer** (`tcp_server.c`). `state`, `eth`, `server`, `client`, `queue` are
`ctx`; `open` is the set of descriptors of the network stack; `at` is the point
the task is at. A handler is one action, or several where it can be overtaken:
at `accept`, `select`, the delay of `close_socket`, between two posts. Sockets
fail wherever the code tests for it. The network manager posts link events at
any time, and DEINIT_REQ, which the code handles although nobody sends it yet.
The bytes of a request are left out: serving one changes nothing but time.

**Listener** is what that server promises, without events, queue and
descriptors: off, closed, listening, serving, closing, and reset for a device
that restarts. `TcpServer` implements it (`ImplementsListener`): `Service` maps
its state, and the point it is at inside the closing of a socket, to one of
the six; the listener and the client are open when `server` and `client` hold
a descriptor, and `told` is what the network manager last heard from it. The
posts, the failing calls and the waiting are stutters. The progress the
abstract listener has under the fairness of the concrete one is `KeepsPromises`.

**AppStartup** (`app_manager.c`, `network_manager.c`, `wifidrv.c`). The three
tasks with their queues, timers and the callbacks of the Wi-Fi manager. `told`
is what the three services last heard of the link, `missed` marks a change that
was dropped. The TCP server appears as the module that answers INIT_REQ.

**MqttApp** (`mqtt_app.c`). The task, its two timers, and esp-mqtt clients with
a task of their own, whose callback writes the shared context step by step.
`phase` says what each client does; a client exists until it is destroyed even
if its handle was overwritten (`orphaned`). Configurations are version numbers.

**Session** is what that task promises its user: clients come one at a time, each
begun by an attempt that has none; a session is online after a subscription and
works only then; it is closed before the next attempt. `MqttApp` implements it
(`ImplementsSession`): `Mode` is the state of the task, already idle between the
destruction of the client and the change to IDLE, `Running` counts the clients,
and a session is online when `is_mqtt_connected` is set by a client whose handle is
held. Where a second attempt overwrites the handle, which the code does not rule out, the
session is *lost* and promises nothing more. Timers, events, saves, and all a
client's callback does besides connecting and subscribing are stutters.

**OtaApp** (`ota.c`). The task, two flash slots, the boot slot, the update
server and crashes at any point. What is in memory is lost in a crash, what is
in flash is kept. Requests, the installation and the report are split around
their network traffic. `faulted` says which kinds of fault have happened, so
that a property excuses exactly the fault that breaks it.

**Updater** is what the update promises: the action on offer is attempted until a
complete image is in the spare slot; then the device only boots, which swaps the
slots; with rollback the new image is on trial until it is confirmed or the
device falls back. Each action offered gets one verdict, which is deserved as long as no
reply was lost. `OtaApp` implements it (`ImplementsUpdater`) with the running
slot as image and the other as spare; `Stage` is ready in DOWNLOADED, and on trial
while the image is `unconfirmed`. Queue, requests and polls are stutters, and so is
a crash, unless it boots the other slot.

**WifiManager** (`wifi_manager.c`, and the orders of `http_app.c`). One queue
of three; `sending[s]` is the message task `s` waits in `xQueueSend` with. The
event task, the timer daemon and the HTTP server change the event bits first
and send afterwards; the manager acts on the bits of the moment it takes the
message. `restart` is how far it is with stopping the HTTP server, in which it
waits for the request that is being served. A blocking send of the manager to
its own queue is modelled as such. Credentials are an SSID and a password,
each of some network: the HTTP server clears them and copies one after the other
while the manager may read them, and a save takes the mutex, writes both keys
and commits, each of which may fail, with a return of its own. `leaked` marks
the return that keeps the mutex. One assumption about the driver: when the
access point is stopped, the phones that were on it are reported as gone.

**ConfigStore** (`mqtt_config.c`, `ota_config.c` and the requests in `api_mqtt.c`,
`api_ota.c`). `mem` is `config_data` of both stores, `flash` what NVS and the file
system hold, `MqttTable` and `OtaTable` the tables `config_values` in their order.
A save is one action per key, the certificate file two (removed, written); the
power can fail before every one of them and in the middle of the file, and every
access to the flash can fail. NVS and SPIFFS are external: what `nvs_set` was
given is on the flash after `nvs_commit`, and may or may not be before. `block` is
the static buffer of an uploaded block, which is copied to its offset if there is
room for it and a terminator. A unit of a certificate is a character after
`str_replace` has put the line breaks back; other values are kept whole. Three
variables are no state of the code: `kept` is what saves without a failure
promised, `tried` what saves begun since then may have left, `image` what the
accepted blocks spell. All requests run in the TCP server's task, one after the
other, so values do not change while they are saved; what the callback of a save
makes MQTT and OTA do is in `MqttApp` and `OtaApp`.

**DeviceManager** (`device_manager.c`, `digital_in_out.c`, `water_flow_sensor.c` and the
execution of a message in `mqtt_json_parser.c`). The device manager's task composes a
report field by field; the task of the MQTT client executes the members of a message one
at a time, and switches a valve in two steps, value and pin; the interrupt handler
counts a pulse in two. `todo` is what the loop over the members has left and `next` the
member the recursion inside it is at: when the recursion has reached the last member,
the loop goes on with its second, so that member k is executed k times. `commanded` and
`resets` are no state of the code: what a valve was last told, and how often the flow
was set to zero. A message of type `set/` reads a NULL pointer and halts the device. The
inputs and the number of a report are left out, as only the task that owns them copies
them, and the alert threshold, which leads to an empty callback. Pin 18 is given to both
`input1` and the flow sensor; the second registration replaces the handler of the first,
so the one that remains is the sensor's. A message is taken before all methods are
registered or after it: the registration is part of the handler of INIT_REQ.

Where a plausible bug is worth showing, a definition `...Not...` or similar
marked *Variant* stands before the definition it varies; it belongs to no
specification, and `PROJECT.json` says under "mutants" which property it breaks.

### Why handlers may be single steps

Between two points at which a task can be seen, a handler touches only its own
context, or posts to queues to which others also post; a foreign post in
between can be moved before or after the handler without a visible difference.
Where that argument fails (blocking calls, a context written by another task,
requests to a server) the handler is split, and the heading of each module says
where. In `WifiManager` the bits are changed by others, but only the manager
starts connections and scans, so a foreign change after a handler has read them
is the same as one after the handler.

## The runs

| Run | Question | Bounds |
|---|---|---|
| `tcp_server` | does it implement the abstract listener and keep its promises, without leak or stall, under any order and any failure? | queue 8, 3 descriptors, 6 posted events |
| `tcp_server_overflow` | can posting to a server in accept fail? **yes** | queue 8, 11 posted events |
| `startup` | start, answers, timeouts, link changes | queues 16/16/8, 4 link changes |
| `mqtt` | does it implement the abstract session, with client callbacks, timers, link and configuration in any order? | queue 8, 2 clients, 2 link events, 1 failure, 1 save |
| `ota` | does it implement the abstract updater; boot safety, polls and reports, under every fault? | queue 8, 2 updates, 2 posted events per boot, 1 crash |
| `ota_lost_reply` | is a report always about the right update? **no** | no crash, one kind of fault |
| `ota_no_rollback` | is an installed update reported? **not as configured** | no crash, no fault |
| `wifi` | retries, scans, driver orders, failing saves | queue 3, 2 requests, 3 failures, 1 phone |
| `wifi_lost_retry` | is a lost connection always tried again? **no** | 1 request, 1 failure |
| `wifi_deadlock` | is every request processed? **no** | 4 requests, 1 failure, 1 phone |
| `device` | commands, pulses and reports in every order | queue 8, 2 valves, 2 messages of up to 2 members, 4 pulses |
| `config` | does a boot find what was saved, is the certificate what was sent? | 3 requests, 2 values or blocks, 1 failing access, 1 crash |

The queues have the code's lengths. The bounds count what the environment does
and never what the task does, so the task's own loops are unbounded. They are
large enough for the cases that matter: six posts give the TCP server its
start, a link that comes, goes and comes again, and a shutdown; three
descriptors are one more than it may hold, so a leak is seen before the stack
runs out; two clients are enough for an old and a new one; two updates for a
result reported against the wrong one; three failures exceed the retry limit of
one and lead through the access point; two requests are enough for one that is
ignored and one that follows it. `MaxBacklog` bounds how many events are still
queued when a timer of many seconds fires; without it TLC explores tasks that
are not scheduled for minutes. `MaxRetries` is 1 instead of the configured
3: what matters is below and at the limit. In the Wi-Fi runs one network suffices:
a half-copied pair of it lacks its SSID or its password. In `device`
two messages are a command and one that takes it back, or a command and a reset;
two members are one that is executed twice and one that is behind it; four
pulses exceed eight bits in the computation of the flow. In `config` the certificate
has three units and a block two, so that a block fits, fits not at all, or fits
without room for the terminator; one kind of unit is enough because the
positions tell blocks apart. Three requests are one that sets a value or sends a
block, a save, and one more of either, with a crash before or after each; only
the keys in `SetKeys` (the first of one table, the last of the other and the
certificate) are set to new values or fail to be read alone. The proofs have no
such bounds.

Deadlock is not checked in any run: a task without events waits, and that is what it
should do; in `ConfigStore` the bounded number of requests ends. The stalls that would
be wrong are properties (`NeverStalls`, `RetryPending`, `PollPending`, `PeriodicOnce`,
`KeepsPromises`, `LostIsRetried`, `RequestProcessed`).

### Fairness

Tasks with something to do are scheduled (FreeRTOS
runs every ready task, and those of higher priority block), armed
timers fire, blocking calls with a timeout return, as do a delay and a callback
that has begun. Not assumed: that a client ever connects to the TCP server (no
fairness for `accept`), that the broker accepts a client, that the Wi-Fi link
comes back, that a user or a phone does anything. Strong fairness is assumed
where the property depends on a peer: a socket that can be opened again and
again is opened in the end (`KeepsPromises`), an update server that is asked
again and again answers in the end (`InstalledReported`), a broker that is given
one report after the other gets one in the end (`StateReported`). `OtaApp` also assumes
that the device is restarted after an update has been downloaded, because the
firmware itself only waits for a reboot: `esp_restart` is called nowhere.

### What the runs found

1. A TCP server that waits for a client takes no events; a Wi-Fi link that
   flaps fills its queue, and the assertion in `TCPServer_PostMsg` reboots the
   device.
2. An OTA failure whose reply is lost is reported a second time with the id of
   the next action, which the server then closes untried.
3. An update is reported as a success only by a boot that finds the image
   PENDING_VERIFY. The bootloader is configured without rollback, so that never
   happens and the device downloads the same update again and again; should one
   of these downloads fail, the update that runs is reported as a failure.
4. A request to connect that reaches the Wi-Fi manager while the station is
   connected leaves its bit set. The next loss of the connection is taken for
   the failure of that request, and nothing connects the device again.
5. Wi-Fi manager and HTTP server can wait for each other for ever: the manager
   in `httpd_stop`, a request handler for room in the manager's queue of three.

Not findings, because nothing in the repository says otherwise, but worth
knowing: a save whose `nvs_set` failed is answered with OK; a crash during a save
can leave a mixture of two configurations; a certificate that is shorter than
the one before keeps the end of the old one; a value that could not be read at
boot is replaced by its default, which the next save writes over it; a commit
that fails while the Wi-Fi credentials are saved keeps the mutex of the flash, and
the next save waits for ever; credentials can be saved half copied, when a
connection comes up while the web page sets the next; a message with a topic of
type `set/` passes a NULL pointer to `strlen` (`mqtt_json_parser.c:167`), because
the loop also compares the entries of the table that were never filled; a reset
of the flow clears the value but not the counter, so that the next pulse brings
the old flow back; a poll for which no HTTP client can be created ends polling
until the link comes up again; a member of a request is refused only if it is
not named as expected *and* is no string (`json_parser.c:59`).

Some properties excuse something on purpose and say so: `OneClient` and
`ImplementsSession` excuse a handle that was overwritten (`orphaned`, lost);
`ImplementsUpdater` excuses a verdict after a lost reply, where run
`ota_lost_reply` finds one that is not deserved;
`VerdictFinal` and `InstalledReported` excuse a crash, because the result is in
memory only, and `InstalledReported` and `PollPending` the fault that ends the
attempt; `DriverAccepts` excuses phones, because the code clears CONNECTING when
one joins; `StorageFree` excuses a failed commit; `RestartKeeps` counts as
promises only saves without a failed write, and compares values that could be
read.

## The proofs

`TcpServerProofs`, for every set of descriptors, every queue length and every
number of posts:

- `TypeCorrect`: the type invariant; inductive as it stands.
- `SocketSafety`: `SocketsOwned`, and, of which the refinement makes use,
  `StateSockets` and `ShutdownReleases`. The
  strengthening `SocketInv` adds that during the delay of `close_socket` the
  client is gone and the server not yet shut down, and that outside it a client
  is held only next to a listener; without that the guard of `prepare_socket`,
  which tests the listener only, would not show that no client is leaked.
- `Progress`: `NeverStalls`. It needs `InitOnce`: INIT_REQ is the first event
  and handled once. That is an assumption about the sender (`Requests` without
  INIT_REQ); of the network manager it is proved as `TcpAskedOnce`, below.
- `LossRemembered`: `LossNeverForgotten`, with `LossQueued`: while the link is
  down, every queued ETHERNET_CONNECTED has an ETHERNET_DISCONNECTED behind it.
- `Refinement`: `ImplementsListener`, under the same assumption about INIT_REQ.
  Every step of the task is shown to be a step of `Listener` or to leave its
  variables alone; the steps that open and close sockets need `SocketInv`, and
  those that tell the network manager `ReportInv`, which says when it believes in
  a client.
- `ServerDisciplined`: what `ListenerProofs.Disciplined` proves of the abstract
  listener (`Discipline`: a client is served only next to a listener, the network
  manager knows of it, what is off holds nothing) carried over to the server.

`AppStartupProofs`, for any lengths of the queues and any number of link changes:

- `TypeCorrect`, `OneAnswer` (`AnsweredOnce`), `ReadyWithWifi` (`ReadyMeansWifi`) and
  `LossOnlyWhileStarting` (`LossOnlyDuringStart`), all from `StartInv`, which says how
  far the request has come. `Requested` and `Forwarded` are the two stages before
  the modules are asked: the request is the only event there is. `Started` says what
  each task holds afterwards: at most one answer of each module, each not yet
  counted, and at most one answer of the network manager (`NmCounts`, `AmWaits`); a
  Wi-Fi driver that is down has been told to be, after a failed start (`WdWorks`).
- `DriverTakesAll`: the driver task never gets a request its state does not list,
  although a failed start sends it DEINIT_REQ while it may still be starting. So no
  request is dropped there, and the model has no action that drops one.
- `TcpAskedOnce`: `InitOnceAndFirst`. INIT_REQ goes to the TCP server in a step that
  finds nothing started and leaves something started; the link is passed on only
  when something is; and that is never undone. This is the hypothesis about the
  sender in the proofs of `TcpServer`.
- `FailureNeedsTimeout`: `FailsOnlyAfterTimeout`, under `QueuesFit`: the application
  manager's queue holds two events, the network manager's two more than there are
  link changes. The code has 16 for both, enough for fourteen changes in a
  start that takes seconds; with shorter queues the property is false, because a
  full queue fails the assertion too. `NmLoad` bounds what is queued and owed.

`MqttAppProofs`, for any handles, queue length, failures and configurations:

- `TypeCorrect`; `ClientUnique`: `OneClient`, which is inductive with the types.
- `StateAndClient`: `StateFitsClient`, which no run lists because the refinement says
  more. `ControlInv` says which handler may run in
  which state: another than the one whose table it was found in only because
  the callback of the client has made it WORK. `FitInv` adds that the client is gone
  only between its destruction and the change to IDLE.
- `RetryGoesOn`: `RetryPending`, which has to hold already when the task is about to
  enter IDLE (`RetryInv`). It excuses no overwritten handle.
- `ConfigUsed`: `ConfigReachesClient`, from `ControlInv`: the event of a save cannot
  be dropped while there is a client.
- `LossRemembered`: `LossNeverForgotten`, with `LossQueued` as in the TCP server.
- `Refinement`: `ImplementsSession`, step by step. Besides `OneClient` and `FitInv`
  it needs `SessionInv`: a handle is of a client that runs; the client in the callback
  of its subscription, and a task in WORK, are connected; an attempt is under way
  in IDLE only. The callback writes `ctx.state` between any two steps of the task, so
  this has to survive every interleaving of the two.
- `SessionDisciplined`: what holds of every session (`Discipline`) carried over to
  the task: idle it has no client and is not connected, at work it is connected,
  connected it has exactly one client, which runs.

`OtaAppProofs`, for any updates, faults, crashes and, but for `VerdictsFinal`, both
bootloaders:

- `TypeCorrect`, with the link between the installation and its URL.
- `AlwaysBootable`: `BootIntact`. The strengthening `BootInv` says that outside
  DOWNLOADED the boot slot is the running slot, so that what is written is never
  what boots, and that the other slot is intact while a rollback may need it.
- `PollingGoesOn`: `PollPending`; nothing is polled before the task is initialised.
- `VerdictsTrue`: `VerdictTrue`, which the refinement contains. `OfferInv` follows an
  action from its offer to its end: id, link, installation and the image that waits for
  a reboot are of one offer, and what is offered has no verdict. `TruthInv` then says of
  a result in memory what `VerdictTrue` says of the one the server has.
- `Refinement`: `ImplementsUpdater`, with either bootloader. `UpdateInv` adds to
  these that the slot being written holds nothing and its action was attempted,
  that an action no longer offered has its verdict, and that a success not yet
  reported is of the image that runs, confirmed and on offer.
- `UpdaterDisciplined`: what holds of every update (`Discipline`, `VerdictOnce`)
  carried over: a complete image runs and another waits while a boot may need
  it; an action on offer has no verdict, and no verdict is ever changed.
- `VerdictsFinal`: `VerdictFinal`, under the hypothesis `Rollback`. `FinalInv` says
  that the image that runs has its success recorded or is about to be reported,
  and before it is confirmed the one to fall back on has. The
  hypothesis is needed: without rollback no success is ever recorded
  (`ota_no_rollback`), the update that runs is downloaded again, and if that fails
  TLC finds it recorded as failed. Run `ota` assumes rollback too.

`ConfigStoreProofs`, for any values, sizes of certificate and block, and numbers of
requests, failures and crashes:

- `TypeCorrect` and `CertificateUploaded`, from one inductive invariant, `Types`.
  It adds that between requests nothing is handed over and the index of the
  save is 1, and that the buffer holds nothing but the data of this request
  (`Uploaded`), without which an accepted block could carry what an earlier
  request left.
- `RestartSafe`: `RestartKeeps`. The strengthening `KeepInv` says that what a boot
  would read now is known for every key (`Keeps`), that while a save is under way
  all it may leave has been noted (`BeingSaved`), and that without a failure
  every key before the index is handed over or written (`Progress`), which makes
  the promise true when the index has passed the end of the table.

`DeviceManagerProofs`, for any valves, messages and pulses, and every queue of at
least two:

- `FlowMonotonic`: `FlowDropsByReset`. `FlowInv` compares the last report, the
  report being composed and the sensor: of two with as many resets behind them
  the later never shows less flow. It needs that the value is never ahead of the
  counter.
- `ActivitiesOnce`: `PeriodicOnce`. `OnceInv` says where each activity is: its timer
  runs, or the queue has it in one place, or the task is at it. So a timer that
  fires finds at most the other activity in the queue, which cannot be full.
- `ValvesObey`: `CommandObeyed`. `CommandInv` says that in every pass a valve that no
  member from `next` on can change any more is as the last member with a
  callback said. A pass over fewer members ends with the same one
  (`MembersLeft`), which is why the repetition does no harm to a valve.
- `TypeCorrect`, from the parts of the three invariants and `RestTypes`.

`WifiManagerProofs`, for any networks, queue length, retry limit, and any number of
requests, failures and phones:

- `TypeCorrect`, in four parts: messages, control, credentials, driver.
- `SaveReleases`: `StorageFree`. Until a commit has failed, the mutex is taken
  exactly while a save writes (`StorageInv`).
- `ScanReleased`: `ScanNeverStuck`, inductive with the type of the event queue.
- `DriverNeverRefuses`: `DriverAccepts`. `AloneInv` says that, until a phone joins,
  CONNECTING is set while the station is not idle and until the event of its
  disconnection, of which there is never more than one, has been handled.
- `TriesAgain`: `NeverGivesUp`. `RetryInv` adds that an idle station whose bits still
  say that it is connected, or will be, has the event of its disconnection ahead,
  and that this event is behind every event of an address, so that handling the
  address cannot cancel the retry for good.

The assumptions are those the modules state of their constants, which TLC evaluates in
every run, and three hypotheses of single theorems named above: INIT_REQ comes once
(proved of its sender), `QueuesFit`, `Rollback`. Every invariant and action property of
the passing runs is stated by a theorem, but for one.

Only model-checked:

- `QueueLoad` of the TCP server. A failed read posts two events for one, so the bound
  holds only because an earlier event made room: INIT_REQ, which posts nothing, or
  a PREPARE_SOCKET or WAIT_CONNECTION that was dropped by a state that does not list
  it. An invariant has to weigh the events along the queue, in the order in which
  they will be handled: a sum over a sequence, whose laws are inductions over data.
  Outside the runs it was also checked with ten posts.
- Every liveness property (`KeepsPromises`, `StartEnds`, `LinkSettles`,
  `AttemptEnds`, `InstalledReported`, `StateReported`, `RequestProcessed`): fairness
  and ENABLED are out of the prover's reach.
- What the runs that find a violation show.

## Not modelled, and why

Most of the lines under `src/` are not the firmware's: `src/lib/FreeRTOS` is a
copy of FreeRTOS with its demos and network stacks, which only the simulator of
`src/test/Makefile` is built with; generated LVGL screens, lwjson and the 1-Wire
library are third party too. They are modelled by how the firmware's code uses
them, so that the share of all lines that the models cover is small, while the
application's tasks and the drivers they call are nearly all covered.

Of the firmware itself are left out: the framing and the JSON content of requests
(they do not change the state of the tasks modelled), the texts of results, the
web pages; the user interface (its start is commented out), mDNS, DNS and
keepalive (wrappers, or unused), the device configuration (read once), the
temperature task, to which nobody sends INIT_REQ, so that it stays DISABLED for
ever. An OTA action with several `main.bin` artifacts is treated as one with a
single one. The mutex around the Wi-Fi manager's JSON buffers is left out, as is
the content of the buffers. Of the JSON dispatch the models have what it leads to:
`ConfigStore` the tokens of a request one by one, `DeviceManager` the members of a
message; the comparison of names by prefix is left out. Memory errors (a handle
used after `esp_https_ota_finish`, a client destroyed while `MQTTApp_PostData`
publishes through it, URL strings freed under a handler) are left out: what they
do is not determined by the code modelled.

## Plan

Done, in this order: TcpServer (the pattern of all tasks), AppStartup, MqttApp,
OtaApp, WifiManager, ConfigStore, DeviceManager, the storage of the Wi-Fi
credentials, the abstract Listener, Updater and Session; proofs of the safety
properties of every module, and of the refinements of Listener by TcpServer, of
Updater by OtaApp and of Session by MqttApp.

Next, modules:

1. A composition of the network manager with the TCP server, where the link
   events of TcpServer come from AppStartup instead of a free environment, and
   one of ConfigStore with the callbacks of OtaApp.
2. The JSON dispatch and `filter_unique` as operators against reference
   definitions; `Temperature`, as far as the firmware will start it.

Next, theorems:

1. `QueueLoad`, if its sum over the queue can be stated by positions; otherwise
   what can be said of the WAIT_CONNECTION and WAIT_CLIENT_DATA in the queue.
2. Abstract specifications of the Wi-Fi manager (one connection, tried until the
   user gives up) and of the device manager, and their refinement.
