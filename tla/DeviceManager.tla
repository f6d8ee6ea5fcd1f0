---------------------------- MODULE DeviceManager ----------------------------
(***************************************************************************)
(* The device manager and the devices (components/application/             *)
(* device_manager.c, components/drivers/digital_in_out.c, analog_in.c,     *)
(* water_flow_sensor.c, and the dispatch of commands in                    *)
(* mqtt_json_parser.c).                                                    *)
(*                                                                         *)
(* Three actors share the devices without a lock.  The device manager's    *)
(* task measures every second and reports every ten, each time by an event *)
(* that a one-shot timer posts and the handler arms again.  The task of    *)
(* the MQTT client executes the commands of a message one after the other. *)
(* The interrupt handler of the flow sensor counts pulses.                 *)
(*                                                                         *)
(* A report is composed field by field, so a command can come between two  *)
(* fields of it; a valve is switched in two steps, a pulse counted in two. *)
(* Left out: the inputs and the number of a report, which are only copied  *)
(* into it by the task that owns them; and the alert threshold, which is   *)
(* compared only to call a callback that does nothing.                     *)
(***************************************************************************)
EXTENDS AppEvents

CONSTANTS
  Valves,         \* the digital outputs, in the order of ctx.devices
  QueueLength,    \* xQueueCreate( 8, ... )
  MaxTokens,      \* bound: members of the object in a message
  MaxMessages,    \* bound: messages from the broker
  MaxPulses       \* bound: pulses of the flow sensor

ASSUME DevicesAssumption == Valves \in Seq(STRING) /\ "flow" \notin Range(Valves)
ASSUME QueueAssumption == QueueLength \in Nat \ {0, 1}
ASSUME BoundsAssumption == MaxTokens \in Nat /\ MaxMessages \in Nat /\ MaxPulses \in Nat

Events == {"INIT_REQ", "MEASURE", "POST"}
Periodic == {"MEASURE", "POST"}

\* What a member of a message is to a method: a Boolean under the name of one
\* of its tokens, or something no callback is there for.
Tokens == {"true", "false", "unknown"}

\* Points of the task: waiting, about to run the handler of an event, or at a
\* field of the report it composes.
Points == {"receive"} \cup Events \cup {"valves", "publish"}

Names == Range(Valves)

VARIABLES
  state,      \* ctx.state
  queue,      \* ctx.queue
  at,         \* where the task is
  timers,     \* the timers that run
  value,      \* value of each digital_out_t
  level,      \* the level of each output's pin
  counter,    \* counter and ...
  flow,       \* ... value of the water_flow_sensor_t
  counting,   \* the interrupt handler has counted but not stored yet
  todo,       \* members of a message, from the one the loop over them is at
  next,       \* which of these is to be executed
  method,     \* the method of the message
  switching,  \* the client's task is inside DigitalOut_SetValue
  draft,      \* the report being composed
  posted,     \* the last report that was published
  commanded,  \* the last value each valve was told
  resets,     \* resets of the flow sensor so far
  messages,   \* messages so far
  halted      \* an assert failed, or a NULL pointer was read

vars == <<state, queue, at, timers, value, level, counter, flow,
          counting, todo, next, method, switching, draft, posted, commanded, resets,
          messages, halted>>
task == <<state, queue, at, timers, draft, posted>>
sensor == <<counter, flow, counting>>
outputs == <<value, level>>
message == <<todo, next, method>>
client == <<message, switching, commanded, resets, messages>>

NoReport == [valves |-> <<>>, flow |-> 0, resets |-> 0]

\* The context is in static storage: all zeros.
Init ==
  /\ state = "DISABLED" /\ queue = <<"INIT_REQ">> /\ at = "receive"
  /\ timers = {}
  /\ value = [v \in Names |-> FALSE] /\ level = [v \in Names |-> FALSE]
  /\ counter = 0 /\ flow = 0 /\ counting = FALSE
  /\ todo = <<>> /\ next = 1 /\ method = "none" /\ switching = FALSE
  /\ draft = NoReport /\ posted = NoReport
  /\ commanded = [v \in Names |-> FALSE]
  /\ resets = 0 /\ messages = 0 /\ halted = FALSE

-----------------------------------------------------------------------------
(* The device manager's task.                                              *)

Handlers == [DISABLED |-> {"INIT_REQ"}, IDLE |-> Periodic]

Receive ==
  /\ at = "receive" /\ queue # <<>>
  /\ queue' = Tail(queue)
  /\ at' = IF HasHandler(Handlers, state, Head(queue)) THEN Head(queue) ELSE "receive"
  /\ UNCHANGED <<state, timers, draft, posted, outputs,
                 sensor, client, halted>>

\* The devices are set up, and registered for commands; both activities start.
DisabledInit ==
  /\ at = "INIT_REQ"
  /\ state' = "IDLE"
  /\ queue' = Send(Send(queue, QueueLength, "MEASURE"), QueueLength, "POST")
  /\ halted' = (Len(queue) + 2 > QueueLength)
  /\ at' = "receive"
  /\ UNCHANGED <<timers, draft, posted, outputs, sensor, client>>

\* Variant: the wrong timer is started.
AfterMeasureOther == timers \cup {"POST"}
AfterMeasure == timers \cup {"MEASURE"}

Measure ==
  /\ at = "MEASURE"
  /\ timers' = AfterMeasure
  /\ at' = "receive"
  /\ UNCHANGED <<state, queue, draft, posted, outputs, sensor,
                 client, halted>>

\* _state_idle_event_post: a new report ...
PostBegin ==
  /\ at = "POST"
  /\ draft' = NoReport
  /\ at' = "valves"
  /\ UNCHANGED <<state, queue, timers, posted, outputs, sensor,
                 client, halted>>

\* ... each valve ...
PostValve ==
  /\ at = "valves" /\ Len(draft.valves) < Len(Valves)
  /\ draft' = [draft EXCEPT !.valves = Append(@, value[Valves[Len(@) + 1]])]
  /\ UNCHANGED <<state, queue, at, timers, posted, outputs,
                 sensor, client, halted>>

\* ... the flow ...
PostFlow ==
  /\ at = "valves" /\ Len(draft.valves) = Len(Valves)
  /\ draft' = [draft EXCEPT !.flow = flow, !.resets = resets]
  /\ at' = "publish"
  /\ UNCHANGED <<state, queue, timers, posted, outputs,
                 sensor, client, halted>>

\* Variant: a report that could not be published ends the activity.
AfterPostIfPublished == IF posted' = draft THEN timers \cup {"POST"} ELSE timers
AfterPost == timers \cup {"POST"}

\* Nothing reads the buffer before the next report clears it.
PostEnds ==
  /\ timers' = AfterPost
  /\ draft' = NoReport
  /\ at' = "receive"
  /\ UNCHANGED <<state, queue, outputs, sensor,
                 client, halted>>

\* MqttApp_PostData publishes the report, or returns false: no client is
\* connected, or the client cannot send.
Publish == at = "publish" /\ posted' = draft /\ PostEnds
PublishFails == at = "publish" /\ UNCHANGED posted /\ PostEnds

Task == Receive \/ DisabledInit \/ Measure \/ PostBegin \/ PostValve \/ PostFlow

TimerFires(t) ==
  /\ t \in timers
  /\ timers' = timers \ {t}
  /\ queue' = Send(queue, QueueLength, t)
  /\ halted' = Full(queue, QueueLength)
  /\ UNCHANGED <<state, at, draft, posted, outputs,
                 sensor, client>>

-----------------------------------------------------------------------------
(* Commands: MQTT_EVENT_DATA in the task of the MQTT client.               *)

Known(token) == token # "unknown"

\* A message for a method of type ctl/; before the devices are registered no
\* method is found.
Command(m) ==
  /\ todo = <<>> /\ messages < MaxMessages
  /\ messages' = messages + 1
  /\ IF state = "IDLE"
     THEN /\ todo' \in BoundedSeq(Tokens, MaxTokens)
          /\ method' = IF todo' = <<>> THEN "none" ELSE m
          /\ \/ /\ \A k \in DOMAIN todo' : ~Known(todo'[k])
                /\ UNCHANGED commanded
             \/ \E k \in DOMAIN todo' :
                  /\ Known(todo'[k]) /\ \A l \in DOMAIN todo' : l > k => ~Known(todo'[l])
                  /\ commanded' = IF m \in Names
                                  THEN [commanded EXCEPT ![m] = (todo'[k] = "true")]
                                  ELSE commanded
     ELSE UNCHANGED <<method, todo, commanded>>
  /\ UNCHANGED <<task, outputs, sensor, next, switching, resets, halted>>

\* A message of type set/: the loop runs over all entries of the table, and
\* those never registered are of this type and have no topic.
SetTopic ==
  /\ todo = <<>> /\ messages < MaxMessages
  /\ messages' = messages + 1
  /\ halted' = TRUE
  /\ UNCHANGED <<task, outputs, sensor, message, switching, commanded, resets>>

\* The loop of MQTTJsonParse hands every member to a function that goes on
\* with the members behind it: member k is executed k times.
\* Variant: only the first member is executed.
MemberDoneFirst == todo' = <<>> /\ next' = 1 /\ method' = "none"
MemberDone ==
  IF next < Len(todo)
  THEN next' = next + 1 /\ UNCHANGED <<todo, method>>
  ELSE /\ todo' = Tail(todo) /\ next' = 1
       /\ method' = IF todo' = <<>> THEN "none" ELSE method

\* No callback is there for the member.
SkipMember ==
  /\ todo # <<>> /\ ~Known(todo[next])
  /\ MemberDone
  /\ UNCHANGED <<task, outputs, sensor, switching, commanded, resets, messages, halted>>

\* DigitalOut_SetValue writes the value ...
SetValue ==
  /\ todo # <<>> /\ method \in Names /\ Known(todo[next]) /\ ~switching
  /\ value' = [value EXCEPT ![method] = (todo[next] = "true")]
  /\ switching' = TRUE
  /\ UNCHANGED <<task, level, sensor, message, commanded, resets, messages, halted>>

\* ... and then the pin.
SetLevel ==
  /\ switching
  /\ level' = [level EXCEPT ![method] = value[method]]
  /\ switching' = FALSE
  /\ MemberDone
  /\ UNCHANGED <<task, value, sensor, commanded, resets, messages, halted>>

\* WaterFlowSensor_ResetValue clears the value but not the counter.
ResetFlow ==
  /\ todo # <<>> /\ method = "flow" /\ Known(todo[next])
  /\ flow' = 0
  /\ resets' = resets + 1
  /\ MemberDone
  /\ UNCHANGED <<task, outputs, counter, counting, switching, commanded,
                 messages, halted>>

Execute == SkipMember \/ SetValue \/ SetLevel \/ ResetFlow

-----------------------------------------------------------------------------
(* The interrupt handler.                                                  *)

PulseCounted ==
  /\ state = "IDLE" /\ ~counting /\ counter < MaxPulses
  /\ counter' = counter + 1
  /\ counting' = TRUE
  /\ UNCHANGED <<task, outputs, flow, client, halted>>

\* 0.75 litres a pulse.  Variant: computed in eight bits without fractions.
FlowOfNarrow(n) == ((75 * n) % 256) \div 100
FlowOf(n) == (3 * n) \div 4

\* Variant: the pulse is added once more.
PulseStoredAhead ==
  /\ counting
  /\ flow' = FlowOf(counter + 1)
  /\ counting' = FALSE
  /\ UNCHANGED <<task, outputs, counter, client, halted>>
PulseStored ==
  /\ counting
  /\ flow' = FlowOf(counter)
  /\ counting' = FALSE
  /\ UNCHANGED <<task, outputs, counter, client, halted>>

-----------------------------------------------------------------------------
Next ==
  /\ ~halted
  /\ \/ Task
     \/ Publish \/ PublishFails
     \/ \E t \in Periodic : TimerFires(t)
     \/ \E m \in Names \cup {"flow"} : Command(m)
     \/ SetTopic
     \/ Execute
     \/ PulseCounted \/ PulseStored

Spec == Init /\ [][Next]_vars

\* Tasks and the interrupt handler run, timers fire, and a client that is
\* given one report after the other publishes one in the end.
Fairness ==
  /\ WF_vars(~halted /\ (Task \/ Publish \/ PublishFails))
  /\ SF_vars(~halted /\ Publish)
  /\ \A t \in Periodic : WF_vars(~halted /\ TimerFires(t))
  /\ WF_vars(~halted /\ Execute)
  /\ WF_vars(~halted /\ PulseStored)

FairSpec == Spec /\ Fairness

-----------------------------------------------------------------------------
(* Properties.                                                             *)

Reports == [valves : BoundedSeq(BOOLEAN, Len(Valves)), flow : Nat, resets : Nat]

TypeOK ==
  /\ state \in DOMAIN Handlers
  /\ queue \in Seq(Events) /\ Len(queue) <= QueueLength
  /\ at \in Points /\ timers \subseteq Periodic
  /\ {value, level, commanded} \subseteq [Names -> BOOLEAN]
  /\ counter \in 0..MaxPulses /\ flow \in 0..FlowOf(counter)
  /\ todo \in Seq(Tokens) /\ next \in 1..(IF todo = <<>> THEN 1 ELSE Len(todo))
  /\ method \in Names \cup {"flow", "none"}
  /\ {draft, posted} \subseteq Reports
  /\ resets \in Nat /\ messages \in 0..MaxMessages
  /\ {counting, switching, halted} \subseteq BOOLEAN

\* How often activity e goes on: queued, being handled, or with its timer running.
Strands(e) ==
  Cardinality({i \in DOMAIN queue : queue[i] = e})
  + Cardinality({e} \cap timers)
  + (IF at = e \/ (e = "POST" /\ at \in {"valves", "publish"}) THEN 1 ELSE 0)

\* Measuring and reporting neither stop nor multiply: each goes on exactly once,
\* in the queue, in the task or in its timer, so that a queue of eight cannot
\* overflow (device_manager.c 236-282).
PeriodicOnce == state = "IDLE" => \A e \in Periodic : Strands(e) = 1

\* When the client's task is done with a message, the valve, on its pin and in
\* what is reported of it, is as the last member that named it said, although
\* members are executed several times (mqtt_json_parser.c 59-118, 200-204,
\* digital_in_out.c 115-126).
CommandObeyed == todo = <<>> => value = commanded /\ level = commanded

\* The flow that is reported goes down only after a reset: none of the pulses
\* that come while a report is composed or the value is reset makes it smaller
\* (water_flow_sensor.c 54-63, 112-115).
FlowDropsByReset ==
  [][posted'.flow < posted.flow => posted'.resets > posted.resets]_vars

\* When commands and pulses cease, the broker has the state of the valves on
\* their pins and the flow in the end, whatever reports were composed while they
\* changed and however many could not be published (device_manager.c 254-282).
StateReported ==
  <>[](\/ halted
       \/ /\ posted.valves = [i \in DOMAIN Valves |-> level[Valves[i]]]
          /\ posted.flow = flow)
=============================================================================
