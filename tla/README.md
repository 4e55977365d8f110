# Verification of the industrial IoT gateway

TLA+ models of the two programs of this repository and of the libraries on
which their correctness turns, TLC configurations that check them on small
instances, and TLAPS proofs for arbitrary ones.

## 1. The system

```
 edge node (ESP32, FreeRTOS)                        gateway (Raspberry Pi 4, Linux)

 app_main --> MqttManager --> esp-mqtt client ==TLS==> Mosquitto ==TLS==> Paho client
              is_connected_    task, outbox                                 | callback
                                                                      MqttWrapper
                                                                            | push
                                                             main ------ SafeQueue
                                                            (signals)       | pop
                                                                      worker thread
```

| Component | State | Operations | Interaction |
|---|---|---|---|
| `SafeQueue` (`gateway-service/src/safe_queue.hpp`) | `queue_`, `aborted_`, `mutex_`, `cond_` | `push`, `pop`, `abort` | shared by three threads of the daemon |
| daemon (`gateway-service/src/main.cpp`) | `running`, the worker thread, main's locals | signal handler, worker loop, keep-alive loop, shutdown | signal -> `running` -> `abort` -> `join` -> destructors |
| `MqttWrapper` (`mqtt_wrapper.hpp`) | the Paho client, a reference to the queue | `connect`, `message_arrived`, `connection_lost`, destructor | Paho calls it back on its own thread |
| esp-mqtt outbox (`lib/mqtt_outbox.c`) | list of items: id, pending state, tick | enqueue, get, dequeue, delete, set_pending, set_tick, expiry | used by two tasks under the client's lock |
| esp-mqtt client (`mqtt_client.c`) | `run`, `state`, status bits, timers, in and out buffer, configuration | `esp_mqtt_task`; start, stop, disconnect, reconnect, destroy; publish, enqueue, subscribe, unsubscribe; set_config, set_uri | recursive API lock; events run in the raising task |
| MQTT messages (`lib/mqtt_msg.c`, `lib/mqtt5_msg.c`) | the out buffer, the fields of a fragmented message | a builder and readers per packet type | bytes to and from the broker |
| MQTT 5 part (`mqtt5_client.c`) | one-time properties, the server's limits, topic aliases, user property lists | the `esp_mqtt5_client_*` API, CONNACK, alias update | set by one call, used by another |
| `MqttManager` | `is_connected_` | `publish`, event handler | reads the flag without the lock |
| `WifiManager` | event group, `wifi_config`, the flash | constructor, `connect`, event handler | the event loop's task |
| `app_main` | `counter` | Wi-Fi, start, publish loop | |
| `ProtobufSerializer` / `SensorData` | none | encode with nanopb; the daemon decodes | the data contract |
| Mosquitto, systemd | configuration | anonymous access, persistence; `Restart=always` | broker between, and keeper of, the programs |
| Buildroot, PKI, build files, examples of esp-mqtt | none at run time | | |

What is hard: the monitor with a condition variable (lost and spurious wakeups,
abort against a popper about to sleep); shutdown (a signal at any moment, a
blocked worker, callbacks still running, destruction order, a connection lost
inside the destructor); the client's connection (two tasks that may abort it, a
flag read without the lock, half-open links); its message flows (retransmission
against late or lost acknowledgements, expiry, random identifiers, QoS 2 across
reconnections); its life (bits and flags written without the lock by a task
that start has only just created); state that outlives what it belongs to (the
fragment fields, the MQTT 5 properties, the limits of a former broker, a half
read message, a former configuration); lengths at their boundaries; and the
whole path, in which every part may be lost and comes back by itself or not at
all. Each is a hazard in `PROJECT.json`, at its line, with the property that
would catch it.

## 2. Modules

| Module | Models |
|---|---|
| `FifoChannel` | abstract: a closable FIFO channel (`Send`, `Receive`, `Close`, `End`) with its fairness |
| `SafeQueue` | the monitor, one step per access; any sets of pushing, popping and aborting threads |
| `GatewayService` | extends `SafeQueue` with the daemon's three threads, signal, connection and object lifetimes |
| `Outbox` | the outbox operations as pure operators |
| `EspMqttClient` | extends `Outbox` with the client's task, `publish`, `MqttManager`, transport, broker and time |
| `MqttSession` | extends `Outbox` with the flows of publish, enqueue, subscribe and unsubscribe at QoS 0 to 2, and of the broker's messages |
| `ClientLifecycle` | start, stop, disconnect, reconnect and destroy against the client's task |
| `ClientConfig` | `esp_mqtt_set_config`, `set_uri` and the connection made from them, TLS options included |
| `Mqtt5Properties`, `UserProperty` | what the MQTT 5 part remembers between calls and connections; its lists, allocation by allocation |
| `MqttRead` | the readers of `mqtt_msg.c`, as operators on bytes |
| `MqttMsg`, `Mqtt5Msg` | extend `MqttRead` with the builders, and with builders and readers of MQTT 5 |
| `MqttCodec` | those against a reader and a writer made from the wire format alone |
| `MqttFraming` | extends `MqttRead`: the byte stream cut into messages, one step per read |
| `OutboundMessage` | the out buffer shared by all messages, and the two fields that survive a message |
| `SensorCodec` | a reading from `serialize_sensor_data` to `ParseFromString` |
| `EdgeNode` | power-on, flash, Wi-Fi, start of the client, resets |
| `Pipeline` | node, broker, daemon and systemd together, each reduced to what the others see |
| `MC*` | instances for TLC |
| `SafeQueue_proofs`, `GatewayService_proofs` | theorems about the daemon and its queue |
| `Outbox_proofs`, `EspMqttClient_proofs`, `MqttSession_proofs` | theorems about the client on the link, and lemmas about the outbox |
| `ClientControl_proofs` | theorems about `ClientLifecycle`, `Mqtt5Properties`, `UserProperty` and `ClientConfig` |
| `Messages_proofs` | theorems about `OutboundMessage`, `SensorCodec` and `MqttFraming` |
| `Pipeline_proofs` | theorems about the whole path |

**SafeQueue.** `pc[t]` is a thread's program point. `push` is `PushCall`, `Lock`,
`PushAppend`, `NotifyOne`, `Unlock`; `pop` is `PopCall`, `Lock`, `PopTest`, then
either `PopTake`, `Unlock` or `PopWait` (mutex released and thread blocked in one
step, as `wait` guarantees), a wakeup by notification or `SpuriousWake`, and
`Lock`, `PopTest` again; `abort` is `AbortCall`, `Lock`, `AbortSet`, `NotifyAll`,
`Unlock`. `notify_one` picks any blocked thread. `pushed` and `popped` are
histories. A thread that got `nullopt` does not call `pop` again (the worker's
`break`).

**GatewayService.** `mainAt` and `workerAt` are program points; every queue step
is a step of `SafeQueue` (the composition leaves `daemonVars` alone). `objects`
holds main's live locals: `telemetry_queue` is declared before `mqtt_handler` and
hence destroyed after it. External, modelled from the calls made: Paho (connect
may fail; `disconnect` throws without a connection; destroying the client waits
for a running callback; no automatic reconnect) and the broker (may drop the
connection; the session is clean). Whether a record parses is decided by its
membership in `Malformed`.

**Outbox, EspMqttClient.** Telemetry is numbered by app_main's counter and the
outbox is a function from numbers to items: the node enqueues in counter order,
so list order is number order. Ticks are kept as ages; `Tick` advances all timers.
Everything a task does between two network operations, or between acquiring and
releasing the API lock around one, is one step: `TaskLock` (with expiry), then by
state `ConnectOk`/`ConnectFails`, or receive -> resend -> keep-alive, or
`WaitReconnect`; then the poll, which reads `state` without the lock. `publish` is
`PublishCall` (the unlocked read of `is_connected_`), `PublishLock`,
`PublishEnqueue` and `PublishWrite`. `AbortConnection` includes MqttManager's event
handler, which the client runs synchronously. `conn = "dead"` is a link whose peer
is gone: writes may still be accepted, reads may stay silent. A packet written is
in `uplink`, an acknowledgement in `downlink`; an abort loses acknowledgements,
while packets already written may still arrive until the next connection. The
options are those of this firmware: MQTT 3.1.1, QoS 1, automatic reconnect, no
outbox limit, random identifiers (`IdChoices`).

**MqttSession.** A message is a number, its items are those of `Outbox`, and the
flow of each is followed to its end: `publish` writes at once, `enqueue` and the
stored calls leave it to `ResendQueued`; `RetransmitFirst` and `resend_pubrel` are
the task's retries; `Receive*` are the cases of `mqtt_process_receive`. Packets
are in order in each direction and lost with the connection (`Break`); `Notice`
is the client finding out. `Expire` forgets a message silently, and reports it only
with `ReportsDeleted` (`MQTT_REPORT_DELETED_MESSAGES`, not set here, nor in the run).
`ReceivePublish` is `deliver_publish` and the answer: `data[k]` says how much of the
broker's message `k` the application was given at best, `none`, a `part` with the
connection lost inside, all but what came too `late`, or the `whole`. A delivery that
fails ends the connection without an answer; a timeout inside a payload longer than
the in buffer counts as its end, is answered, and leaves a `REST` in the stream, which
`ReceiveRest` reads as messages. The broker, external, follows the protocol: it passes
a QoS 2 message on when it first sees its identifier and forgets that with
PUBREL, and sends its own messages again on a new connection.

**ClientLifecycle.** `task[t]` is where an MQTT task is, between two accesses of
what it shares. `run`, `state` and the status bits are written without the lock
where the code does so. `manner`, chosen initially among `Manners` and never
changed, says how the application and the transport behave: start is called at
any time (`starts_again`), stop and destroy right after start (`stops_early`),
the transport may not be created (`transport_may_fail`), and the option
`auto_reconnect`. A manner with none of the first three is `Careful`.

**ClientConfig, Mqtt5Properties, UserProperty.** `config` and `info` are what
the client holds; `given` and `wish` are histories of what the application's
calls gave and asked for. `given` is kept field by field and without the client:
a call says something about a field or leaves it out, a URI's parts come before
those given separately, and the last that was said stands (`Latest`); `first` is
the scheme first dialled, whose default port the task stores. `unused` is what
was set since the last message of a kind, and `latest` the tasks whose last call
nobody else's has followed. An allocation fails at any point (`OutOfMemory`,
`AllocFails`). A list is made and freed block by block: `heap` counts the
blocks, `part` those of the item in the making, and `want` is all that the calls
were given, incomplete items included.

**MqttMsg, Mqtt5Msg, MqttCodec.** Text is a sequence of bytes, and a builder returns the
bytes or the empty sequence when they do not fit. The reference side of
`MqttCodec` knows only the wire format: the kinds of the fields of a packet type
and the sizes of properties. `MqttFraming` reads with the operators of `MqttRead`
from a stream, of which every read returns any part; a connection (`link`) is the
bytes the broker sends, where its messages end, and the length of the in buffer.
`derailed` is a history: the client took one of the three steps after which it no
longer knows where in the stream it is.

**OutboundMessage.** A message is its lengths; a publish may have no data (`NULL`), in
which case neither of the two fields that survive a message is touched. The fields
are those of the code; `Written` and `Stored` compute what follows the header exactly as
`publish` and `mqtt_client_enqueue_publish` do, and where they would read payload that
is not there the node panics (`Panic`). `abandoned` and `unwritten` are histories of
what may have left a field set.

**SensorCodec.** `c_str` and `snprintf` cut the identifier as `"%s"` and the field's size
do: at the first NUL, and at 31 bytes.

**EdgeNode, Pipeline.** `EdgeNode` keeps the tasks and the queues between them; a
reset restores everything but the flash. The client's connection is lost with the
radio (`ClientOffline`) or without (`ClientDropped`: the broker closes, or does not answer
a ping). `Pipeline` composes abstractions: the
node's outbox (a set of readings, whose order is that of the counter), a link
that loses what is in flight, the broker's clean session of the daemon, the
daemon as the channel that `SafeQueue` is shown to implement, and systemd.
`forgotten` collects the readings for which the gateway had no subscription, no
session or no daemon.

## 3. Runs

| Run | Result | Shows |
|---|---|---|
| `gateway` | holds | `QueueOutlivesItsUsers`, `IngestedInOrder`, `SignalEndsProcess`, `EveryRecordHandled` |
| `gateway_drain` | violated | `WorkerStopsOnEmptyQueue`: records remain when the worker leaves |
| `gateway_clean_shutdown` | violated | `CleanShutdown`: the destructor can throw |
| `client_safety` | holds | `ConnectionAgreement`, `AckedWereReceived`, `NoSilentLoss`, `OneUnflaggedCopy` |
| `client_liveness` | holds | `LinkRestored`, `OutboxDrains` |
| `client_collision` | violated | `AckedWereReceived` when identifiers may collide |
| `session` | holds | `DeliveredAtMostOnce`, `CompletedWasReceived`, `NothingForgotten`, `EnqueuedInOrder`, `AcknowledgedWasDelivered`, `FlowsComplete` |
| `client_control` | holds | `StopFinishesTask`, `TaskNeverOutlivesClient`, `RunMeansTask`, `StopReturns`, `RequestsHonoured`; `DialsAsAsked`; `PropertiesOfMessage`, `WithinServerLimits`, `EventTopicRight`; `ListsWhole` |
| `client_reconfigured` | violated | `OmittedAreDefault`: a field left out of a later configuration keeps its former value |
| `messages` | holds | `HeaderAnnouncesBody`, `StoredWhole`; `BrokerUnderstands`, `ClientUnderstands`; `HandledAsSent`, `AllHandled`; `IngestedAsMeasured` |
| `messages_total` | violated | `ZeroForAllOther`: the total of a long message that was not stored is announced by the next one |
| `system` | holds | `FrontDefined`, `NoLostWakeup`; `ImplementsChannel`: the monitor refines `FifoChannel!Spec`, liveness included; `NodeComesUp`, `RadioRecovers`; `NoReadingStuck` (with `Accounted`), `ServesAgain` (with `NothingOutlives`) |

The five violations are the findings of `PROJECT.json`, with the lines they
contradict.

**Settings.** `session`, `client_control`, `messages` and `system` check several
instances each. The variable `setting` is chosen initially and never changes; a
behaviour is one of the instance it names, and what belongs to the other
instances stands still. A property is that of its module, restricted to the
settings for which it is claimed; fairness is stated per action, over the
settings that have it, and is that of the module's own specification.
`MCClientControl` and `MCMessages` extend the modules they instantiate, so that the
runs check the very properties that the theorems state; their assumptions
(`HypothesesMet`, and `TextIds` with `WellFormed`) have TLC confirm that the
constants of the run meet the theorems' hypotheses. `MCSystem` extends `SafeQueue` in
the same way: its setting `queue` is the monitor alone, `node` is `EdgeNode`, and
`faults`, `crashes` and `committed` are `Pipeline`, the last with `mosquitto.conf` as
committed. No run of several settings looks for deadlock, since a setting may come to
its end: a thread stuck in the queue would violate `ImplementsChannel`, whose channel
serves every popper (`Receive`, `End`). `client_control` has three
manners: two careful applications, with and without `auto_reconnect`, and one
that calls at any moment (`Hasty`). The last is held to `RunMeansTask` only; the
rest is claimed of one that waits for an event before it stops and does not
start twice. A request to reconnect is claimed to be honoured without
`auto_reconnect` only: with it the code does not look at the bit
(`mqtt_client.c:1806`).

**Bounds.** `MaxPushes` (records pushed): 2 in `system`, with two threads on
each side, so that one record can be in a popper's hand while another is on its
way, and `notify_one` has a choice while a spurious wakeup competes (the safety
half is proved for any number); 3 in `gateway`. `MaxMessages` (telemetry): 3
lets one message be unacknowledged, one queued and one being published;
`MaxInFlight` (packets per direction): 2 lets a retransmission be under way
together with its original, and a full pipe is the failing write;
`client_liveness` has 2 and 1. `ExpiryTimeout = 1` and `RetransmitTimeout = 0`
ticks: a message can be transmitted, retransmitted after one tick and expire
after two. `keepaliveAge` and `plain` stop at 2: nothing distinguishes larger
values. `session`: two messages of the application (`N`), one connection lost,
or one delivery that fails or comes too late (`MaxBreaks`), at any moment; the
counter of packets in flight (`MaxCount`) and the packets under way when one is
sent again (`MaxPackets`) are capped, since retransmission alone would fill the
link. The incoming setting has a message of QoS 1 and one of QoS 2 from the
broker over MQTT 5, with messages longer than the buffer; the outgoing one has
publish, enqueue, subscribe and unsubscribe at QoS 1 and 2, which may expire.
`client_control`: two tasks, the least number at which one start can overtake
another; five configurations, the firmware's first, of which each leaves out
what another gives, two changes of the URI, and a TLS option that the build
lacks, in every order; one task with all kinds of properties and limits, and two
that take turns over two kinds with messages that may be refused; three
connections (`MaxConnects`) and three topics over two aliases, so that an alias
is redefined within a connection and outlives one; arrays of at most three
items, one of them incomplete (`MaxItems` 4). `messages`: topics of two lengths,
no payload, and payloads that fit the buffer exactly, miss it by a byte, take
several buffers and take a second length byte, stored or not, with and without
room and memory; properties alone, in pairs and all together; identifiers and
counters at the ends of their ranges, and an identifier with a NUL; a stream of
five packets through an in buffer of nine bytes, among them one longer than the
buffer; one of acknowledgements that end in two bytes of 128 or more; one of
headers that end with the buffer, and a byte past it; and one of more than 127
bytes, with a longer header, in a buffer of 160. All three derailments occur.
`MaxQueue` bounds the stored messages and `MinOffset` how far a sequence of
short messages lowers the offset. `system`: three readings, two refusals or
losses (of the radio or of the broker) and two resets for the node; two readings
and one fault of each kind, or two crashes and a lost connection or refusal, for
the pipeline, and one fault of each kind as committed.

**Fairness.** Queue and daemon: a thread inside an operation keeps running (weak
fairness of its steps), a mutex asked for again and again is granted (strong
fairness of `Lock`), Paho's connect and disconnect complete, since they time out.
The setting `queue` also lets consumers keep calling `pop`, as the worker's loop does.
Nothing is assumed of signals, messages, subscriptions or lost connections.
`EspMqttClient`: both tasks run and get the lock, time passes, and a client that
tries to connect for ever succeeds some day (an assumption on the network that
only `LinkRestored` needs). No delivery and no acknowledgement is assumed, so
`OutboxDrains` rests on expiry, and leaving a dead link on the keep-alive timer.
`MqttSession`: the task connects, notices, receives (weak) and gets round to its
resends, which every loop reaches although other work comes between (strong); the
broker answers. `ClientLifecycle`: both threads run (weak), and each gets the lock
that the other keeps releasing (strong). `MqttFraming`: the task runs, and bytes
that are on their way arrive, though a read may time out before (strong); a
timeout that ends the connection is never excluded. `EdgeNode`: tasks run, and an
access point that is there lets the node in; it refuses `MaxDrops` times at most.
`Pipeline`: every task, thread and process that can go on does; no fault is fair.

### What a property excepts, and where one fails

Some properties name the case in which the code fails them, so that they say that
there is no other; the runs reach these cases.

| Property | Excepts | Because |
|---|---|---|
| `HeaderAnnouncesBody`, `StoredWhole` | a long message was enqueued and not stored, and nothing with a payload was made since (`abandoned`) | `fragmented_msg_total_length` stays set (`mqtt_client.c:2140`, 2151), and the next message announces it: the run `messages_total` |
| the same | a long publish of a longer topic was not written when made, and none since (`unwritten`) | `fragmented_msg_data_offset` stays set (2232) and makes a later short message seem unfinished |
| `HandledAsSent`, `AllHandled` | `AtItsEnd`: a message of at most five bytes that ends with two of 128 or more (a PUBACK or SUBACK), interrupted between them | the last byte read is taken for a part of the remaining length (1284) |
| the same | `DeliverStalls` | a timeout inside a long payload counts as its end (1162); the rest is read as messages |
| the same | `HeaderCut`: an in buffer one or two bytes shorter than a long message up to its payload | the header's length leaves out the two bytes of the topic's length (1328), so that a header that does not fit is accepted |
| `AcknowledgedWasDelivered`, `FlowsComplete` | all but the rest of a message longer than the in buffer was given, `late` | the same timeout (1162), after which the message is acknowledged |
| `DialsAsAsked` | the default port, after a change of the scheme, is that of the scheme first dialled | the task stores a default port as if it had been given (1690) |
| `DialsAsAsked` | later TLS options, if the build lacks one of those held | applying them stops at the first the build lacks, and nobody looks at the result |
| `PropertiesOfMessage` | what a task set, if another set or sent, or a message was refused, before it sent | the properties are one field of the client, used by whoever sends next (`mqtt5_client.c:438`); no property is ever sent twice |
| `ServesAgain` | a daemon that is refused, or loses its connection | nothing reconnects it (`mqtt_wrapper.hpp:38`), and it has not ended, so that systemd does not restart it; nothing else keeps it from serving |
| `ServesAgain` as committed | everything | `mosquitto.conf:16` refuses every client that gives no user name, which is both: then nothing is ever published, and the property says so. The other settings have `AllowAnonymous` `TRUE`, as if the user names that its comment says are "set later" had been set |

Others are not claimed of some cases at all; the constants are there to put them
back, and TLC then refutes the property.

| Property | Fails with | Because |
|---|---|---|
| `StopFinishesTask` without `Careful` | `stops_early` | the task sets `run` (`mqtt_client.c:1655`) before it clears `STOPPED_BIT` (1658): a stop in between finds the bit of the task before. A second start before the first task connects makes a second task (`starts_again`, 1852) |
| `BrokerUnderstands` | `resp_info` not empty | the joined response topic loses its last character (`mqtt5_msg.c:761`) |
| `EventTopicRight` | two different `AliasMaxima` | a maximum lowered while connected refuses aliases that the broker was allowed in CONNECT (`mqtt5_client.c:117`) |
| `ListsWhole` | `Copied = "disconnect"` | only the head of a partly copied list is freed (`mqtt5_client.c:546`) |
| `AckedWereReceived`, `CompletedWasReceived` | two messages with one identifier | the run `client_collision`; the flows of `MqttSession` have distinct identifiers |

## 4. Proofs

All are for arbitrary constants under the named assumptions of the modules
(`QueueAssumption`: disjoint finite sets of threads, distinct special values;
`GatewayAssumption`: one thread of each role; `OutboxAssumption`,
`ClientAssumption`, `SessionAssumption`, `LifecycleAssumption`, `P5Assumption`,
`UpAssumption`, `ConfigAssumption`, `OutboundAssumption`, `SensorAssumption`: the
types of the constants; `FramingAssumption`: those of a link, whose messages are
not empty and make up all its bytes, and whose in buffer has room for a header and a
topic's length). The bounds
(`MaxPushes`, `MaxMessages`, `N`, `MaxBreaks`, `MaxConnects`, `MaxItems` ...) are
constants like the others: what is proved holds for any number.

**The daemon.**

- `QueueTypeCorrect`, `QueueFrontDefined`, `QueueNoLostWakeup`. The inductive
  invariant `QueueInv` joins the type invariant with: `MutexInv` (who is at a
  point inside the critical section owns the mutex, so at most one is), `CondInv`
  (the blocked threads are exactly those at `asleep`), `WaitInv` (who is about to
  block still sees an empty queue and no abort: what makes "test, then sleep"
  atomic), `FrontDefined`, `EndedInv` (who got `nullopt` saw an aborted, drained
  queue), `History` (`pushed = popped \o queue_`) and `NoLostWakeup`. The last is
  the delicate one: it counts records against awake poppers and pending
  notifications, and needs `WaitInv` when a popper falls asleep and the cardinality
  facts in `Counts` when one is woken or takes a record.
- `QueueImplementsChannel`: the safety part of the refinement. `Init` maps to
  `Init`, `PushAppend` to `Send`, `PopTake` to `Receive` or `End`, `AbortSet` to
  `Close`, all else stutters; `History` supplies the order.
- `DaemonUsesQueue`: `GatewaySafety => QueueSafety`. The daemon calls the queue only
  as its specification allows, so every queue theorem carries over:
  `DaemonNoLostWakeup` is a corollary.
- `DaemonQueueOutlivesItsUsers`, from `LifeInv`, which ties the position of main to
  the objects alive and to the threads that can still be inside the queue.
- `DaemonIngestedInOrder`: what the worker reports is what arrived and parses, all
  of it up to the record in its hand, in order. From `History` of the queue and
  `HandInv` (the record in the worker's hand is the last one taken). "The parsing
  ones, in order" is stated by a strictly increasing function onto their places:
  `SelectSeq` is recursive and out of the provers' reach.

**The client on the link.**

- `ClientConnectionAgreement`, from `ConnInv`: the API lock is held by exactly the
  task inside the client (`LockInv`), hence no task changes the connection under
  another's feet, and the agreement holds in every state between two steps.
- `ClientAckedWereReceived`, `ClientNoSilentLoss`, `ClientOneUnflaggedCopy`, for
  `IdsDistinct`: no identifier is drawn for two messages. Without it they are false,
  as the run `client_collision` shows. `DeliveryInv` has, beside `ConnInv`,
  `ProgressInv` (how far app_main is), `OutboxInv` (the items are those of messages
  begun, and the one being published is there and unsent), `WireInv` (an
  acknowledgement under way is for a message the broker has; a packet under way is
  of a message begun) and `CopyInv` (a copy without DUP is the first: none exists of
  a message still `QUEUED`, one at most of any other). The last is what makes
  `OneUnflaggedCopy` inductive: the property speaks of packets received, the
  danger is in those written. `Outbox_proofs` has the facts about the outbox that
  this and the next proof rest on: `outbox_get` and `outbox_dequeue` find the first item
  there is, and `outbox_set_pending` and `outbox_set_tick` change that one alone.
- `SessionDeliveredAtMostOnce`, `SessionCompletedWasReceived`,
  `SessionNothingForgotten`, `SessionEnqueuedInOrder`,
  `SessionAcknowledgedWasDelivered`, for any number of messages, callers, packets
  and lost connections. `SessionInv` is `ClientInv` (what the client keeps) and
  `FlowInv`: `UpOk` and `DownOk` say of every packet under way what it implies about
  its sender (a PUBREL to the broker: the broker has had the message; an answer to
  one of its own: the application was given it, to the extent that
  `AcknowledgedWasDelivered` allows); `UnsentInv` that a message waiting
  in the outbox was never sent; and `OnceInv` is why QoS 2 is exactly once across
  reconnections: when the broker may forget an identifier, or a PUBREL that will
  make it forget is under way, no PUBLISH of the message is behind it and the
  client sends none any more.

**The client and its application.**

- `LifecycleRunMeansTask`: `RunInv` adds to the property that `state` is one of the
  code's; it holds for every manner and any number of tasks.
- `CarefulStopFinishesTask`, `CarefulTaskNeverOutlivesClient`: the properties speak
  of a `Careful` application, and since no step changes the manner
  (`MannerFixed`), `Careful => CarefulInv` is inductive. `CarefulInv` says why the bit
  can be trusted although the task itself clears it: there is one task at most, the
  one of the last start (`OnlyHandle`); between a stop and a start there is none
  (`QuietBetween`); a task past its first lines has cleared the bit (`BitCleared`),
  and the application sees an event, without which it does not stop, only after
  that (`EventAfterClear`).
- `CallerPropertiesOfMessage`, without hypotheses: any number of tasks. `WishInv`: what
  the client holds for a kind of message was set since the last message of the kind
  (`unused`), and is what a task asked for whose last call no other's and no refusal
  has followed (`latest`). Setting and sending are two calls, so this is all that can
  be had.
- `PublishWithinServerLimits`, without hypotheses. `LimitsInv`: a limit that a
  former connection left in the client is at least as strict as the present
  broker's. CONNACK replaces only what it states and nothing resets the rest, but
  what it does not state is no limit, so that what is stale can only refuse more.
- `AliasEventTopicRight`, for `OneMaximum` (the application states one alias maximum,
  if any). `AliasInv`: the client's table, which no connection clears, agrees with
  the broker's wherever the broker's has an entry.
- `UserListsWhole`, for `CopiedForConnect`. `UpInv`: every block belongs to the list,
  the array or the item in hand (`HeapInv`); what a call has still to do is the end
  of what it was given and the list all that is complete before (`TodoInv`).
  `ListsWhole` is stated by places, like `IngestedInOrder`.
- `ConfigDialsAsAsked`, without hypotheses: any configurations, whatever they leave
  out. `ConfigInv`: what is held agrees field by field with what was given last since
  the configuration was made (`Agrees`); `ConfiguredFacts` is the heart, that
  `esp_mqtt_set_config`, which takes the fields in one order and applies the URI
  last, does to each field what `Latest` says of the calls.

**The messages.**

- `OutboundHeaderAnnouncesBody`, `OutboundStoredWhole`, without hypotheses: any buffer,
  topics and payloads, stored, refused or interrupted in any order. `OutInv` needs
  `FieldsKnown`: between two messages the total is zero unless a long message was
  abandoned, and the offset at most that of the last long message left unwritten
  (with none, the length of a header), so that only a message after one of these can
  seem to have payload left.
- `SensorIngestedAsMeasured`, for `TextIds`: an identifier cut at a NUL and to the field's size is
  still text (the protobuf parser refuses half a character). For every
  identifier, every two floats and every 32-bit counter the daemon reads what the
  node measured. `Layout` says which of the four fields are there (a zero is
  not sent) and where each begins; `FieldsRead` that the parser, which goes by
  tags alone, finds each at its place and leaves the absent ones at their
  defaults. The counter's varint is compared by its groups of seven bits.
- `FramingHandledAsSent`, for `WellFormed`, which is what MQTT 3.1.1 says: every message
  has the length its header announces, and a PUBLISH has a topic and its header
  within it. For any stream, any buffer and any way the reads cut the bytes up, the
  client handles the broker's messages whole, in order and once, until one of the
  three steps of section 3 derails it: the theorem says that there is no fourth.
  `FramingInv`: while it is not derailed, the messages handled are the first of the
  stream, and the client is between two
  messages or inside one, of which the in buffer holds exactly the first `r`
  bytes; then `PassInv` says what a new pass finds, `RestInv` what is still asked
  for, `DeliverInv` that what was handed over is the payload up to the bytes read.
  The heart is that the code reads type, length, topic and payload in a message
  of which it has a part only: `FirstBytes`, `HeaderRead`, `TopicRead` and
  `PublishRead` show that they are those of the whole message as soon as the
  bytes they look at are there.

**The whole path**, for any number of readings, losses, restarts and crashes.

- `PathAccounted`: the published readings are exactly those in the node's outbox,
  with the gateway (session, queue), ingested, or counted as not kept. It is the
  safety half of `NoReadingStuck`, in which the run checks it. `PathInv` adds what
  is on the wire: a PUBLISH is of a published reading, and a PUBACK is of one
  that the gateway has taken over, so that the node never drops the only copy.
- `PathNothingOutlives`: connection, subscription, session and queue go with the
  daemon they belong to (`OwnedInv`: a connection is that of a daemon which has
  made it). The run checks it within `ServesAgain`.

The hypotheses of the theorems (`IdsDistinct`, `OneMaximum`, `CopiedForConnect`,
`TextIds`, `WellFormed`) are definitions over the constants. Beyond the first three TLC
refutes the property: see the last table in section 3, and `client_collision` for
`IdsDistinct`.

**Only model-checked.** Liveness (`SignalEndsProcess`, `EveryRecordHandled`,
`LinkRestored`, `OutboxDrains`, `FlowsComplete`, `StopReturns`, `RequestsHonoured`,
`AllHandled`, all of `system`, and the liveness part of `ImplementsChannel`):
fairness is out of the prover's reach. The packets (`BrokerUnderstands`,
`ClientUnderstands`): builders and readers put a message together by folds over
its properties and topics and by `encoded_length`, and what a recursion over data
computes for every input cannot be proved here. Of them the readers that framing
uses are proved about, in `FramingHandledAsSent`.

## 5. Not modelled

Buildroot, PKI and build files have no run-time state. The examples that come with
esp-mqtt are demonstration programs linked into nothing here. Of nanopb only what
`SensorData` encodes is modelled; the rest is a vendored library. Paho, Mosquitto,
the C++ protobuf parser, NVS and the Wi-Fi driver are external and modelled from
the calls made. TLS is part of the transport, except which options a connection
gets. Logging is left out everywhere. Of a configuration: `set_null_client_id`, the will,
timeouts and buffer sizes. Of `mqtt_client.c`: the posting of events to
the default event loop, the error codes taken over from TLS and the pointers handed
out by the outbox. A topic alias is redefined in one step that succeeds, and the
texts of connect and will properties are copied in one step that succeeds or fails.
The queue of the daemon has no limit in the code, and none is stated. The counter
sent as `uptime_ms` counts passes of the loop, as `app_main` has it
(`main.cpp:28`); it is far from wrapping at one pass in ten seconds.

## 6. Plan

1. *Done*: the daemon and its queue; the node from power-on to its loop; the MQTT
   client with its life, configuration, flows, packets, framing and MQTT 5 part; the
   codec; the pipeline. The theorems of section 4.
2. *Done*: every safety invariant of a run except the two about whole packets, and
   the safety half of the path (section 4).
3. Proofs next: that the daemon of `Pipeline` abstracts `GatewayService`; the
   packets of a fixed form (the acknowledgements, PINGREQ), which need no fold;
   action properties of the lifecycle and the session (an event is never taken
   back, the identifier of an item never changes).
