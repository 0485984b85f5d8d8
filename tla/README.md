# MetricMQ in TLA+

A model of MetricMQ - the broker, its client library and its metrics - checked
with TLC on small instances and, in part, proved with TLAPS for all instances.
Paths below are relative to the repository (`src/` is its root, so the broker is
`src/src/broker.cpp`).

## The system

MetricMQ is a message broker: one process that accepts TCP connections, runs a
detached thread per connection, speaks a binary protocol and RESP, and keeps
messages and acknowledgements in an LMDB database. A client library speaks both
protocols; an HTTP endpoint exports metrics; publishes may be signed.

| Part | Source | State it changes | Module |
|---|---|---|---|
| Accept loop, connection cap | `broker.cpp` `run` | `sessions_`, `active_connections_` | `Broker` |
| Subscriptions | `broker.cpp` `subscribe`, `unsubscribe`, `removeSession` | `topic_subscribers_` | `Broker` |
| Publish, compaction, fan-out | `broker.cpp` `publish`, `runCompactionIfDue` | counters, database, sockets | `Broker` |
| Acknowledgements | `broker.cpp` `handleAck`, `registerClient` | `client_acks_`, `last_ack_seq_`, database | `Broker` |
| Replay | `broker.cpp` `replayMessages`, `replayMessagesForClient` | sockets | `Broker` |
| Bounded ack set | `broker.hpp` `BoundedAckSet` | itself | `BoundedAckSet` |
| Persistence | `storage/LmdbStorage.cpp` | the database | `LmdbStorage` |
| Blocking sends, shutdown | `session.cpp` `send`, `broker.cpp` `stop`, `main.cpp` | socket buffers, `persistence_`, the process | `BrokerProcess` |
| Receive loop, handlers, replies | `session.cpp` `run`, `handleBinaryFrame`, `handleCommand` | `recv_buffer_`, `client_id_`, `sequence_` | `Session` |
| Codecs | `binary_protocol.cpp`, `resp_parser.cpp` | none | `BinaryProtocol`, `RespParser` |
| Client library, ESP32 sketch | `binary_pubsub.cpp`, `pubsub.cpp`, `queue.cpp`, `sketch.ino` | client socket, buffer, counter | `ClientLibrary` |
| Key store, topic scopes, hex | `crypto/keystore.cpp`, `crypto/signing.cpp`, `session.cpp` | `keys_`, `next_key_id_` | `KeyStore` |
| Metrics and their endpoint | `metrics.cpp`, `metrics_server.cpp`, `broker.cpp` | counters, gauges, histogram | `Metrics` |

The threads meet in the `Broker` object. Its mutex covers each public method,
with three exceptions that matter: both replays read the database and send
without it, the accept loop counts connections in an atomic outside it, and
`stop()` destroys the storage without it. A session's thread writes its replies
to the socket without it too, while other threads write published messages
there.

The same code appears at three grains. `Broker` has the steps inside a handler
and the data they work on, and takes a send as one step. `Session` and
`ClientLibrary` have the bytes on the wire, and take a handler as one step.
`BrokerProcess` has what a thread can wait for, and next to no data.

## Modules

* `BoundedAckSet` - the deque, hash set and maximum of a client's acks, and
  `insert` with its eviction.
* `LmdbStorage` - the operations of the storage class on the contents of the
  database: what `save` writes, what `load_range` finds (keys are decimal texts
  that LMDB orders as bytes), what compaction deletes, how ack keys are matched.
* `Broker` - the state machine. One action per critical section of the mutex,
  per database transaction, and per step that a thread takes between them.
* `BrokerProperties` - its type invariant, what the broker guarantees, and what
  its documentation says of it.
* `BinaryProtocol`, `RespParser` - the codecs as operators on sequences of bytes.
* `Session` - the connection threads: `recv()`, the buffer and its cap, protocol
  detection, the idle clock, the parse loops, every command with its replies.
* `ClientLibrary` - the client classes, one action per call or round of a
  receive loop, each client connected to a `Session`; clients that die, and
  connections that are reset.
* `RequestChannel` - what a connection promises: the abstract specification that
  clients, wire and session together implement.
* `ClientProperties` - what clients can rely on, and the refinement mapping.
* `BrokerProcess` - threads on `mutex_`, the log, socket buffers, storage and
  signals.
* `Metrics` - the registry, the code that feeds it and the endpoint that reads it.
* `KeyStore` - the key table, and the handler of a signed publish as the three
  separate accesses it makes to the table.
* `MCBroker`, `MCClients`, `MCProcess`, `MCMetrics`, `MCKeyStore` - the constants
  of the TLC runs.
* `BoundedAckSetProofs`, `BrokerTypeLemmas`, `BrokerTypeProofs`,
  `BrokerConnectionProofs`, `KeyStoreProofs` - theorems.

An operator with an underscore suffix in its name that stands before another one
(`BelowCap_inclusive` before `BelowCap`) is a slip that a programmer could make
there. No action uses it; it is kept to show that the properties notice it.

### Broker: state and source

`pc[s]` is where the thread of session `s` is. `"idle"` means that it waits for
the next command; the other labels name the call it is about to make. `cmd`,
`loading` and `pending` are the locals of a handler (topic and start of a
replay, acks not yet inserted, rows not yet sent); `client_id` and `sequence`
are members of `Session`. `lock` is the holder of `mutex_`. `publish()` and
`registerClient()` hold it over several actions: first save, then compaction of
messages, purge of acks, fan-out; first the read of the acks, then an insertion
for each. All other critical sections are one action, guarded by `lock = None`.
In `replayMessagesForClient` the look-up of a row in the ack set and the send of
the row are two actions, because `isAcked()` gives the mutex back in between.
`db_msgs`, `db_last` and `db_acks` are the database. `out[s]` is what the
process handed to the socket of `s`. `log`, `acked` and `since` are history
variables: no action's guard or code variable depends on them, except the bound
`MaxPublishes` and the choice of an identity for a new message.

`Crash` may happen between any two actions. It loses everything but the
database and the history, and is followed by the constructor. `Fails` is a
transaction that LMDB refuses; the code reports it on stderr and goes on.

Data is abstract. A byte string is a sequence of tokens, one of them the zero
byte, because two properties depend on where the first zero byte of a record
is. A client id is the sequence of its segments between colons, because ack
keys are matched by prefix. Numbers are printed in base `Radix`, 10 in the
code and 2 or 3 in most runs, so that a number with two digits is reached soon.
A Session pointer is a member of `Sessions`, which may be reused once its
thread has ended, as an address may.

Simplifications. The sends of one fan-out are a single step, under the mutex,
and a send reaches the socket whole (`BrokerProcess` takes them apart). Replies
are left out (`Session` has them). A RESP SUBSCRIBE of several topics is several
SUBSCRIBEs. A map entry that the code erases when it is empty is an empty entry.
A message is published on a topic for which the handler has accepted it; what
comes before that is in `Session` and `KeyStore`.

### Session and ClientLibrary: state and source

`to_broker[c]` and `to_client[c]` are the bytes under way on connection `c`.
`recv()` returns what is there, up to the size of its buffer, or less: a stream
may be cut short at the sizes in `Pieces`. `pc` is where the session's thread
is: in `recv()`, before a parse, before a handler, past the loop, closed.
`current[c]` is the request that was parsed and taken from the buffer, until it
is handled. `idle` counts receive timeouts since data came; `IDLE_TICKS` of them make `SESSION_IDLE_TIMEOUT_S`.
`cl_pc` is where the client is, and `calls` the calls its program has yet to
make. Integer fields keep their width, which is a constant. A run of characters
that matters only as a whole (a command word, `secure/`, an error text) is one
byte; the terminators, lengths and separators that framing depends on are kept.

Each handler is one step, with the whole of `publish`, `subscribe` or
`handleAck` in it; the set of acks is unbounded here and its record immediate.
Whether a signed publish is accepted is a free choice (`KeyStore` settles it).
All six classes of the library connect in their constructors in the same way
(`Init`, with connections that are refused). Closing a socket with bytes unread
resets the connection: what is under way in the other direction may be lost
(`Ends`, `Destroy`, `Lose`). What is written to a client that has closed is
dropped; that it may end the process is in `BrokerProcess`. Two threads that share a client object, and the
console output of the receive loops, are left out.

### BrokerProcess: state and source

A frame is `PARTS` pieces and a socket buffer holds `SOCK_BUF` of them, so
that `Session::send` blocks in the middle of a frame. Writing to a client that
has gone fails or raises SIGPIPE, which the process does not handle. A save
fails whenever it likes, as in `Broker`; the publish goes on. A replay sends up
to `MaxRows` rows.

`main_pc` follows `main()` from the installation of the handlers on: the
construction of the broker, which may throw, `g_broker.store`, `run()` with its
early returns, the accept loop, the end. The signal handler runs on the main
thread (Linux delivers a signal of the process to it), which stands still
meanwhile. It calls `stop()` only if `g_broker` is stored; an earlier signal sets
the flag and nothing else, and the broker starts all the same. A second signal
ends the process at once, also during the handler.

The lock of the log is held by the main thread over a state (`MainHoldsLog`),
where a signal can find it. Session threads log within one step that needs the
lock free: while they hold `mutex_` (`LogSubscription`, `Unlock`), after a failed
send, and before they end. `persistence_.reset()` is two steps, between which an
operation under way on another thread may do anything. `written` is the last
piece that each kind of sender has written to a client: publishes of any thread,
and what the session's own thread sends.

Left out: the connection cap, several topics and compaction (`Broker` has them);
two different signals of which the second comes before the first has set its
flag; the locks of the console and of the heap, which the handler uses as well;
what detached threads do while `exit` runs.

### Metrics and KeyStore: state and source

In `Metrics` a handler takes `mutex_`, changes the broker, and makes its calls
on the registry one at a time (`todo`), because each is atomic by itself and the
endpoint reads without the mutex. The atomics are accessed with
`memory_order_relaxed` on both sides. A variable holds the last value in the
modification order of its atomic, and a load by the endpoint returns any value
that the atomic has had, independently of the other loads. That makes all loads
of a page one step (`LoadAtomics`): what loads at different moments can return,
loads at the last of these moments can return too. The per-topic counts are read
under `topic_mutex_` (`LoadTopics`), which the handlers take too; that lock is all
that orders the endpoint with them. It gives what `PageCoherent` says: if the endpoint had the lock before `publish()` took it, then its loads
happened before that publish recorded its latency. `page` has the values that
take part in a property. The endpoint has four threads; one request at a time is
modelled, as requests share nothing. `topic_subscribers` is the gauge,
`subscribers` the truth.

In `KeyStore` each method holds the store's lock and is one action, except
`verify_with_key`, which is two; `get_key_info` and the scope check are a third
step of the handler. A signature is known by the key that made it. `last_used`
is whether the key was used. `KeyIds` is 2^32 in the code. The broker never
registers keys itself; registration, removal and `clear()` are the calls of a
program that embeds the store.

## Runs that pass

| Run | Instance | What it shows |
|---|---|---|
| `delivery` | 3 connections, cap 2, a topic and `#`, 2 publishes | A subscriber is sent every message since its subscription, in order and once, or twice if it also had `#`. The subscribers' pointers are alive; `sessions_`, the counter and the cap agree although the counter is updated outside the mutex. |
| `store` | 6 publishes, compaction to 2 every 2, a failure, a crash | The stored numbers are an interval and belong to the right messages; failed saves cost one message of retention each, restarts one compaction interval of size each. |
| `acks` | 2 sessions, clients `c1` and `c1:2`, 2 numbers, ack set of 1, a failure | Ack set and cache stay coherent through eviction, repetition and reload in any order; the acks of `c1:2` are for `c1` an ack of 2 and nothing else; the replay position never falls. |
| `replay` | 2 connections of one client | An ack that races a replay on another connection is honoured for the rows not yet looked up. |
| `replay_restart` | 1 client, 3 publishes, compaction to 2 every 1, a crash | After a restart the acks on disk suffice to skip what was acknowledged, although compaction deleted some. Also the run of `Broker`'s type invariant. |
| `link` | 13 pairs of client programs | Sessions serve exactly the requests that were written, in order, and all of them; calls return; callbacks are in order and complete; acks follow callbacks; the buffer cap spares acceptable requests. |
| `process` | 2 sessions, one of which may leave, frames of 2 pieces, buffers of 1 | Publishes do not mix on a socket; nothing is seen before its save has returned, but for what a shutdown overtakes; a request or a shutdown waits for ever only for a client that does not read, or after a signal in the middle of the log. |
| `metrics` | 2 sessions, 2 topics, 2 buckets, 5 calls | Gauges, counters and histogram agree with the broker between handlers; the per-topic counts of a page cover what the rest of the page counts. |
| `keystore` | 3 ids, of which 2 in use, 2 keys, 2 scopes, 2 topics, 1 handler | Ids are fresh and keep their key, removed keys stay removed, publishes are in scope, hexadecimal text can be read back. |

Bounds of `Broker`: `MaxPublishes`, `MaxFailures`, `MaxCrashes` and `MaxSent` (a
session that has been sent more frames does not subscribe again, because every
subscription may replay and `out` would grow for ever). They are enough for
the cases the properties are about: in `store` the sixth publish is past two
compactions and its number has two digits; in `acks` a second ack evicts the
first, and the id `c1:2` continues `c1` by a number that is also acknowledged; in
`replay_restart` compaction deletes a message and its ack before the
crash; in `delivery` the third connection meets the cap. Because of the separator
described below, ordinary topics replay nothing; the replay runs use a pair of
topics for which the stored records do split so that the replay loops have rows
to work on.

Bounds of `link`: programs of up to three calls (`MCClients`), which reach every
action of `Session` and `ClientLibrary`: each kind of publisher with its
subscriber, a RESP publisher with a binary subscriber, clients that cannot
connect or die, the sketch, requests that are never accepted because of their
topic or their size, and several requests in one write. The buffers are a few
bytes larger than a frame, so that requests straddle `recv()` calls and the cap
is met. Every stream is finite, so each behaviour ends; deadlock is not checked.

Bounds of `process`: a publish by one session, a subscription and a publish by
the other, one replayed row. The buffer holds half a frame, so every send blocks
until its client reads. `metrics`: `MaxCalls` handlers and connections, `MaxPublishes` publishes,
enough for a second publish to overlap the scrape of the first, and one latency
that lies exactly on a bucket's bound. `keystore`: three ids
overflow the counter after two registrations, and `MaxRegistered` of them are in
use at a time, enough for the counter to meet one again. One handler suffices for
TLC because handlers share nothing but the store, which changes freely under
them; the proofs take any number.

Sessions (and topics, in `metrics`) are symmetric where a run says so; no
liveness is checked on a symmetric instance.

### Fairness

`BrokerProcess`: weak fairness of each session thread, of the main thread and of
the handler, which is what a scheduler gives a thread that is able to run.
Nothing is assumed of the clients: they need not send, read or leave, and signals
need not come. Two ways of hanging are therefore part of the properties (`Hangs`)
and not assumed away. There is no send timeout, so one subscriber that stays
connected and does not read stops every publisher, the accept loop and every
session that wants to end (`Stalled`). A handler that interrupts the main thread
inside the log waits for itself, and every thread that logs waits for it
(`LogStuck`). `mutex_` is free again and again but a thread may be unlucky each
time; with finitely many requests weak fairness is enough.

`ClientLibrary`: each session thread and each client takes a step when it can,
where waiting for `recv()` to time out is a step. The fairness is written with
`ThreadCanStep` and `ClientCanStep`, which say when the thread's actions are
enabled. Nothing is assumed about the death of a client or the loss of bytes.

### Refinement

`RequestChannel` says that a connection serves the requests made on it in order,
each as it was made and none twice, and, while it is reliable, all of them.
`ImplementsRequestChannel` maps it to `ClientLibrary`: `made` to the requests
clients wrote before serialization, `served` to what the session's parse loops
handed to the handlers, `open` to the threads that still serve, `reliable` to the
connections that were not reset and whose requests are `Acceptable`. It is the
correctness of both codecs and both parse loops under every cut of the stream.
`Acceptable` is part of the result: a request is served if topic and payload keep
to the limits of the frame format and if its size, plus one `recv()`, fits the
receive buffer. A payload of the documented maximum, 16 MB, does not.

## Documents refuted

A run with an expected violation checks one sentence of the documentation or of
a comment, and TLC finds a behaviour of the code that contradicts it.
`PROJECT.json` quotes the sentence and the line of the code.

| Run | Sentence | What the code does |
|---|---|---|
| `doc_history_replayed` | new subscribers receive all historical messages | The separator in a stored record is an empty C string; the record is not split again, and nothing is replayed. |
| `doc_mixed_protocols` | messages of a RESP publisher flow to a binary subscriber | They arrive in RESP; the subscriber can read neither them nor anything after them. |
| `doc_shutdown_flush` | sessions have time to finish before the storage is destroyed | `stop()` waits 500 ms, whatever the sessions do. |

These sentences are refuted as well. They are definitions of the modules named;
to see the counterexample, put the definition into the configuration.

| Definition | Configuration | Sentence | What the code does |
|---|---|---|---|
| `ReplayWindowIsStored` | `BrokerReplayRestart` (INVARIANT) | `src/src/broker.cpp:148-149`, the replay cap "matches the compaction window" | The window starts at 0, the stored interval does not. |
| `SmartReplayOnlyUnacked` | `BrokerReplayRestart` (PROPERTY) | `src/EXACTLY_ONCE_SPEC.md:24`, "Only replay messages NOT yet ACK'd by client" | `subscribe()` replays everything first. |
| `RowsAscending` | `BrokerStore`, with `Topics <- TopicAndPrefix` and `MAX_STORED_MESSAGES = 4` | `src/src/storage/LmdbStorage.hpp:67`, "in ascending seq order" | Rows come in byte order of decimal keys. |
| `SequencesIncrease` | `BrokerStore` | `src/README.md:244`, "monotonically-increasing sequence ID" | A failed save and a restart repeat a number. |
| `FrameCarriesSequence` | `BrokerStore` | `src/include/metricmq/binary_pubsub.hpp:108`, "Broker-assigned sequence ID." | Frames carry the publishing session's counter. |
| `SketchReceived` | `ClientLink` | `src/wokwi/metricmq-esp32-demo/sketch.ino:26`, "Broker receives temperature/humidity updates" | The sketch's frame has no sequence number and its lengths in other places; the broker waits for the rest of a frame. |
| `OneConsumerPerTask` | `ClientLink`, with `Conns = {pub, sub, other}` and `Programs <- QueuePrograms` | `src/include/metricmq/queue.hpp:6-7`, one consumer per task | Queues are topics; every consumer gets every task. |
| `OnlyCrashedDropped` | `ClientLink` | `src/README.md:1093`, only crashed clients are dropped for silence | A subscriber that only listens sends nothing and is dropped. |

Further disagreements were met while modelling and are no properties:

* The save that `publish()` makes before the fan-out may fail unnoticed, so a
  message can be delivered and answered that was never written (`failed` in
  `SaveBeforeSeen`). `RetainsLastMessages` and `StoreBounded` say what is left of
  retention and size: the compaction threshold runs ahead by the failed saves,
  and the publish count starts again in every process.
* The ack keys of a client are matched by prefix (`load_acks`, `Continues`), so
  an id that continues another one after a colon shares its keys; if a number
  follows the colon, it is taken for an ack (`AckIsolation`).
* The replay for a client may send a message acknowledged between the look-up
  and the send, on another connection (`ClientReplaySkipsAcked` is about the
  look-up).
* A frame that is refused is not "silently dropped" so that the client may "send
  a corrected frame" (`src/docs/TECHNICAL.md:756`): it stays at the head of the
  buffer, and what follows it is not read (`CallsReturn` says how that ends).
* `Subscriber::sendAck` sends its number as a bulk string, which the handler
  reads as 0; and a RESP session has no client id, so nothing is recorded.
* `messages_delivered_total` is incremented once per publish, not per delivery as
  the comment at `src/src/broker.cpp:137` says.
* The per-topic subscriber gauge drifts when a session subscribes twice,
  unsubscribes without being subscribed, or ends while subscribed; `TopicGaugeExact`
  says that these are the only ways.
* A signal that interrupts the main thread inside the log waits for itself, and
  one that comes before `main()` has stored the broker is not acted on;
  `ShutdownCompletes` says that, but for a client that does not read, nothing
  else keeps a signal from ending the process.
* `_count`, `_sum` and the `+Inf` bucket of one page need not agree, as Prometheus
  expects of a histogram: they are relaxed loads at different moments.

## Proofs

The theorems about `Broker` hold for all constants that satisfy `MaxAssumption`,
`RadixAssumption` and `BrokerAssumption`: finitely many sessions, topics that
are byte strings, client ids that are sequences of segments, acked numbers that are naturals, positive compaction
constants, a connection cap below 2^64. The bounds of the runs are constants
too, so the theorems hold for any number of publishes, failures and crashes.

* `InsertWellFormed`: `insert` preserves the representation invariant of the
  ack set, including at capacity.
* `TypeCorrect`: `Spec => []TypeOK`. `TypeOK` is inductive because it also says
  that a thread at a label has the locals its next step reads. The proof has
  one lemma per action, with one step for each of the four parts of `TypeOK`
  (control, threads, acks, store); parts an action does not touch follow from
  the `Same...` lemmas.
* `SubscribersAlive` and `ConnectionsCounted`: `NoDanglingSubscriber` and
  `ConnectionsAccounted` always hold, for any number of sessions and any cap
  below 2^64. The second is not inductive alone. `ConnectionInv` adds that the session
  the accept loop is setting up has no thread yet (`AcceptedIsNew`): so no
  thread can remove it, pushing it adds one to the list, and a session that ends
  between push and increment finds the counter at one or more. Steps that
  neither start nor end a thread are treated together (`Moves`); the other six
  have a lemma each.

The theorems about `KeyStore` hold for every number of ids above one, every size
and set of keys, every set of scopes and topics, and any number of handlers
(`KeyIdsAssumption`, `SizeAssumption`, `PublicKeysAssumption`, `NoKeyAssumption`).

* `KeyStoreFreshIds`, `KeyStorePublishedInScope`: the invariants of the run. The
  inductive invariant `IInv` adds `InFlight` to them: a handler between lookup
  and scope check still has the entry it was granted, enabled and with the key
  of the signer, and as long as the entry is `steady` the table holds the same
  key and scope for it. So the scope that is checked is that of the key that was
  verified. There is one lemma per action.
* `KeyStoreKeepsIdentity`, `KeyStoreNoResurrection`: action properties, from the
  same invariant; `FreshIds` is what keeps an automatic registration from
  replacing an entry.
* `HexInverse`: `from_hex` of `to_hex` is the identity for every size;
  `KeyStoreHexRoundTrip` follows for registered keys.

Only model-checked: delivery, acknowledgement, store and replay properties of
`Broker`, and everything about `ClientLibrary`, `BrokerProcess` and `Metrics`.
Liveness and the fairness it needs stay with TLC. So do the codecs: `RespParser`
is recursive, and what a recursive definition computes for every input is a
proof by induction over data.

## Not modelled

* Cryptography (`crypto/signing.cpp` but for the hexadecimal text): libsodium's.
* `Metrics::reset()`, which only tests call; the error counter and the delivery
  histogram, which no code feeds; the text format of the page.
* `PrometheusExporter`, which the broker does not use; the logger, of which
  `BrokerProcess` has the lock; the key generation tool; examples, benchmarks.
* The ESP8266 and PlatformIO sketches, and of the ESP32 sketch everything but the
  publish: sensors, LEDs, Wi-Fi.
* Windows: the sources have a branch of their own for its sockets. Signals and
  resets are those of POSIX and TCP.
* The inside of LMDB, spdlog and the HTTP library.

## What could follow

A durable log (append, trim, restart) as an abstract specification of the store;
proofs of store contiguity, of the ack cache's coherence and monotonicity, of ack
isolation, of live delivery, and of the gauges.
