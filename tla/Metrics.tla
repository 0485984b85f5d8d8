------------------------------ MODULE Metrics ------------------------------
(***************************************************************************)
(* The metrics registry (metrics.cpp), the broker code that feeds it       *)
(* (broker.cpp) and the HTTP endpoint that reads it (metrics_server.cpp,   *)
(* started and stopped by main.cpp).                                       *)
(*                                                                         *)
(* A broker handler changes the broker under mutex_ and then, still        *)
(* holding it, makes a sequence of calls on the registry, each of which is *)
(* atomic by itself.  The endpoint takes no broker lock, so a page mixes   *)
(* values from different moments.                                          *)
(*                                                                         *)
(* All atomics are accessed with memory_order_relaxed.  The variables here *)
(* hold the last value in the modification order of each atomic; a load by *)
(* the endpoint may return any earlier one, and the loads of two atomics   *)
(* are independent.  Only topic_mutex_ orders the endpoint with the        *)
(* handlers.                                                               *)
(***************************************************************************)
EXTENDS Naturals, Sequences, FiniteSets, Functions, SequencesExt

CONSTANTS
  Sessions,        \* identities of client connections
  Topics,
  Latencies,       \* publish latencies that occur, in microseconds
  BOUNDS,          \* upper bounds of all buckets but the last, ascending
  MaxCalls,        \* broker handlers entered and connections accepted
  MaxPublishes     \* publishes among them

ASSUME BoundsAscend == \A i \in 1..(Len(BOUNDS) - 1) : BOUNDS[i] < BOUNDS[i + 1]

VARIABLES
  sessions,        \* Broker::sessions_
  subscribers,     \* Broker::topic_subscribers_; a topic without an entry has {}
  held,            \* Broker::mutex_ is held by a handler
  todo,            \* the registry calls that handler still has to make
  acceptor,        \* where the accept loop stands
  counters,        \* the atomic counters
  gauges,          \* the atomic gauges
  count, sum_us, buckets,             \* publish_latency_
  topic_messages, topic_subscribers,  \* the maps under topic_mutex_; 0 stands for no entry
  server,          \* MetricsServer: "new", "running", "stopped"
  exporting,       \* what is left of answering a GET /metrics request
  page,            \* the values its exportPrometheus has loaded
  calls,           \* history: handlers entered and connections accepted
  recorded,        \* history: the latency of every publish that reached the registry
  drifted          \* history: topics with a step that their gauge does not follow

brokerVars == <<sessions, subscribers, held, todo, acceptor>>
counterVars == <<counters, gauges>>
histVars == <<count, sum_us, buckets>>
topicVars == <<topic_messages, topic_subscribers>>
registryVars == <<counterVars, histVars, topicVars>>
pageVars == <<server, exporting, page>>
vars == <<brokerVars, registryVars, pageVars, calls, recorded, drifted>>

Total(s) == FoldSeq(LAMBDA x, acc : x + acc, 0, s)
SumOver(f) == FoldFunction(LAMBDA x, acc : x + acc, 0, f)

NBuckets == Len(BOUNDS) + 1

Counters == {"published", "delivered", "subscriptions", "unsubscriptions", "connections",
             "disconnections", "acks"}
Gauges == {"active_connections", "active_subscribers", "topics"}

(* The keys of Broker::topic_subscribers_ and countTotalSubscribers. *)
TopicKeys == {t \in Topics : subscribers[t] # {}}
countTotalSubscribers(subs) == SumOver([t \in Topics |-> Cardinality(subs[t])])

EmptyPage == [published |-> 0, count |-> 0, sum_us |-> 0, inf |-> 0, topics |-> 0]

Init ==
  /\ sessions = {} /\ subscribers = [t \in Topics |-> {}]
  /\ held = FALSE /\ todo = <<>> /\ acceptor = "accept"
  /\ counters = [c \in Counters |-> 0] /\ gauges = [g \in Gauges |-> 0]
  /\ count = 0 /\ sum_us = 0 /\ buckets = [b \in 1..NBuckets |-> 0]
  /\ topic_messages = [t \in Topics |-> 0] /\ topic_subscribers = [t \in Topics |-> 0]
  /\ server = "new" /\ exporting = <<>> /\ page = EmptyPage
  /\ calls = 0 /\ recorded = <<>> /\ drifted = {}

-----------------------------------------------------------------------------
(* Calls on the registry. *)
increment(c) == [call |-> "increment", name |-> c]
set(g, n) == [call |-> "set", name |-> g, value |-> n]
onTopic(call, t) == [call |-> call, topic |-> t]

(* recordLatency is three separate updates. *)
recordLatency(l) == <<[call |-> "count"], [call |-> "sum", value |-> l],
                      [call |-> "bucket", value |-> l]>>

(* The first bucket whose bound exceeds the latency, else the last one. *)
BucketOf_le(l) == CHOOSE b \in 1..NBuckets :
  /\ b < NBuckets => l <= BOUNDS[b]
  /\ \A a \in 1..(b - 1) : l > BOUNDS[a]

BucketOf(l) == CHOOSE b \in 1..NBuckets :
  /\ b < NBuckets => l < BOUNDS[b]
  /\ \A a \in 1..(b - 1) : l >= BOUNDS[a]

(* A handler enters: it takes mutex_, changes the broker and has calls to make. *)
Enter(todoCalls) ==
  /\ ~held /\ held' = TRUE
  /\ todo' = todoCalls
  /\ calls < MaxCalls /\ calls' = calls + 1

SubscribeCalls(t, subs) ==
  <<increment("subscriptions"), onTopic("joined", t),
    set("active_subscribers", countTotalSubscribers(subs)),
    set("topics", Cardinality({u \in Topics : subs[u] # {}}))>>

Subscribe(s, t) ==
  LET subs == [subscribers EXCEPT ![t] = @ \union {s}] IN
  /\ s \in sessions
  /\ Enter(SubscribeCalls(t, subs))
  /\ subscribers' = subs
  /\ drifted' = IF s \in subscribers[t] THEN drifted \union {t} ELSE drifted
  /\ UNCHANGED <<sessions, acceptor, registryVars, pageVars, recorded>>

(* The topic count is only set again when the topic is erased. *)
UnsubscribeCalls(t, subs) ==
  <<increment("unsubscriptions"), onTopic("left", t),
    set("active_subscribers", countTotalSubscribers(subs))>>
  \o (IF subs[t] = {} THEN <<set("topics", Cardinality(TopicKeys \ {t}))>> ELSE <<>>)

(* The handler does nothing for a topic that has no entry.  For one that has *)
(* it does not ask whether the session was among the subscribers.            *)
Unsubscribe(s, t) ==
  LET subs == [subscribers EXCEPT ![t] = @ \ {s}] IN
  /\ s \in sessions /\ t \in TopicKeys
  /\ Enter(UnsubscribeCalls(t, subs))
  /\ subscribers' = subs
  /\ drifted' = IF s \notin subscribers[t] THEN drifted \union {t} ELSE drifted
  /\ UNCHANGED <<sessions, acceptor, registryVars, pageVars, recorded>>

PublishCalls(t, l) ==
  <<increment("published"), onTopic("message", t), increment("delivered")>> \o recordLatency(l)

Publish(s, t, l) ==
  /\ s \in sessions /\ Len(recorded) < MaxPublishes
  /\ Enter(PublishCalls(t, l))
  /\ recorded' = Append(recorded, l)
  /\ UNCHANGED <<sessions, subscribers, acceptor, registryVars, pageVars, drifted>>

HandleAck(s) ==
  /\ s \in sessions
  /\ Enter(<<increment("acks")>>)
  /\ UNCHANGED <<sessions, subscribers, acceptor, registryVars, pageVars, recorded, drifted>>

(* The per-topic gauges of the topics the session leaves are not touched. *)
RemoveCalls_uncounted(rest, subs) ==
  <<set("active_connections", Cardinality(rest)),
    set("active_subscribers", countTotalSubscribers(subs)),
    set("topics", Cardinality({t \in Topics : subs[t] # {}}))>>

RemoveCalls(rest, subs) ==
  <<increment("disconnections"), set("active_connections", Cardinality(rest)),
    set("active_subscribers", countTotalSubscribers(subs)),
    set("topics", Cardinality({t \in Topics : subs[t] # {}}))>>

RemoveSession(s) ==
  LET subs == [t \in Topics |-> subscribers[t] \ {s}] IN
  /\ s \in sessions
  /\ Enter(RemoveCalls(sessions \ {s}, subs))
  /\ sessions' = sessions \ {s}
  /\ subscribers' = subs
  /\ drifted' = drifted \union {t \in Topics : s \in subscribers[t]}
  /\ UNCHANGED <<acceptor, registryVars, pageVars, recorded>>

-----------------------------------------------------------------------------
(* The handler makes its next call and leaves after the last one. *)
Holds_forever(rest) == TRUE

Holds(rest) == rest # <<>>

Makes(call) ==
  /\ todo # <<>> /\ todo[1].call = call
  /\ todo' = Tail(todo) /\ held' = Holds(Tail(todo))
  /\ UNCHANGED <<sessions, subscribers, acceptor, pageVars, calls, recorded, drifted>>

IncrementCounter ==
  /\ Makes("increment")
  /\ counters' = [counters EXCEPT ![todo[1].name] = @ + 1]
  /\ UNCHANGED <<gauges, histVars, topicVars>>

SetGauge ==
  /\ Makes("set")
  /\ gauges' = [gauges EXCEPT ![todo[1].name] = todo[1].value]
  /\ UNCHANGED <<counters, histVars, topicVars>>

RecordCount ==
  Makes("count") /\ count' = count + 1 /\ UNCHANGED <<counterVars, sum_us, buckets, topicVars>>

RecordSum ==
  /\ Makes("sum") /\ sum_us' = sum_us + todo[1].value
  /\ UNCHANGED <<counterVars, count, buckets, topicVars>>

RecordBucket ==
  /\ Makes("bucket") /\ buckets' = [buckets EXCEPT ![BucketOf(todo[1].value)] = @ + 1]
  /\ UNCHANGED <<counterVars, count, sum_us, topicVars>>

IncrementTopicMessages ==
  /\ Makes("message") /\ topic_messages' = [topic_messages EXCEPT ![todo[1].topic] = @ + 1]
  /\ UNCHANGED <<counterVars, histVars, topic_subscribers>>

IncrementTopicSubscribers ==
  /\ Makes("joined") /\ topic_subscribers' = [topic_subscribers EXCEPT ![todo[1].topic] = @ + 1]
  /\ UNCHANGED <<counterVars, histVars, topic_messages>>

(* What decrementTopicSubscribers leaves: no entry when none was there or *)
(* when the count reaches zero.                                           *)
Decremented_all(n) == 0

Decremented(n) == IF n = 0 THEN 0 ELSE n - 1

DecrementTopicSubscribers ==
  /\ Makes("left")
  /\ topic_subscribers' = [topic_subscribers EXCEPT ![todo[1].topic] = Decremented(@)]
  /\ UNCHANGED <<counterVars, histVars, topic_messages>>

-----------------------------------------------------------------------------
(* The accept loop: the session enters sessions_ under the mutex, its thread *)
(* starts, the counter is incremented without the mutex, and the gauge is    *)
(* set under the mutex from the size the list has then.                      *)
Accept(s) ==
  /\ acceptor = "accept" /\ ~held /\ s \notin sessions
  /\ sessions' = sessions \union {s}
  /\ acceptor' = "counting"
  /\ calls < MaxCalls /\ calls' = calls + 1
  /\ UNCHANGED <<subscribers, held, todo, registryVars, pageVars, recorded, drifted>>

CountConnection ==
  /\ acceptor = "counting" /\ acceptor' = "setting"
  /\ counters' = [counters EXCEPT !["connections"] = @ + 1]
  /\ UNCHANGED <<sessions, subscribers, held, todo, gauges, histVars, topicVars, pageVars, calls,
                 recorded, drifted>>

ConnectionGauge_adds == gauges["active_connections"] + 1

ConnectionGauge == Cardinality(sessions)

SetConnectionGauge ==
  /\ acceptor = "setting" /\ ~held /\ acceptor' = "accept"
  /\ gauges' = [gauges EXCEPT !["active_connections"] = ConnectionGauge]
  /\ UNCHANGED <<sessions, subscribers, held, todo, counters, histVars, topicVars, pageVars, calls,
                 recorded, drifted>>

-----------------------------------------------------------------------------
(* The endpoint.  Starting it may throw; main then goes on without it.  A   *)
(* request that is not GET /metrics gets 405 or 404 and reads nothing.      *)
StartServer ==
  /\ server = "new" /\ server' \in {"running", "stopped"}
  /\ UNCHANGED <<brokerVars, registryVars, exporting, page, calls, recorded, drifted>>

StopServer ==
  /\ server = "running" /\ server' = "stopped"
  /\ UNCHANGED <<brokerVars, registryVars, exporting, page, calls, recorded, drifted>>

(* exportPrometheus reads the atomics first, then the topics. *)
ExportOrder_topicsFirst == <<"topics", "atomics", "respond">>

ExportOrder == <<"atomics", "topics", "respond">>

HandleRequest ==
  /\ server = "running" /\ exporting = <<>>
  /\ exporting' = ExportOrder
  /\ UNCHANGED <<brokerVars, registryVars, server, page, calls, recorded, drifted>>

Exports(part) ==
  /\ exporting # <<>> /\ Head(exporting) = part /\ exporting' = Tail(exporting)
  /\ UNCHANGED <<brokerVars, registryVars, server, calls, recorded, drifted>>

(* The values that sum_us has had. *)
Sums == {n \in {Total(SubSeq(recorded, 1, k)) : k \in 0..Len(recorded)} : n <= sum_us}

(* The relaxed loads, those of which the totals of the page consist; the    *)
(* +Inf bucket adds up a load of each bucket.  As each load may return any  *)
(* earlier value, whatever loads at different moments can return, loads at  *)
(* the last of these moments can return too: they are one step.             *)
LoadAtomics ==
  /\ Exports("atomics")
  /\ \E p \in 0..counters["published"], c \in 0..count, s \in Sums, i \in 0..Total(buckets) :
       page' = [page EXCEPT !.published = p, !.count = c, !.sum_us = s, !.inf = i]

(* The per-topic counts, with topic_mutex_. *)
LoadTopics ==
  /\ Exports("topics")
  /\ page' = [page EXCEPT !.topics = SumOver(topic_messages)]

Respond == Exports("respond") /\ page' = EmptyPage

-----------------------------------------------------------------------------
Next ==
  \/ \E s \in Sessions, t \in Topics : Subscribe(s, t) \/ Unsubscribe(s, t)
  \/ \E s \in Sessions, t \in Topics, l \in Latencies : Publish(s, t, l)
  \/ \E s \in Sessions : HandleAck(s) \/ RemoveSession(s) \/ Accept(s)
  \/ IncrementCounter \/ SetGauge \/ RecordCount \/ RecordSum \/ RecordBucket
  \/ IncrementTopicMessages \/ IncrementTopicSubscribers \/ DecrementTopicSubscribers
  \/ CountConnection \/ SetConnectionGauge
  \/ StartServer \/ StopServer \/ HandleRequest \/ LoadAtomics \/ LoadTopics \/ Respond

Spec == Init /\ [][Next]_vars

-----------------------------------------------------------------------------
(* Every variable keeps the type its declaration in metrics.hpp gives it,    *)
(* and a handler holds the mutex exactly as long as it has calls to make.    *)
TypeOK ==
  /\ sessions \subseteq Sessions
  /\ subscribers \in [Topics -> SUBSET sessions]
  /\ held = (todo # <<>>)
  /\ acceptor \in {"accept", "counting", "setting"}
  /\ counters \in [Counters -> Nat] /\ gauges \in [Gauges -> Nat]
  /\ count \in Nat /\ sum_us \in Nat /\ buckets \in [1..NBuckets -> Nat]
  /\ topic_messages \in [Topics -> Nat] /\ topic_subscribers \in [Topics -> Nat]
  /\ server \in {"new", "running", "stopped"} /\ \E n \in 0..3 : exporting = SubSeq(ExportOrder, n + 1, 3)
  /\ page \in [DOMAIN EmptyPage -> Nat] /\ drifted \subseteq Topics

(* Whenever no handler holds mutex_, the gauges agree with the broker, and   *)
(* the connection gauge does as soon as the accept loop is back at accept:   *)
(* a session that ends before the loop has counted it cannot leave the       *)
(* gauge wrong, because the loop takes the size anew under the mutex.        *)
GaugesMatchBroker ==
  ~held =>
    /\ gauges["active_subscribers"] = countTotalSubscribers(subscribers)
    /\ gauges["topics"] = Cardinality(TopicKeys)
    /\ acceptor = "accept" => gauges["active_connections"] = Cardinality(sessions)

(* Connections counted, less disconnections counted, are the sessions; the   *)
(* one session the accept loop has started and not yet counted may already   *)
(* have been counted as disconnected.                                        *)
ConnectionsBalance ==
  ~held => counters["connections"] + (IF acceptor = "counting" THEN 1 ELSE 0)
             = counters["disconnections"] + Cardinality(sessions)

(* Between publishes, the cumulative bucket below a bound counts exactly the *)
(* publishes that were faster than the bound, and count and sum_us cover     *)
(* every publish.                                                            *)
HistogramExact ==
  ~held =>
    /\ count = Len(recorded) /\ sum_us = Total(recorded)
    /\ \A b \in 1..NBuckets : Total(SubSeq(buckets, 1, b))
         = Len(SelectSeq(recorded, LAMBDA l : b < NBuckets => l < BOUNDS[b]))

(* The per-topic counts of a page cover every publish that the rest of the   *)
(* page has counted, but for one whose handler is between the two counters:  *)
(* the histogram and the +Inf bucket never run ahead of the per-topic        *)
(* counts, however the relaxed loads are ordered, because publish() takes    *)
(* topic_mutex_ before it records the latency, and exportPrometheus takes it *)
(* after its loads.  (The histogram by itself has no such coherence: _count, *)
(* _sum and +Inf may each lack any publish that the others have.)            *)
PageCoherent ==
  exporting = <<"respond">> =>
    /\ page.published <= page.topics + 1
    /\ page.count <= page.topics /\ page.inf <= page.topics
    /\ page.sum_us <= Total(SubSeq(recorded, 1, page.topics))

(* The gauge of a topic is the number of its subscribers unless a session    *)
(* has subscribed to it twice, has unsubscribed from it without being        *)
(* subscribed, or has ended while subscribed; these are the only ways in     *)
(* which the gauge and the subscriber set part.                              *)
TopicGaugeExact ==
  ~held => \A t \in Topics \ drifted : topic_subscribers[t] = Cardinality(subscribers[t])
=============================================================================
