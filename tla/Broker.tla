------------------------------- MODULE Broker -------------------------------
(***************************************************************************)
(* The MetricMQ broker process: the accept loop, one detached thread per   *)
(* connection, the state they share behind Broker::mutex_, and the LMDB    *)
(* database that outlives the process (src/src/broker.cpp, the command     *)
(* handlers of src/src/session.cpp, src/src/storage/LmdbStorage.cpp).      *)
(*                                                                         *)
(* An action is one critical section of the mutex, one database            *)
(* transaction, or one step a thread takes between them.  publish() and    *)
(* registerClient() hold the mutex over several such steps, so a crash, or *)
(* a reader of the database that does not take the mutex, can fall between *)
(* them.  Replies to the requesting client are not part of the state.      *)
(*                                                                         *)
(* An operator such as BelowCap_inclusive, before BelowCap, is a slip that *)
(* the code could have there; no action uses it.                           *)
(***************************************************************************)
EXTENDS BoundedAckSet, LmdbStorage

CONSTANTS
  Sessions,              \* addresses of Session objects; reused once a thread has ended
  RespSessions,          \* the connections whose first byte selects RESP
  Names,                 \* runs of bytes that topics and client ids are made of
  Topics,                \* topics the clients use
  Wildcard,              \* the topic "#"
  ClientIds,             \* ids sent before the zero byte of a SUBSCRIBE topic
  NoId,                  \* the empty client id
  AckSeqs,               \* sequence numbers that clients acknowledge
  Header,                \* first bytes of a binary MESSAGE frame: version, command
  Text,                  \* first bytes of a RESP message array
  None,                  \* no session
  MAX_STORED_MESSAGES, COMPACT_EVERY, MAX_CONNECTIONS,
  SizeModulus,           \* 2^64: std::size_t arithmetic wraps at this value
  MaxPublishes,          \* bound: publishes in a behaviour
  MaxSent,               \* bound: frames sent to a session that subscribes again
  MaxFailures,           \* bound: failed database transactions
  MaxCrashes             \* bound: process crashes

Byte == Names \cup {Nul, Header, Text} \cup Nat

ASSUME BrokerAssumption ==
  /\ IsFiniteSet(Sessions) /\ RespSessions \subseteq Sessions /\ None \notin Sessions
  /\ Topics \subseteq Seq(Byte) /\ ClientIds \subseteq Seq(Names \cup Nat)
  /\ AckSeqs \subseteq Nat
  /\ MAX_STORED_MESSAGES \in Nat \ {0} /\ COMPACT_EVERY \in Nat \ {0}
  /\ MAX_CONNECTIONS \in Nat /\ SizeModulus \in Nat /\ MAX_CONNECTIONS < SizeModulus
  /\ MaxPublishes \in Nat /\ MaxSent \in Nat /\ MaxFailures \in Nat /\ MaxCrashes \in Nat

VARIABLES
  \* the accept loop
  accept_pc, accept_fd,
  \* Broker members
  lock, sessions, active_connections, topic_subscribers, client_sessions,
  client_acks, last_ack_seq, current_sequence, publish_count,
  \* each session thread: program counter, Session members, locals of the handlers
  pc, client_id, sequence, cmd, loading, pending,
  \* what has been handed to the socket of each session
  out,
  \* the database
  db_msgs, db_last, db_acks,
  \* fault counters
  failures, crashes,
  \* history: every publish (with the sessions that were subscribed both to
  \* its topic and to "#"), what each client acknowledged, the length of the
  \* log when a session subscribed
  log, acked, since

acceptVars == <<accept_pc, accept_fd>>
connVars   == <<sessions, active_connections>>
threadVars == <<client_id, sequence, cmd, loading, pending>>
subVars    == <<topic_subscribers, since>>
ackVars    == <<client_sessions, client_acks, last_ack_seq, acked>>
seqVars    == <<current_sequence, publish_count, log>>
dbVars     == <<db_msgs, db_last, db_acks>>
vars == <<acceptVars, connVars, threadVars, subVars, ackVars, seqVars, dbVars,
          lock, pc, out, failures, crashes>>

----------------------------------------------------------------------------
(* The locals of a handler: the topic, whether the subscription has a      *)
(* client id, where its replay starts, and which message of the log is     *)
(* being published.                                                        *)
NoCmd == [topic |-> <<>>, smart |-> FALSE, from |-> 0, entry |-> 0]

Subscribers(t) == IF t \in Topics THEN topic_subscribers[t] ELSE {}

(* The bytes publish() receives for the i-th message: a binary frame has a *)
(* zero byte in its sequence field, right after version and command; a     *)
(* RESP array has none.                                                    *)
MessageFrame(s, i) == IF s \in RespSessions THEN <<Text, i>> ELSE <<Header, Nul, i>>

(* A database transaction commits, or fails and is only reported to stderr. *)
Commits == UNCHANGED failures
Fails   == failures < MaxFailures /\ failures' = failures + 1

Goto(s, label) == pc' = [pc EXCEPT ![s] = label]

(* A lock_guard without a name, which unlocks at once. *)
Acquire(s) == lock = None /\ lock' = s
Release == lock' = None
(* A critical section that is a single step. *)
Locked == lock = None /\ UNCHANGED lock

----------------------------------------------------------------------------
(* Broker::Broker: everything in memory is new, and the sequence counter   *)
(* is read back from the database.                                         *)
Init ==
  /\ accept_pc = "loop" /\ accept_fd = None
  /\ lock = None /\ sessions = {} /\ active_connections = 0
  /\ topic_subscribers = [t \in Topics |-> {}]
  /\ client_sessions = [c \in ClientIds |-> None]
  /\ client_acks = [c \in ClientIds |-> EmptyAckSet]
  /\ last_ack_seq = [c \in ClientIds |-> 0]
  /\ current_sequence = 0 /\ publish_count = 0
  /\ pc = [s \in Sessions |-> "none"]
  /\ client_id = [s \in Sessions |-> NoId]
  /\ sequence = [s \in Sessions |-> 0]
  /\ cmd = [s \in Sessions |-> NoCmd]
  /\ loading = [s \in Sessions |-> {}]
  /\ pending = [s \in Sessions |-> <<>>]
  /\ out = [s \in Sessions |-> <<>>]
  /\ since = [s \in Sessions |-> [t \in Topics |-> 0]]
  /\ db_msgs = <<>> /\ db_last = 0 /\ db_acks = {}
  /\ failures = 0 /\ crashes = 0
  /\ log = <<>>
  /\ acked = [c \in ClientIds |-> {}]

(* The process dies at any point and is started again on the same database. *)
Crash ==
  /\ crashes < MaxCrashes /\ crashes' = crashes + 1
  /\ \/ Commits /\ current_sequence' = db_last
     \/ Fails /\ current_sequence' = 0
  /\ accept_pc' = "loop" /\ accept_fd' = None
  /\ lock' = None /\ sessions' = {} /\ active_connections' = 0
  /\ topic_subscribers' = [t \in Topics |-> {}]
  /\ client_sessions' = [c \in ClientIds |-> None]
  /\ client_acks' = [c \in ClientIds |-> EmptyAckSet]
  /\ last_ack_seq' = [c \in ClientIds |-> 0]
  /\ publish_count' = 0
  /\ pc' = [s \in Sessions |-> "none"]
  /\ client_id' = [s \in Sessions |-> NoId]
  /\ sequence' = [s \in Sessions |-> 0]
  /\ cmd' = [s \in Sessions |-> NoCmd]
  /\ loading' = [s \in Sessions |-> {}]
  /\ pending' = [s \in Sessions |-> <<>>]
  /\ out' = [s \in Sessions |-> <<>>]
  /\ since' = [s \in Sessions |-> [t \in Topics |-> 0]]
  /\ UNCHANGED <<dbVars, log, acked>>

----------------------------------------------------------------------------
(* Broker::run, the accept loop.  A connection above the cap is closed at  *)
(* once, which changes nothing.                                            *)
BelowCap_inclusive == active_connections <= MAX_CONNECTIONS

BelowCap == active_connections < MAX_CONNECTIONS

AcceptConnection(s) ==
  /\ accept_pc = "loop" /\ pc[s] = "none"
  /\ BelowCap
  /\ accept_pc' = "push" /\ accept_fd' = s
  /\ UNCHANGED <<connVars, threadVars, subVars, ackVars, seqVars, dbVars,
                 lock, pc, out, failures, crashes>>

PushSession ==
  /\ accept_pc = "push" /\ Locked
  /\ sessions' = sessions \cup {accept_fd}
  /\ accept_pc' = "count"
  /\ UNCHANGED <<accept_fd, active_connections, threadVars, subVars, ackVars,
                 seqVars, dbVars, pc, out, failures, crashes>>

CountConnection ==
  /\ accept_pc = "count"
  /\ active_connections' = (active_connections + 1) % SizeModulus
  /\ accept_pc' = "spawn"
  /\ UNCHANGED <<accept_fd, sessions, threadVars, subVars, ackVars, seqVars,
                 dbVars, lock, pc, out, failures, crashes>>

SpawnSession ==
  /\ accept_pc = "spawn"
  /\ accept_pc' = "loop" /\ accept_fd' = None
  /\ Goto(accept_fd, "idle")
  /\ UNCHANGED <<threadVars, connVars, subVars, ackVars, seqVars, dbVars, lock,
                 out, failures, crashes>>

----------------------------------------------------------------------------
(* SUBSCRIBE.  With a client id: registerClient, subscribe, the replay of  *)
(* everything, the replay for the client.  Without one: the first replay   *)
(* only.                                                                   *)
ReceiveSubscribe(s, t) ==
  /\ Len(out[s]) <= MaxSent
  /\ pc[s] = "idle" /\ Goto(s, "subscribe")
  /\ cmd' = [cmd EXCEPT ![s] = [NoCmd EXCEPT !.topic = t]]
  /\ UNCHANGED <<client_id, sequence, loading, pending, acceptVars, connVars,
                 subVars, ackVars, seqVars, dbVars, lock, out, failures, crashes>>

ReceiveSubscribeWithId(s, c, t) ==
  /\ s \notin RespSessions /\ Len(out[s]) <= MaxSent
  /\ pc[s] = "idle" /\ Goto(s, "register")
  /\ client_id' = [client_id EXCEPT ![s] = c]
  /\ cmd' = [cmd EXCEPT ![s] = [NoCmd EXCEPT !.topic = t, !.smart = TRUE]]
  /\ UNCHANGED <<sequence, loading, pending, acceptVars, connVars,
                 subVars, ackVars, seqVars, dbVars, lock, out, failures, crashes>>

(* Broker::registerClient takes the mutex, reads the persisted acks, then  *)
(* inserts them one by one in the hash set's order, which may be any.      *)
RegisterClient(s) ==
  /\ pc[s] = "register" /\ Acquire(s) /\ Goto(s, "loading")
  /\ client_sessions' = [client_sessions EXCEPT ![client_id[s]] = s]
  /\ \/ Commits /\ loading' = [loading EXCEPT ![s] = load_acks(db_acks, client_id[s])]
     \/ Fails /\ UNCHANGED loading
  /\ UNCHANGED <<client_acks, last_ack_seq, acked, client_id, sequence, cmd,
                 pending, acceptVars, connVars, subVars, seqVars, dbVars, out, crashes>>

InsertLoadedAck(s) ==
  /\ pc[s] = "loading"
  /\ \E q \in loading[s] :
       /\ client_acks' = [client_acks EXCEPT ![client_id[s]] = insert(@, q)]
       /\ loading' = [loading EXCEPT ![s] = @ \ {q}]
  /\ UNCHANGED <<client_sessions, last_ack_seq, acked, client_id, sequence, cmd,
                 pending, acceptVars, connVars, subVars, seqVars, dbVars, lock,
                 pc, out, failures, crashes>>

FinishRegister(s) ==
  /\ pc[s] = "loading" /\ loading[s] = {} /\ Release /\ Goto(s, "subscribe")
  /\ last_ack_seq' = IF empty(client_acks[client_id[s]])
                       THEN last_ack_seq
                       ELSE [last_ack_seq EXCEPT ![client_id[s]] =
                               client_acks[client_id[s]].max_seq]
  /\ UNCHANGED <<client_sessions, client_acks, acked, threadVars, acceptVars,
                 connVars, subVars, seqVars, dbVars, out, failures, crashes>>

(* Broker::subscribe, the locked part. *)
Subscribe(s) ==
  LET t == cmd[s].topic IN
  /\ pc[s] = "subscribe" /\ Locked /\ Goto(s, "replay")
  /\ topic_subscribers' = [topic_subscribers EXCEPT ![t] = @ \cup {s}]
  /\ since' = IF s \in topic_subscribers[t] THEN since
              ELSE [since EXCEPT ![s][t] = Len(log)]
  /\ UNCHANGED <<threadVars, acceptVars, connVars, ackVars, seqVars, dbVars,
                 out, failures, crashes>>

(* What the replay loops can select from the rows of load_range. *)
ForTopic(rows, t) == InKeyOrder({row \in rows : row.topic = t})

(* Broker::replayMessages(session, topic, 0), without the mutex. *)
ReplayLoad(s) ==
  /\ pc[s] = "replay" /\ Goto(s, "replaying")
  /\ \/ /\ Commits
        /\ \E rows \in ForTopic(load_range(db_msgs, 0, MAX_STORED_MESSAGES), cmd[s].topic) :
             pending' = [pending EXCEPT ![s] = rows]
     \/ Fails /\ UNCHANGED pending
  /\ UNCHANGED <<client_id, sequence, cmd, loading, acceptVars, connVars, subVars,
                 ackVars, seqVars, dbVars, lock, out, crashes>>

ReplaySend(s) ==
  /\ pc[s] = "replaying" /\ pending[s] # <<>>
  /\ out' = [out EXCEPT ![s] = Append(@, Head(pending[s]).payload)]
  /\ pending' = [pending EXCEPT ![s] = Tail(@)]
  /\ UNCHANGED <<client_id, sequence, cmd, loading, acceptVars, connVars, subVars,
                 ackVars, seqVars, dbVars, lock, pc, failures, crashes>>

ReplayDone(s) ==
  /\ pc[s] = "replaying" /\ pending[s] = <<>>
  /\ Goto(s, IF cmd[s].smart THEN "last_ack" ELSE "idle")
  /\ cmd' = IF cmd[s].smart THEN cmd ELSE [cmd EXCEPT ![s] = NoCmd]
  /\ UNCHANGED <<client_id, sequence, loading, pending, acceptVars, connVars,
                 subVars, ackVars, seqVars, dbVars, lock, out, failures, crashes>>

(* Broker::replayMessagesForClient: the last ack is read under the mutex,  *)
(* the database without it.  Each row is looked up in the ack set under    *)
(* the mutex, which isAcked() gives back, and then sent without it: an ack *)
(* on another connection can come between the two.                         *)
GetLastAck(s) ==
  /\ pc[s] = "last_ack" /\ Locked /\ Goto(s, "client_replay")
  /\ cmd' = [cmd EXCEPT ![s].from = last_ack_seq[client_id[s]]]
  /\ UNCHANGED <<client_id, sequence, loading, pending, acceptVars, connVars,
                 subVars, ackVars, seqVars, dbVars, out, failures, crashes>>

ClientReplayLoad(s) ==
  LET from == cmd[s].from IN
  /\ pc[s] = "client_replay" /\ Goto(s, "client_replaying")
  /\ \/ /\ Commits
        /\ \E rows \in ForTopic(load_range(db_msgs, from + 1, from + MAX_STORED_MESSAGES),
                               cmd[s].topic) :
             pending' = [pending EXCEPT ![s] = rows]
     \/ Fails /\ UNCHANGED pending
  /\ UNCHANGED <<client_id, sequence, cmd, loading, acceptVars, connVars, subVars,
                 ackVars, seqVars, dbVars, lock, out, crashes>>

Unacked_unchecked(c, seq) == TRUE

Unacked(c, seq) == ~contains(client_acks[c], seq)

ClientReplayCheck(s) ==
  /\ pc[s] = "client_replaying" /\ pending[s] # <<>> /\ Locked
  /\ IF Unacked(client_id[s], Head(pending[s]).seq)
       THEN Goto(s, "client_sending") /\ UNCHANGED pending
       ELSE pending' = [pending EXCEPT ![s] = Tail(@)] /\ UNCHANGED pc
  /\ UNCHANGED <<client_id, sequence, cmd, loading, acceptVars, connVars, subVars,
                 ackVars, seqVars, dbVars, out, failures, crashes>>

ClientReplaySend(s) ==
  /\ pc[s] = "client_sending" /\ pending[s] # <<>> /\ Goto(s, "client_replaying")
  /\ out' = [out EXCEPT ![s] = Append(@, Head(pending[s]).payload)]
  /\ pending' = [pending EXCEPT ![s] = Tail(@)]
  /\ UNCHANGED <<client_id, sequence, cmd, loading, acceptVars, connVars, subVars,
                 ackVars, seqVars, dbVars, lock, failures, crashes>>

ClientReplayDone(s) ==
  /\ pc[s] = "client_replaying" /\ pending[s] = <<>> /\ Goto(s, "idle")
  /\ cmd' = [cmd EXCEPT ![s] = NoCmd]
  /\ UNCHANGED <<client_id, sequence, loading, pending, acceptVars, connVars,
                 subVars, ackVars, seqVars, dbVars, lock, out, failures, crashes>>

(* UNSUBSCRIBE. *)
Unsubscribe(s, t) ==
  /\ pc[s] = "idle" /\ Locked
  /\ topic_subscribers' = [topic_subscribers EXCEPT ![t] = @ \ {s}]
  /\ since' = [since EXCEPT ![s][t] = 0]
  /\ UNCHANGED <<threadVars, acceptVars, connVars, ackVars, seqVars, dbVars,
                 pc, out, failures, crashes>>

----------------------------------------------------------------------------
(* PUBLISH on an ordinary topic, or a SIGNED_PUBLISH that was accepted.    *)

CompactionDue_late(n, seq) == n % (COMPACT_EVERY + 1) = 0 /\ seq > MAX_STORED_MESSAGES

(* The compaction that is due after the n-th publish of this process. *)
CompactionDue(n, seq) == n % COMPACT_EVERY = 0 /\ seq > MAX_STORED_MESSAGES

(* The first steps of Broker::publish: the next sequence number and the    *)
(* save, whose failure is not noticed.  The binary handler has numbered    *)
(* the frame with the session's own counter.                               *)
Publish(s, t) ==
  LET seq == current_sequence + 1
      i   == Len(log) + 1
      fs  == IF s \in RespSessions THEN 0 ELSE sequence[s] + 1
      entry(key) == [topic |-> t, seq |-> seq, frame_seq |-> fs, key |-> key,
                     frame |-> MessageFrame(s, i),
                     twice |-> Subscribers(t) \cap Subscribers(Wildcard)]
  IN
  /\ Len(log) < MaxPublishes
  /\ pc[s] = "idle" /\ Acquire(s)
  /\ current_sequence' = seq
  /\ publish_count' = publish_count + 1
  /\ sequence' = [sequence EXCEPT ![s] = IF s \in RespSessions THEN @ ELSE fs]
  /\ cmd' = [cmd EXCEPT ![s] = [NoCmd EXCEPT !.topic = t, !.entry = i]]
  /\ \/ /\ Commits
        /\ db_msgs' = save(db_msgs, db_last, t, MessageFrame(s, i))
        /\ db_last' = db_last + 1
        /\ log' = Append(log, entry(db_last + 1))
     \/ Fails /\ UNCHANGED <<db_msgs, db_last>> /\ log' = Append(log, entry(0))
  /\ Goto(s, IF CompactionDue(publish_count + 1, seq) THEN "compact" ELSE "fanout")
  /\ UNCHANGED <<db_acks, client_id, loading, pending, acceptVars, connVars,
                 subVars, ackVars, out, crashes>>

(* Broker::runCompactionIfDue: two transactions. *)
CompactMessages(s) ==
  /\ pc[s] = "compact" /\ Goto(s, "purge")
  /\ \/ Commits /\ db_msgs' = compact(db_msgs, current_sequence - MAX_STORED_MESSAGES)
     \/ Fails /\ UNCHANGED db_msgs
  /\ UNCHANGED <<db_last, db_acks, threadVars, acceptVars, connVars, subVars,
                 ackVars, seqVars, lock, out, crashes>>

PurgeAcks(s) ==
  /\ pc[s] = "purge" /\ Goto(s, "fanout")
  /\ \/ Commits /\ db_acks' = purge_old_acks(db_acks, current_sequence - MAX_STORED_MESSAGES)
     \/ Fails /\ UNCHANGED db_acks
  /\ UNCHANGED <<db_msgs, db_last, threadVars, acceptVars, connVars, subVars,
                 ackVars, seqVars, lock, out, crashes>>

(* One pass over the subscribers of the topic, then one over those of "#". *)
Delivered_topic_only(o, t, frame) ==
  [r \in Sessions |-> IF r \in Subscribers(t) THEN Append(o[r], frame) ELSE o[r]]

Delivered_matching(o, t, frame) ==
  LET first == [r \in Sessions |-> IF r \in Subscribers(t) THEN Append(o[r], frame) ELSE o[r]]
  IN  [r \in Sessions |-> IF r \in Subscribers(t) \cup Subscribers(Wildcard)
                            THEN Append(first[r], frame) ELSE first[r]]

Delivered(o, t, frame) ==
  LET first == [r \in Sessions |-> IF r \in Subscribers(t) THEN Append(o[r], frame) ELSE o[r]]
  IN  [r \in Sessions |-> IF r \in Subscribers(Wildcard) THEN Append(first[r], frame)
                                                         ELSE first[r]]

FanOut(s) ==
  LET message == log[cmd[s].entry] IN
  /\ pc[s] = "fanout" /\ Release /\ Goto(s, "idle")
  /\ out' = Delivered(out, message.topic, message.frame)
  /\ cmd' = [cmd EXCEPT ![s] = NoCmd]
  /\ UNCHANGED <<client_id, sequence, loading, pending, acceptVars, connVars, subVars,
                 ackVars, seqVars, dbVars, failures, crashes>>

----------------------------------------------------------------------------
(* ACK from a session with a client id; from any other it is ignored. *)
HandleAck(s, q) ==
  LET c == client_id[s] IN
  /\ s \notin RespSessions /\ c # NoId
  /\ pc[s] = "idle" /\ Locked
  /\ client_acks' = [client_acks EXCEPT ![c] = insert(@, q)]
  /\ last_ack_seq' = [last_ack_seq EXCEPT ![c] = Higher(q, @)]
  /\ \/ Commits /\ db_acks' = db_acks \cup {AckKey(c, q)}
     \/ Fails /\ UNCHANGED db_acks
  /\ acked' = [acked EXCEPT ![c] = @ \cup {q}]
  /\ UNCHANGED <<client_sessions, db_msgs, db_last, threadVars, acceptVars,
                 connVars, subVars, seqVars, pc, out, crashes>>

(* The end of Session::run: end of stream, error, idle timeout, buffer cap *)
(* or an exception.  unregisterClient erases the entry of the id, whichever *)
(* session registered it last.                                             *)
Disconnect(s) ==
  /\ pc[s] = "idle"
  /\ Goto(s, IF client_id[s] # NoId THEN "unregister" ELSE "remove")
  /\ UNCHANGED <<threadVars, acceptVars, connVars, subVars, ackVars, seqVars,
                 dbVars, lock, out, failures, crashes>>

UnregisterClient(s) ==
  /\ pc[s] = "unregister" /\ Locked /\ Goto(s, "remove")
  /\ client_sessions' = [client_sessions EXCEPT ![client_id[s]] = None]
  /\ UNCHANGED <<client_acks, last_ack_seq, acked, threadVars, acceptVars, connVars,
                 subVars, seqVars, dbVars, out, failures, crashes>>

ErasedEverywhere_forgotten(s) == topic_subscribers

ErasedEverywhere(s) == [t \in Topics |-> topic_subscribers[t] \ {s}]

(* Broker::removeSession; the thread then ends, the Session object and its *)
(* socket go with it, and the address may be used again.                   *)
RemoveSession(s) ==
  /\ pc[s] = "remove" /\ Locked /\ Goto(s, "none")
  /\ topic_subscribers' = ErasedEverywhere(s)
  /\ sessions' = sessions \ {s}
  /\ active_connections' = (active_connections - 1) % SizeModulus
  /\ client_id' = [client_id EXCEPT ![s] = NoId]
  /\ sequence' = [sequence EXCEPT ![s] = 0]
  /\ out' = [out EXCEPT ![s] = <<>>]
  /\ since' = [since EXCEPT ![s] = [t \in Topics |-> 0]]
  /\ UNCHANGED <<cmd, loading, pending, acceptVars, ackVars, seqVars, dbVars,
                 failures, crashes>>

----------------------------------------------------------------------------
SubscribeSteps(s) ==
  \/ \E t \in Topics : ReceiveSubscribe(s, t)
  \/ \E t \in Topics, c \in ClientIds : ReceiveSubscribeWithId(s, c, t)
  \/ RegisterClient(s) \/ InsertLoadedAck(s) \/ FinishRegister(s)
  \/ Subscribe(s)
  \/ ReplayLoad(s) \/ ReplaySend(s) \/ ReplayDone(s)
  \/ GetLastAck(s) \/ ClientReplayLoad(s) \/ ClientReplayCheck(s) \/ ClientReplaySend(s)
  \/ ClientReplayDone(s)
  \/ \E t \in Topics : Unsubscribe(s, t)

PublishSteps(s) ==
  \/ \E t \in Topics : Publish(s, t)
  \/ CompactMessages(s) \/ PurgeAcks(s) \/ FanOut(s)

SessionSteps(s) ==
  \/ SubscribeSteps(s)
  \/ PublishSteps(s)
  \/ \E q \in AckSeqs : HandleAck(s, q)
  \/ Disconnect(s) \/ UnregisterClient(s) \/ RemoveSession(s)

AcceptSteps ==
  \/ \E s \in Sessions : AcceptConnection(s)
  \/ PushSession \/ CountConnection \/ SpawnSession

Next == Crash \/ AcceptSteps \/ \E s \in Sessions : SessionSteps(s)

Spec == Init /\ [][Next]_vars
============================================================================
