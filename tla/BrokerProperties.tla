-------------------------- MODULE BrokerProperties --------------------------
(* What the broker of module Broker guarantees, and what its documentation *)
(* says it does.                                                           *)
EXTENDS Broker

Labels == {"none", "idle", "register", "loading", "subscribe", "replay", "replaying",
           "last_ack", "client_replay", "client_replaying", "client_sending", "compact", "purge",
           "fanout", "unregister", "remove"}

SubscribeLabels == {"register", "loading", "subscribe", "replay", "replaying", "last_ack",
                    "client_replay", "client_replaying", "client_sending"}

ClientLabels == {"register", "loading", "last_ack", "client_replay", "client_replaying",
                 "client_sending", "unregister"}

PublishLabels == {"compact", "purge", "fanout"}

Running == {s \in Sessions : pc[s] # "none"}

Rows == [seq : Nat, topic : Seq(Byte), payload : Seq(Byte)]

LogEntries == [topic : Topics, seq : Nat, frame_seq : Nat, key : Nat, frame : Seq(Byte),
               twice : SUBSET Sessions]

TypeControl ==
  /\ accept_pc \in {"loop", "push", "count", "spawn"}
  /\ accept_fd \in Sessions \cup {None}
  /\ accept_pc # "loop" => accept_fd \in Sessions
  /\ lock \in Sessions \cup {None}
  /\ sessions \subseteq Sessions
  /\ active_connections \in 0 .. SizeModulus - 1
  /\ topic_subscribers \in [Topics -> SUBSET Sessions]
  /\ pc \in [Sessions -> Labels]
  /\ failures \in 0 .. MaxFailures
  /\ crashes \in 0 .. MaxCrashes

(* A thread at a label of a subscription has its topic, and its client id  *)
(* where it uses one; a publishing thread has its message.                 *)
TypeThreads ==
  /\ client_id \in [Sessions -> ClientIds \cup {NoId}]
  /\ sequence \in [Sessions -> Nat]
  /\ cmd \in [Sessions -> [topic : Topics \cup {<<>>}, smart : BOOLEAN, from : Nat, entry : Nat]]
  /\ loading \in [Sessions -> SUBSET Nat]
  /\ pending \in [Sessions -> Seq(Rows)]
  /\ out \in [Sessions -> Seq(Seq(Byte))]
  /\ \A s \in Sessions :
       /\ pc[s] \in SubscribeLabels => cmd[s].topic \in Topics
       /\ (pc[s] \in SubscribeLabels /\ cmd[s].smart) \/ pc[s] \in ClientLabels
            => client_id[s] \in ClientIds
       /\ pc[s] \in PublishLabels => cmd[s].entry \in DOMAIN log

TypeAcks ==
  /\ client_sessions \in [ClientIds -> Sessions \cup {None}]
  /\ client_acks \in [ClientIds -> AckSets]
  /\ last_ack_seq \in [ClientIds -> Nat]
  /\ acked \in [ClientIds -> SUBSET AckSeqs]
  /\ db_acks \subseteq {AckKey(c, q) : c \in ClientIds, q \in AckSeqs}

TypeStore ==
  /\ current_sequence \in Nat /\ publish_count \in Nat /\ db_last \in Nat
  /\ DOMAIN db_msgs \subseteq Nat /\ IsFiniteSet(DOMAIN db_msgs)
  /\ \A k \in DOMAIN db_msgs : db_msgs[k] \in Seq(Byte)
  /\ log \in Seq(LogEntries)
  /\ since \in [Sessions -> [Topics -> Nat]]

(* Every variable has its type (maps that the code keeps sparse are total), *)
(* and no handler uses a local that it has not set.                        *)
TypeOK == TypeControl /\ TypeThreads /\ TypeAcks /\ TypeStore

----------------------------------------------------------------------------
(* Connections.                                                            *)

(* publish() dereferences the raw Session pointers of topic_subscribers_:  *)
(* none of them belongs to a connection whose thread has ended.            *)
NoDanglingSubscriber == \A t \in Topics : topic_subscribers[t] \subseteq Running

(* sessions_ holds the running sessions and the one being started, the     *)
(* atomic counter agrees with it except between push_back and ++, it never *)
(* wraps below zero, and the cap checked before push_back still holds      *)
(* after it, whatever the sessions that end meanwhile do to the counter.   *)
ConnectionsAccounted ==
  /\ sessions = Running \cup (IF accept_pc \in {"count", "spawn"} THEN {accept_fd} ELSE {})
  /\ active_connections = Cardinality(sessions) - (IF accept_pc = "count" THEN 1 ELSE 0)
  /\ Cardinality(sessions) + (IF accept_pc = "push" THEN 1 ELSE 0) <= MAX_CONNECTIONS

----------------------------------------------------------------------------
(* Live delivery.                                                          *)

Publishing == lock # None /\ pc[lock] \in PublishLabels

(* The messages whose fan-out is over. *)
FannedOut == 1 .. (IF Publishing THEN Len(log) - 1 ELSE Len(log))

(* A session that is subscribed to a topic, or to "#", has been sent every *)
(* message published on it since the subscription, whatever subscriptions, *)
(* disconnections, compactions and replays came in between.                *)
NoLiveMessageLost ==
  \A s \in Sessions, t \in Topics : s \in topic_subscribers[t] =>
    \A i \in FannedOut : (i > since[s][t] /\ (log[i].topic = t \/ t = Wildcard))
                            => log[i].frame \in Range(out[s])

(* The position in the log of a complete frame; 0 for anything else. *)
IndexOf(bytes) == IF \E i \in DOMAIN log : log[i].frame = bytes THEN bytes[Len(bytes)] ELSE 0

(* The frames on one connection follow the order of their sequence         *)
(* numbers, and each comes once; a session that was subscribed both to the *)
(* topic and to "#" when the message was published gets it twice, never    *)
(* more often.                                                             *)
LiveOrder ==
  \A s \in Sessions : \A j, k \in DOMAIN out[s] :
    LET m == IndexOf(out[s][j])
        n == IndexOf(out[s][k])
    IN  (j < k /\ m # 0 /\ n # 0)
          => m < n \/ (m = n /\ k = j + 1 /\ s \in log[m].twice)

----------------------------------------------------------------------------
(* Acknowledgements.                                                       *)

Loading(c) == lock # None /\ pc[lock] = "loading" /\ client_id[lock] = c

(* The cached last ack of a client is the maximum of its ack set, through  *)
(* acks out of order, repeated acks, evictions and reloads in any order;   *)
(* only registerClient, with the mutex held, may be between the two.       *)
AckCacheCoherent ==
  \A c \in ClientIds :
    /\ WellFormed(client_acks[c])
    /\ last_ack_seq[c] <= client_acks[c].max_seq
    /\ ~Loading(c) => last_ack_seq[c] = client_acks[c].max_seq

(* The ack state of a client, reloaded from the keys that begin with its   *)
(* id, holds what that client acknowledged.  The acks of another client    *)
(* add to it in one case only: when that client's id is this one, a colon, *)
(* a number and perhaps more; then it is the number in the id that is      *)
(* taken for an ack, never one that the other client acknowledged.         *)
AckIsolation ==
  \A c \in ClientIds : \A q \in client_acks[c].lookup :
    \/ q \in acked[c]
    \/ \E d \in ClientIds : Continues(d, c) /\ d[Len(c) + 1] = q /\ acked[d] # {}

(* A registered client's last ack covers every ack of it that is on disk,  *)
(* also the ones from before a restart (unless a transaction failed).      *)
AcksSurviveRestart ==
  failures = 0 =>
    \A c \in ClientIds : (client_sessions[c] # None /\ ~Loading(c)) =>
      \A q \in AckSeqs : AckKey(c, q) \in db_acks => q <= last_ack_seq[c]

(* While the process lives, the position from which a client's replay      *)
(* starts never moves back, not even when its ack is evicted or purged.    *)
LastAckNeverFalls ==
  [][crashes' = crashes => \A c \in ClientIds : last_ack_seq'[c] >= last_ack_seq[c]]_vars

----------------------------------------------------------------------------
(* The store.                                                              *)

(* The stored numbers are an interval that ends at last_seq: neither a     *)
(* failed transaction nor a compaction leaves a gap.                       *)
StoreContiguous == \E low \in 0 .. db_last : DOMAIN db_msgs = low + 1 .. db_last

(* Under a number lies the message that was saved under it, and numbers    *)
(* are given out once, in publish order, across crashes and compactions.   *)
StoreMatchesLog ==
  /\ \A k \in DOMAIN db_msgs : \E i \in DOMAIN log :
       log[i].key = k /\ db_msgs[k] = MessageValue(log[i].topic, log[i].frame)
  /\ \A i, j \in DOMAIN log :
       (i < j /\ log[i].key # 0 /\ log[j].key # 0) => log[i].key < log[j].key

(* Compaction spares the last MAX_STORED_MESSAGES messages, less one for   *)
(* every transaction that failed: a failed save moves the threshold, which *)
(* comes from the counter in memory, past the numbers of the database.     *)
RetainsLastMessages ==
  \A k \in 1 .. db_last :
    k > db_last + failures - MAX_STORED_MESSAGES => k \in DOMAIN db_msgs

(* When transactions succeed, the store holds no more than                 *)
(* MAX_STORED_MESSAGES and the publishes of one compaction interval, plus  *)
(* one interval for every restart, because the publishes counted towards   *)
(* the next compaction are forgotten.                                      *)
StoreBounded ==
  (failures = 0 /\ ~Publishing) =>
    Cardinality(DOMAIN db_msgs) < MAX_STORED_MESSAGES + COMPACT_EVERY * (1 + crashes)

----------------------------------------------------------------------------
(* Replay.                                                                 *)

(* replayMessagesForClient decides to send a message only when the client  *)
(* has not acknowledged it: neither on another connection since the replay *)
(* began, nor before a restart, where only the acks on disk are left and   *)
(* compaction has deleted some of them.  An ack that comes between this    *)
(* decision and the send is too late.  The property needs the transactions *)
(* to succeed and at most MAX acks per client, beyond which old acks are   *)
(* forgotten.                                                              *)
ClientReplaySkipsAcked ==
  [][\A s \in Sessions :
       LET mine == acked[client_id[s]] IN
       (/\ pc[s] = "client_replaying" /\ pc'[s] = "client_sending"
        /\ failures = 0 /\ Cardinality(mine) <= MAX)
         => Head(pending[s]).seq \notin mine]_vars

----------------------------------------------------------------------------
(* What the repository's documentation and comments say, and the code does *)
(* not do.  A run refutes the first; README.md says how TLC refutes the    *)
(* others.                                                                 *)

(* PERSISTENCE.md: new subscribers receive all historical messages.  When  *)
(* the replay of subscribe() ends, every stored message of the topic that  *)
(* was published before the subscription has been sent.                    *)
HistoryReplayed ==
  \A s \in Sessions : (pc[s] = "replaying" /\ pending[s] = <<>> /\ failures = 0) =>
    \A i \in 1 .. since[s][cmd[s].topic] :
      (log[i].topic = cmd[s].topic /\ log[i].key \in DOMAIN db_msgs)
        => log[i].frame \in Range(out[s])

(* The comment in replayMessages: the replay window matches the compaction *)
(* window, so that deleted records are never requested.                    *)
ReplayWindowIsStored ==
  \A s \in Sessions : pc[s] = "replay" =>
    \A k \in 1 .. MAX_STORED_MESSAGES : k <= db_last => k \in DOMAIN db_msgs

(* A step in which the replay loop of session s sends the row it is at. *)
SendsRow(s) == pending'[s] = Tail(pending[s]) /\ Len(out'[s]) > Len(out[s])

(* EXACTLY_ONCE_SPEC.md, Smart Replay: a client with an id is replayed     *)
(* only what it has not acknowledged.  Its subscription also runs the      *)
(* replay of everything, and an ack can come between check and send.       *)
SmartReplayOnlyUnacked ==
  [][\A s \in Sessions :
       (cmd[s].smart /\ pending[s] # <<>> /\ SendsRow(s))
         => Head(pending[s]).seq \notin acked[client_id[s]]]_vars

(* LmdbStorage.hpp: load_range returns rows in ascending seq order. *)
RowsAscending ==
  \A s \in Sessions : \A j, k \in DOMAIN pending[s] :
    j < k => pending[s][j].seq < pending[s][k].seq

(* README.md: the broker assigns monotonically increasing sequence ids. *)
SequencesIncrease == \A i, j \in DOMAIN log : i < j => log[i].seq < log[j].seq

(* binary_pubsub.hpp: the sequence a subscriber finds in a frame, and      *)
(* acknowledges, is the one the broker assigned.                           *)
FrameCarriesSequence == \A i \in DOMAIN log : log[i].frame_seq \in {0, log[i].seq}
============================================================================
