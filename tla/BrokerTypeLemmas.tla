-------------------------- MODULE BrokerTypeLemmas --------------------------
(***************************************************************************)
(* Type correctness of the broker, for every set of sessions, topics and   *)
(* clients and every number of publishes, failures and crashes.            *)
(***************************************************************************)
EXTENDS BrokerProperties, BoundedAckSetProofs, FiniteSetTheorems, SequenceTheorems

----------------------------------------------------------------------------
(* The storage operators.                                                  *)

(* A split record is a typed row. *)
LEMMA RowsOfType ==
  ASSUME NEW seq \in Nat, NEW data \in Seq(Byte)
  PROVE  RowsOf(seq, data) \subseteq Rows
<1> SUFFICES ASSUME NEW row \in RowsOf(seq, data)
             PROVE  row \in Rows
  OBVIOUS
<1>0. PICK i \in DOMAIN data :
        row = [seq |-> seq, topic |-> SubSeq(data, 1, i - 1),
               payload |-> SubSeq(data, i + 1, Len(data))]
  BY DEF RowsOf
<1>1. i \in 1 .. Len(data) /\ Len(data) \in Nat /\ \A n \in 1 .. Len(data) : data[n] \in Byte
  BY LenProperties, ElementOfSeq
<1>2. \A n \in 1 .. i - 1 : data[n] \in Byte
  BY <1>1
<1>3. \A n \in i + 1 .. Len(data) : data[n] \in Byte
  BY <1>1
<1>4. SubSeq(data, 1, i - 1) \in Seq(Byte)
  BY <1>1, <1>2, SubSeqProperties
<1>5. SubSeq(data, i + 1, Len(data)) \in Seq(Byte)
  BY <1>1, <1>3, SubSeqProperties
<1> QED BY <1>0, <1>4, <1>5 DEF Rows

(* A record has at most one first zero byte, so it gives at most one row,  *)
(* and the row carries the record's number.                                *)
LEMMA RowsOfUnique ==
  ASSUME NEW seq, NEW data \in Seq(Byte), NEW r1 \in RowsOf(seq, data), NEW r2 \in RowsOf(seq, data)
  PROVE  r1 = r2 /\ r1.seq = seq
<1> DEFINE Firsts == {n \in DOMAIN data : data[n] = Nul /\ \A m \in 1 .. n - 1 : data[m] # Nul}
           Row(i) == [seq |-> seq, topic |-> SubSeq(data, 1, i - 1),
                      payload |-> SubSeq(data, i + 1, Len(data))]
<1>1. PICK i \in Firsts : r1 = Row(i)
  BY ZenonT(30) DEF RowsOf
<1>2. PICK j \in Firsts : r2 = Row(j)
  BY ZenonT(30) DEF RowsOf
<1>3. i \in Nat \ {0} /\ j \in Nat \ {0}
  BY <1>1, <1>2, LenProperties
<1>4. ~(i < j) /\ ~(j < i)
  <2>1. data[i] = Nul /\ \A m \in 1 .. i - 1 : data[m] # Nul
    BY <1>1
  <2>2. data[j] = Nul /\ \A m \in 1 .. j - 1 : data[m] # Nul
    BY <1>2
  <2> QED BY <2>1, <2>2, <1>3
<1>5. i = j
  BY <1>3, <1>4
<1>6. Row(i).seq = seq
  OBVIOUS
<1> HIDE DEF Row
<1> QED BY <1>1, <1>2, <1>5, <1>6

(* load_range returns finitely many typed rows. *)
LEMMA LoadRangeType ==
  ASSUME NEW msgs, DOMAIN msgs \subseteq Nat, IsFiniteSet(DOMAIN msgs),
         \A k \in DOMAIN msgs : msgs[k] \in Seq(Byte), NEW from, NEW to
  PROVE  load_range(msgs, from, to) \subseteq Rows /\ IsFiniteSet(load_range(msgs, from, to))
<1> DEFINE rows == load_range(msgs, from, to)
           f == [r \in rows |-> r.seq]
<1>1. \A r \in rows : \E k \in DOMAIN msgs : r \in RowsOf(k, msgs[k])
  BY DEF load_range
<1>2. rows \subseteq Rows
  BY <1>1, RowsOfType
<1>3. ASSUME NEW r \in rows  PROVE r.seq \in DOMAIN msgs /\ r \in RowsOf(r.seq, msgs[r.seq])
  <2>1. PICK k \in DOMAIN msgs : r \in RowsOf(k, msgs[k])
    BY <1>1
  <2>2. r.seq = k
    BY <2>1, RowsOfUnique
  <2> QED BY <2>1, <2>2
<1>4. ASSUME NEW r1 \in rows, NEW r2 \in rows, r1.seq = r2.seq  PROVE r1 = r2
  BY <1>3, <1>4, RowsOfUnique
<1> HIDE DEF rows
<1>5. f \in Injection(rows, DOMAIN msgs)
  BY <1>3, <1>4 DEF Injection, IsInjective
<1>6. IsFiniteSet(rows)
  BY <1>5, FS_Injection
<1> QED BY <1>2, <1>6 DEF rows

(* The vector of a finite set of rows is a sequence of rows. *)
LEMMA ForTopicType ==
  ASSUME NEW rows, rows \subseteq Rows, IsFiniteSet(rows), NEW t
  PROVE  ForTopic(rows, t) \subseteq Seq(Rows)
<1> DEFINE sel == {row \in rows : row.topic = t}
<1>1. IsFiniteSet(sel) /\ sel \subseteq Rows
  BY FS_Subset
<1>2. Cardinality(sel) \in Nat
  BY <1>1, FS_CardinalityType
<1> HIDE DEF sel
<1>3. [1 .. Cardinality(sel) -> sel] \subseteq Seq(Rows)
  BY <1>1, <1>2
<1> QED BY <1>3 DEF ForTopic, InKeyOrder, sel

(* save and compact keep the store a finite map from numbers to values. *)
LEMMA SaveType ==
  ASSUME NEW msgs, DOMAIN msgs \subseteq Nat, IsFiniteSet(DOMAIN msgs),
         \A k \in DOMAIN msgs : msgs[k] \in Seq(Byte),
         NEW last \in Nat, NEW topic \in Seq(Byte), NEW payload \in Seq(Byte),
         NEW new, new = save(msgs, last, topic, payload)
  PROVE  /\ DOMAIN new \subseteq Nat /\ IsFiniteSet(DOMAIN new)
         /\ \A k \in DOMAIN new : new[k] \in Seq(Byte)
<1>1. MessageValue(topic, payload) \in Seq(Byte)
  BY ConcatProperties DEF MessageValue
<1>2. IsFiniteSet(DOMAIN msgs \cup {last + 1})
  BY FS_AddElement
<1> QED BY <1>1, <1>2 DEF save

(* Compaction of a store of byte strings leaves such a store. *)
LEMMA CompactType ==
  ASSUME NEW msgs, DOMAIN msgs \subseteq Nat, IsFiniteSet(DOMAIN msgs),
         \A k \in DOMAIN msgs : msgs[k] \in Seq(Byte), NEW n,
         NEW new, new = compact(msgs, n)
  PROVE  /\ DOMAIN new \subseteq Nat /\ IsFiniteSet(DOMAIN new)
         /\ \A k \in DOMAIN new : new[k] \in Seq(Byte)
<1>1. IsFiniteSet({k \in DOMAIN msgs : k > n})
  BY FS_Subset
<1> QED BY <1>1 DEF compact, RestrictDomain, Restrict

(* The bytes of a frame. *)
LEMMA MessageFrameType ==
  ASSUME NEW s, NEW i \in Nat
  PROVE  MessageFrame(s, i) \in Seq(Byte)
<1>1. Text \in Byte /\ Header \in Byte /\ Nul \in Byte /\ i \in Byte
  BY DEF Byte
<1>2. <<Text, i>> \in Seq(Byte) /\ <<Header, Nul, i>> \in Seq(Byte)
  BY <1>1
<1> QED BY <1>2 DEF MessageFrame

(* The locals of publish(). *)
LEMMA PublishCmdType ==
  ASSUME NEW t \in Topics, NEW n \in Nat
  PROVE  LET new == [NoCmd EXCEPT !.topic = t, !.entry = n] IN
         /\ new \in [topic : Topics \cup {<<>>}, smart : BOOLEAN, from : Nat, entry : Nat]
         /\ new.entry = n
BY ZenonT(30) DEF NoCmd

(* publish() appends one entry to the log. *)
LEMMA PublishAppends ==
  ASSUME TypeControl, TypeThreads, TypeStore, NEW s \in Sessions, NEW t \in Topics, Publish(s, t)
  PROVE  \E e \in LogEntries : log' = Append(log, e)
<1> DEFINE entry(key) == [topic |-> t, seq |-> current_sequence + 1,
                          frame_seq |-> IF s \in RespSessions THEN 0 ELSE sequence[s] + 1,
                          key |-> key, frame |-> MessageFrame(s, Len(log) + 1),
                          twice |-> Subscribers(t) \cap Subscribers(Wildcard)]
<1>0. Subscribers(t) \subseteq Sessions
  BY DEF Subscribers, TypeControl
<1>1. MessageFrame(s, Len(log) + 1) \in Seq(Byte)
  BY MessageFrameType, LenProperties DEF TypeStore
<1>2. \A key \in Nat : entry(key) \in LogEntries
  BY <1>0, <1>1 DEF LogEntries, TypeThreads, TypeStore
<1>3. log' = Append(log, entry(db_last + 1)) \/ log' = Append(log, entry(0))
  BY DEF Publish
<1> HIDE DEF entry
<1> QED BY <1>2, <1>3 DEF TypeStore

(* Fan-out appends to the output of some sessions. *)
LEMMA DeliveredType ==
  ASSUME NEW o \in [Sessions -> Seq(Seq(Byte))], NEW t, NEW frame \in Seq(Byte)
  PROVE  Delivered(o, t, frame) \in [Sessions -> Seq(Seq(Byte))]
<1>1. \A r \in Sessions : Append(o[r], frame) \in Seq(Seq(Byte))
  BY AppendProperties
<1> DEFINE first == [r \in Sessions |-> IF r \in Subscribers(t) THEN Append(o[r], frame) ELSE o[r]]
<1>2. first \in [Sessions -> Seq(Seq(Byte))]
  BY <1>1
<1> HIDE DEF first
<1>3. \A r \in Sessions : Append(first[r], frame) \in Seq(Seq(Byte))
  BY <1>2, AppendProperties
<1> QED BY <1>2, <1>3 DEF Delivered, first

----------------------------------------------------------------------------
(* What a step leaves alone keeps its type.                                *)

LEMMA SameControl ==
  ASSUME TypeControl,
         UNCHANGED <<acceptVars, connVars, topic_subscribers, lock, pc, failures, crashes>>
  PROVE  TypeControl'
BY DEF TypeControl, acceptVars, connVars

(* A step of a session thread: it moves to another label, may take or give *)
(* back the mutex, and may have a transaction fail.                        *)
LEMMA ControlMoves ==
  ASSUME TypeControl, NEW s \in Sessions, NEW l \in Labels, Goto(s, l),
         Acquire(s) \/ Release \/ UNCHANGED lock, Commits \/ Fails,
         UNCHANGED <<acceptVars, connVars, topic_subscribers, crashes>>
  PROVE  TypeControl'
<1>1. pc' \in [Sessions -> Labels]
  BY DEF TypeControl, Goto
<1>2. lock' \in Sessions \cup {None}
  BY DEF TypeControl, Acquire, Release
<1>3. failures' \in 0 .. MaxFailures
  BY BrokerAssumption DEF TypeControl, Commits, Fails
<1> QED BY <1>1, <1>2, <1>3 DEF TypeControl, acceptVars, connVars

(* A step that leaves its variables alone keeps the part about the threads. *)
LEMMA SameThreads ==
  ASSUME TypeThreads, UNCHANGED <<threadVars, out, pc, log>>
  PROVE  TypeThreads'
BY DEF TypeThreads, threadVars

(* A step that leaves its variables alone keeps the part about acknowledgements. *)
LEMMA SameAcks ==
  ASSUME TypeAcks, UNCHANGED <<ackVars, db_acks>>
  PROVE  TypeAcks'
BY DEF TypeAcks, ackVars

(* A step that leaves its variables alone keeps the part about the store. *)
LEMMA SameStore ==
  ASSUME TypeStore, UNCHANGED <<seqVars, db_msgs, db_last, since>>
  PROVE  TypeStore'
BY DEF TypeStore, seqVars

----------------------------------------------------------------------------
(* The initial state has its types. *)
LEMMA TypeInit == Init => TypeOK
<1> SUFFICES ASSUME Init PROVE TypeOK
  OBVIOUS
<1>1. TypeControl
  BY BrokerAssumption DEF Init, TypeControl, Labels
<1>2. TypeThreads
  <2>1. \A S : <<>> \in Seq(S)
    BY EmptySeq
  <2> QED BY <2>1 DEF Init, TypeThreads, SubscribeLabels, ClientLabels, PublishLabels, NoCmd
<1>3. TypeAcks
  BY EmptyAckSetType DEF Init, TypeAcks
<1>4. TypeStore
  <2>1. DOMAIN db_msgs = {} /\ IsFiniteSet({})
    BY FS_EmptySet DEF Init
  <2> QED BY <2>1 DEF Init, TypeStore
<1> QED BY <1>1, <1>2, <1>3, <1>4 DEF TypeOK

(* Every action keeps the types: one lemma per action, one step for each of *)
(* the four parts of TypeOK.                                               *)
USE DEF acceptVars, connVars, threadVars, subVars, ackVars, seqVars, dbVars

(* A crash and restart preserve the types: everything in memory is new. *)
LEMMA CrashTyped ==
  ASSUME TypeOK, Crash
  PROVE  TypeOK'
<1>0. TypeControl /\ TypeThreads /\ TypeAcks /\ TypeStore
  BY DEF TypeOK
<1> USE <1>0
<1>1. TypeControl'
  BY BrokerAssumption DEF TypeControl, Labels, Crash, Commits, Fails
<1>2. TypeThreads'
  <2>1. \A S : <<>> \in Seq(S)
    BY EmptySeq
  <2> QED BY <2>1 DEF TypeThreads, SubscribeLabels,
                                 ClientLabels, PublishLabels, Crash, NoCmd
<1>3. TypeAcks'
  <2>1. /\ client_sessions' = [c \in ClientIds |-> None]
        /\ client_acks' = [c \in ClientIds |-> EmptyAckSet]
        /\ last_ack_seq' = [c \in ClientIds |-> 0]
        /\ acked' = acked /\ db_acks' = db_acks
    BY DEF Crash
  <2>2. EmptyAckSet \in AckSets /\ 0 \in Nat
    BY EmptyAckSetType
  <2>3. /\ client_sessions' \in [ClientIds -> Sessions \cup {None}]
        /\ client_acks' \in [ClientIds -> AckSets]
        /\ last_ack_seq' \in [ClientIds -> Nat]
    BY <2>1, <2>2
  <2> QED BY <2>1, <2>3 DEF TypeAcks
<1>4. TypeStore'
  BY DEF TypeStore, Crash, Commits, Fails
<1> QED BY <1>1, <1>2, <1>3, <1>4 DEF TypeOK

(* The accept loop takes a session that has no thread. *)
LEMMA AcceptConnectionTyped ==
  ASSUME TypeOK, NEW s \in Sessions, AcceptConnection(s)
  PROVE  TypeOK'
<1>0. TypeControl /\ TypeThreads /\ TypeAcks /\ TypeStore
  BY DEF TypeOK
<1> USE <1>0
<1>1. TypeControl'
  BY BrokerAssumption DEF TypeControl, Labels, AcceptConnection, BelowCap
<1>2. UNCHANGED <<threadVars, out, pc, log, ackVars, db_acks, seqVars, db_msgs, db_last, since>>
  BY DEF AcceptConnection
<1> QED BY <1>1, <1>2, SameThreads, SameAcks, SameStore DEF TypeOK

(* The accept loop pushes a session onto sessions_. *)
LEMMA PushSessionTyped ==
  ASSUME TypeOK, PushSession
  PROVE  TypeOK'
<1>0. TypeControl /\ TypeThreads /\ TypeAcks /\ TypeStore
  BY DEF TypeOK
<1> USE <1>0
<1>1. TypeControl'
  BY BrokerAssumption DEF TypeControl, Labels, PushSession, Locked
<1>2. UNCHANGED <<threadVars, out, pc, log, ackVars, db_acks, seqVars, db_msgs, db_last, since>>
  BY DEF PushSession
<1> QED BY <1>1, <1>2, SameThreads, SameAcks, SameStore DEF TypeOK

(* The connection counter stays below 2^64. *)
LEMMA CountConnectionTyped ==
  ASSUME TypeOK, CountConnection
  PROVE  TypeOK'
<1>0. TypeControl /\ TypeThreads /\ TypeAcks /\ TypeStore
  BY DEF TypeOK
<1> USE <1>0
<1>1. TypeControl'
  BY BrokerAssumption DEF TypeControl, Labels, CountConnection
<1>2. UNCHANGED <<threadVars, out, pc, log, ackVars, db_acks, seqVars, db_msgs, db_last, since>>
  BY DEF CountConnection
<1> QED BY <1>1, <1>2, SameThreads, SameAcks, SameStore DEF TypeOK

(* The new thread waits for a command. *)
LEMMA SpawnSessionTyped ==
  ASSUME TypeOK, SpawnSession
  PROVE  TypeOK'
<1>0. TypeControl /\ TypeThreads /\ TypeAcks /\ TypeStore
  BY DEF TypeOK
<1> USE <1>0
<1>pc. pc \in [Sessions -> Labels]
  BY DEF TypeControl
<1>1. TypeControl'
  BY BrokerAssumption DEF TypeControl, Labels, SpawnSession, Goto
<1>2. TypeThreads'
  BY <1>pc DEF TypeThreads, SubscribeLabels, ClientLabels, PublishLabels,
      SpawnSession, Goto
<1>3. UNCHANGED <<ackVars, db_acks, seqVars, db_msgs, db_last, since>>
  BY DEF SpawnSession
<1> QED BY <1>1, <1>2, <1>3, SameAcks, SameStore DEF TypeOK

(* A SUBSCRIBE sets the topic that the next steps read. *)
LEMMA ReceiveSubscribeTyped ==
  ASSUME TypeOK, NEW s \in Sessions, NEW t \in Topics, ReceiveSubscribe(s, t)
  PROVE  TypeOK'
<1>0. TypeControl /\ TypeThreads /\ TypeAcks /\ TypeStore
  BY DEF TypeOK
<1> USE <1>0
<1>pc. pc \in [Sessions -> Labels]
  BY DEF TypeControl
<1>1. TypeControl'
  <2>1. Goto(s, "subscribe") /\ UNCHANGED lock /\ (Commits \/ Fails)
        /\ UNCHANGED <<acceptVars, connVars, topic_subscribers, crashes>>
    BY DEF ReceiveSubscribe, Commits
  <2>2. "subscribe" \in Labels
    BY DEF Labels
  <2> QED BY <2>1, <2>2, ControlMoves
<1>2. TypeThreads'
  BY <1>pc, ZenonT(30) DEF TypeThreads, SubscribeLabels, ClientLabels, PublishLabels,
      ReceiveSubscribe, Goto, NoCmd
<1>3. UNCHANGED <<ackVars, db_acks, seqVars, db_msgs, db_last, since>>
  BY DEF ReceiveSubscribe
<1> QED BY <1>1, <1>2, <1>3, SameAcks, SameStore DEF TypeOK

(* A SUBSCRIBE with an id also sets the client id they read. *)
LEMMA ReceiveSubscribeWithIdTyped ==
  ASSUME TypeOK, NEW s \in Sessions, NEW t \in Topics, NEW c \in ClientIds,
         ReceiveSubscribeWithId(s, c, t)
  PROVE  TypeOK'
<1>0. TypeControl /\ TypeThreads /\ TypeAcks /\ TypeStore
  BY DEF TypeOK
<1> USE <1>0
<1>pc. pc \in [Sessions -> Labels]
  BY DEF TypeControl
<1>1. TypeControl'
  <2>1. Goto(s, "register") /\ UNCHANGED lock /\ (Commits \/ Fails)
        /\ UNCHANGED <<acceptVars, connVars, topic_subscribers, crashes>>
    BY DEF ReceiveSubscribeWithId, Commits
  <2>2. "register" \in Labels
    BY DEF Labels
  <2> QED BY <2>1, <2>2, ControlMoves
<1>2. TypeThreads'
  BY <1>pc, ZenonT(30) DEF TypeThreads, SubscribeLabels, ClientLabels, PublishLabels,
      ReceiveSubscribeWithId, Goto, NoCmd
<1>3. UNCHANGED <<ackVars, db_acks, seqVars, db_msgs, db_last, since>>
  BY DEF ReceiveSubscribeWithId
<1> QED BY <1>1, <1>2, <1>3, SameAcks, SameStore DEF TypeOK

(* registerClient reads acks that are numbers. *)
LEMMA RegisterClientTyped ==
  ASSUME TypeOK, NEW s \in Sessions, RegisterClient(s)
  PROVE  TypeOK'
<1>0. TypeControl /\ TypeThreads /\ TypeAcks /\ TypeStore
  BY DEF TypeOK
<1> USE <1>0
<1>pc. pc \in [Sessions -> Labels]
  BY DEF TypeControl
<1>1. TypeControl'
  <2>1. Goto(s, "loading") /\ Acquire(s) /\ (Commits \/ Fails)
        /\ UNCHANGED <<acceptVars, connVars, topic_subscribers, crashes>>
    BY DEF RegisterClient
  <2>2. "loading" \in Labels
    BY DEF Labels
  <2> QED BY <2>1, <2>2, ControlMoves
<1>2. TypeThreads'
  <2>1. load_acks(db_acks, client_id[s]) \subseteq Nat
    BY DEF load_acks
  <2>2. loading' \in [Sessions -> SUBSET Nat]
    BY <2>1, ZenonT(30) DEF TypeThreads, RegisterClient
  <2> QED
    BY <1>pc, <2>2 DEF TypeThreads, SubscribeLabels, ClientLabels,
                      PublishLabels, RegisterClient, Goto
<1>3. TypeAcks'
  <2>1. client_sessions \in [ClientIds -> Sessions \cup {None}]
    BY DEF TypeAcks
  <2>2. client_sessions' = [client_sessions EXCEPT ![client_id[s]] = s]
    BY DEF RegisterClient
  <2>3. client_sessions' \in [ClientIds -> Sessions \cup {None}]
    BY <2>1, <2>2, ZenonT(30)
  <2>4. UNCHANGED <<client_acks, last_ack_seq, acked, db_acks>>
    BY DEF RegisterClient
  <2> QED BY <2>3, <2>4 DEF TypeAcks
<1>4. UNCHANGED <<seqVars, db_msgs, db_last, since>>
  BY DEF RegisterClient
<1> QED BY <1>1, <1>2, <1>3, <1>4, SameStore DEF TypeOK

(* It inserts them into an ack set. *)
LEMMA InsertLoadedAckTyped ==
  ASSUME TypeOK, NEW s \in Sessions, InsertLoadedAck(s)
  PROVE  TypeOK'
<1>0. TypeControl /\ TypeThreads /\ TypeAcks /\ TypeStore
  BY DEF TypeOK
<1> USE <1>0
<1>1. TypeThreads'
  <2>1. loading' \in [Sessions -> SUBSET Nat]
    BY DEF TypeThreads, InsertLoadedAck
  <2>2. UNCHANGED <<client_id, sequence, cmd, pending, out, pc, log>>
    BY DEF InsertLoadedAck
  <2> QED BY <2>1, <2>2 DEF TypeThreads
<1>2. TypeAcks'
  <2>1. PICK q \in loading[s] :
          client_acks' = [client_acks EXCEPT ![client_id[s]] = insert(@, q)]
    BY ZenonT(30) DEF InsertLoadedAck
  <2>2. q \in Nat /\ client_id[s] \in ClientIds
    BY DEF TypeThreads, ClientLabels, InsertLoadedAck
  <2>3. insert(client_acks[client_id[s]], q) \in AckSets
    BY <2>2, InsertType DEF TypeAcks
  <2>4. client_acks' \in [ClientIds -> AckSets]
    BY <2>1, <2>2, <2>3 DEF TypeAcks
  <2>5. UNCHANGED <<client_sessions, last_ack_seq, acked, db_acks>>
    BY DEF InsertLoadedAck
  <2> QED BY <2>4, <2>5 DEF TypeAcks
<1>3. UNCHANGED <<acceptVars, connVars, topic_subscribers, lock, pc, failures, crashes,
                seqVars, db_msgs, db_last, since>>
  BY DEF InsertLoadedAck
<1> QED BY <1>1, <1>2, <1>3, SameControl, SameStore DEF TypeOK

(* It caches a maximum that is a number. *)
LEMMA FinishRegisterTyped ==
  ASSUME TypeOK, NEW s \in Sessions, FinishRegister(s)
  PROVE  TypeOK'
<1>0. TypeControl /\ TypeThreads /\ TypeAcks /\ TypeStore
  BY DEF TypeOK
<1> USE <1>0
<1>pc. pc \in [Sessions -> Labels]
  BY DEF TypeControl
<1>1. TypeControl'
  <2>1. Goto(s, "subscribe") /\ Release /\ (Commits \/ Fails)
        /\ UNCHANGED <<acceptVars, connVars, topic_subscribers, crashes>>
    BY DEF FinishRegister, Commits
  <2>2. "subscribe" \in Labels
    BY DEF Labels
  <2> QED BY <2>1, <2>2, ControlMoves
<1>2. TypeThreads'
  BY <1>pc DEF TypeThreads, SubscribeLabels, ClientLabels, PublishLabels,
      FinishRegister, Goto
<1>3. TypeAcks'
  <2>1. client_id[s] \in ClientIds
    BY DEF TypeThreads, ClientLabels, FinishRegister
  <2>2. client_acks[client_id[s]].max_seq \in Nat
    BY <2>1 DEF TypeAcks, AckSets
  <2>3. \/ UNCHANGED last_ack_seq
        \/ last_ack_seq' = [last_ack_seq EXCEPT ![client_id[s]] =
                               client_acks[client_id[s]].max_seq]
    BY DEF FinishRegister
  <2>4. last_ack_seq' \in [ClientIds -> Nat]
    BY <2>2, <2>3 DEF TypeAcks
  <2>5. UNCHANGED <<client_sessions, client_acks, acked, db_acks>>
    BY DEF FinishRegister
  <2> QED BY <2>4, <2>5 DEF TypeAcks
<1>4. UNCHANGED <<seqVars, db_msgs, db_last, since>>
  BY DEF FinishRegister
<1> QED BY <1>1, <1>2, <1>3, <1>4, SameStore DEF TypeOK

(* subscribe adds the session under a known topic. *)
LEMMA SubscribeTyped ==
  ASSUME TypeOK, NEW s \in Sessions, Subscribe(s)
  PROVE  TypeOK'
<1>0. TypeControl /\ TypeThreads /\ TypeAcks /\ TypeStore
  BY DEF TypeOK
<1> USE <1>0
<1>pc. pc \in [Sessions -> Labels]
  BY DEF TypeControl
<1>1. TypeControl'
  BY BrokerAssumption, ZenonT(30) DEF TypeControl, Labels, Subscribe, Goto, Locked
<1>2. TypeThreads'
  BY <1>pc DEF TypeThreads, SubscribeLabels, ClientLabels, PublishLabels,
      Subscribe, Goto
<1>3. TypeStore'
  <2>1. Len(log) \in Nat /\ cmd[s].topic \in Topics
    BY LenProperties, ZenonT(30) DEF TypeStore, TypeThreads, SubscribeLabels, Subscribe
  <2>2. since' \in [Sessions -> [Topics -> Nat]]
    BY <2>1, ZenonT(30) DEF TypeStore, Subscribe
  <2> QED BY <2>2 DEF TypeStore, Subscribe
<1>4. UNCHANGED <<ackVars, db_acks>>
  BY DEF Subscribe
<1> QED BY <1>1, <1>2, <1>3, <1>4, SameAcks DEF TypeOK
============================================================================
