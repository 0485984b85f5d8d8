-------------------------- MODULE BrokerTypeProofs --------------------------
(* Type correctness of module Broker: the actions of replay, publish, ack  *)
(* and disconnection, and the theorem.  BrokerTypeLemmas has the lemmas on *)
(* operators, the initial state and the other actions.                     *)
EXTENDS BrokerTypeLemmas

USE DEF acceptVars, connVars, threadVars, subVars, ackVars, seqVars, dbVars

(* The rows that replayMessages loads are rows. *)
LEMMA ReplayLoadTyped ==
  ASSUME TypeOK, NEW s \in Sessions, ReplayLoad(s)
  PROVE  TypeOK'
<1>0. TypeControl /\ TypeThreads /\ TypeAcks /\ TypeStore
  BY DEF TypeOK
<1> USE <1>0
<1>pc. pc \in [Sessions -> Labels]
  BY DEF TypeControl
<1>1. TypeControl'
  <2>1. Goto(s, "replaying") /\ UNCHANGED lock /\ (Commits \/ Fails)
        /\ UNCHANGED <<acceptVars, connVars, topic_subscribers, crashes>>
    BY DEF ReplayLoad
  <2>2. "replaying" \in Labels
    BY DEF Labels
  <2> QED BY <2>1, <2>2, ControlMoves
<1>2. TypeThreads'
  <2> DEFINE rows == load_range(db_msgs, 0, MAX_STORED_MESSAGES)
  <2>1. rows \subseteq Rows /\ IsFiniteSet(rows)
    BY LoadRangeType DEF TypeStore
  <2> HIDE DEF rows
  <2>2. ForTopic(rows, cmd[s].topic) \subseteq Seq(Rows)
    BY <2>1, ForTopicType
  <2>3. pending' \in [Sessions -> Seq(Rows)]
    BY <2>2, ZenonT(30) DEF TypeThreads, ReplayLoad, rows
  <2> QED
    BY <1>pc, <2>3 DEF TypeThreads, SubscribeLabels, ClientLabels,
                      PublishLabels, ReplayLoad, Goto
<1>3. UNCHANGED <<ackVars, db_acks, seqVars, db_msgs, db_last, since>>
  BY DEF ReplayLoad
<1> QED BY <1>1, <1>2, <1>3, SameAcks, SameStore DEF TypeOK

(* A replayed payload is a byte string. *)
LEMMA ReplaySendTyped ==
  ASSUME TypeOK, NEW s \in Sessions, ReplaySend(s)
  PROVE  TypeOK'
<1>0. TypeControl /\ TypeThreads /\ TypeAcks /\ TypeStore
  BY DEF TypeOK
<1> USE <1>0
<1>1. TypeThreads'
  <2>1. Head(pending[s]) \in Rows /\ Tail(pending[s]) \in Seq(Rows)
    BY HeadTailProperties DEF TypeThreads, ReplaySend
  <2>2. Append(out[s], Head(pending[s]).payload) \in Seq(Seq(Byte))
    BY <2>1, AppendProperties, ZenonT(30) DEF TypeThreads, Rows
  <2>3. /\ pending' \in [Sessions -> Seq(Rows)]
        /\ out' \in [Sessions -> Seq(Seq(Byte))]
    BY <2>1, <2>2 DEF TypeThreads, ReplaySend
  <2>4. UNCHANGED <<client_id, sequence, cmd, loading, pc, log>>
    BY DEF ReplaySend
  <2> QED BY <2>3, <2>4 DEF TypeThreads
<1>2. UNCHANGED <<acceptVars, connVars, topic_subscribers, lock, pc, failures, crashes,
                ackVars, db_acks, seqVars, db_msgs, db_last, since>>
  BY DEF ReplaySend
<1> QED BY <1>1, <1>2, SameControl, SameAcks, SameStore DEF TypeOK

(* The replay for the client begins only with a client id. *)
LEMMA ReplayDoneTyped ==
  ASSUME TypeOK, NEW s \in Sessions, ReplayDone(s)
  PROVE  TypeOK'
<1>0. TypeControl /\ TypeThreads /\ TypeAcks /\ TypeStore
  BY DEF TypeOK
<1> USE <1>0
<1>pc. pc \in [Sessions -> Labels]
  BY DEF TypeControl
<1>1. TypeControl'
  <2>1. PICK l \in Labels : Goto(s, l)
    BY DEF Labels, ReplayDone
  <2>2. UNCHANGED lock /\ (Commits \/ Fails)
        /\ UNCHANGED <<acceptVars, connVars, topic_subscribers, crashes>>
    BY DEF ReplayDone, Commits
  <2> QED BY <2>1, <2>2, ControlMoves
<1>2. TypeThreads'
  BY <1>pc DEF TypeThreads, SubscribeLabels, ClientLabels, PublishLabels,
      ReplayDone, Goto, NoCmd
<1>3. UNCHANGED <<ackVars, db_acks, seqVars, db_msgs, db_last, since>>
  BY ZenonT(30) DEF ReplayDone
<1> QED BY <1>1, <1>2, <1>3, SameAcks, SameStore DEF TypeOK

(* The replay for the client starts at a number. *)
LEMMA GetLastAckTyped ==
  ASSUME TypeOK, NEW s \in Sessions, GetLastAck(s)
  PROVE  TypeOK'
<1>0. TypeControl /\ TypeThreads /\ TypeAcks /\ TypeStore
  BY DEF TypeOK
<1> USE <1>0
<1>pc. pc \in [Sessions -> Labels]
  BY DEF TypeControl
<1>1. TypeControl'
  <2>1. Goto(s, "client_replay") /\ UNCHANGED lock /\ (Commits \/ Fails)
        /\ UNCHANGED <<acceptVars, connVars, topic_subscribers, crashes>>
    BY DEF GetLastAck, Locked, Commits
  <2>2. "client_replay" \in Labels
    BY DEF Labels
  <2> QED BY <2>1, <2>2, ControlMoves
<1>2. TypeThreads'
  <2>1. last_ack_seq[client_id[s]] \in Nat
    BY DEF TypeThreads, TypeAcks, ClientLabels, GetLastAck
  <2>2. /\ cmd' \in [Sessions -> [topic : Topics \cup {<<>>}, smart : BOOLEAN,
                                from : Nat, entry : Nat]]
        /\ \A r \in Sessions : /\ cmd'[r].topic = cmd[r].topic /\ cmd'[r].smart = cmd[r].smart
                               /\ cmd'[r].entry = cmd[r].entry
    BY <2>1, ZenonT(30) DEF TypeThreads, GetLastAck
  <2> QED
    BY <1>pc, <2>2 DEF TypeThreads, SubscribeLabels, ClientLabels,
                      PublishLabels, GetLastAck, Goto
<1>3. UNCHANGED <<ackVars, db_acks, seqVars, db_msgs, db_last, since>>
  BY DEF GetLastAck
<1> QED BY <1>1, <1>2, <1>3, SameAcks, SameStore DEF TypeOK

(* The rows that replayMessagesForClient loads are rows. *)
LEMMA ClientReplayLoadTyped ==
  ASSUME TypeOK, NEW s \in Sessions, ClientReplayLoad(s)
  PROVE  TypeOK'
<1>0. TypeControl /\ TypeThreads /\ TypeAcks /\ TypeStore
  BY DEF TypeOK
<1> USE <1>0
<1>pc. pc \in [Sessions -> Labels]
  BY DEF TypeControl
<1>1. TypeControl'
  <2>1. Goto(s, "client_replaying") /\ UNCHANGED lock /\ (Commits \/ Fails)
        /\ UNCHANGED <<acceptVars, connVars, topic_subscribers, crashes>>
    BY DEF ClientReplayLoad
  <2>2. "client_replaying" \in Labels
    BY DEF Labels
  <2> QED BY <2>1, <2>2, ControlMoves
<1>2. TypeThreads'
  <2> DEFINE rows == load_range(db_msgs, cmd[s].from + 1, cmd[s].from + MAX_STORED_MESSAGES)
  <2>1. rows \subseteq Rows /\ IsFiniteSet(rows)
    BY LoadRangeType DEF TypeStore
  <2> HIDE DEF rows
  <2>2. ForTopic(rows, cmd[s].topic) \subseteq Seq(Rows)
    BY <2>1, ForTopicType
  <2>3. pending' \in [Sessions -> Seq(Rows)]
    BY <2>2, ZenonT(30) DEF TypeThreads, ClientReplayLoad, rows
  <2> QED
    BY <1>pc, <2>3 DEF TypeThreads, SubscribeLabels, ClientLabels,
                      PublishLabels, ClientReplayLoad, Goto
<1>3. UNCHANGED <<ackVars, db_acks, seqVars, db_msgs, db_last, since>>
  BY DEF ClientReplayLoad
<1> QED BY <1>1, <1>2, <1>3, SameAcks, SameStore DEF TypeOK

(* A row that the client has acknowledged is skipped. *)
LEMMA ClientReplayCheckTyped ==
  ASSUME TypeOK, NEW s \in Sessions, ClientReplayCheck(s)
  PROVE  TypeOK'
<1>0. TypeControl /\ TypeThreads /\ TypeAcks /\ TypeStore
  BY DEF TypeOK
<1> USE <1>0
<1>pc. pc \in [Sessions -> Labels]
  BY DEF TypeControl
<1>1. TypeControl'
  <2>1. PICK l \in Labels : Goto(s, l)
    BY <1>pc DEF Labels, ClientReplayCheck, Goto
  <2>2. UNCHANGED lock /\ (Commits \/ Fails)
        /\ UNCHANGED <<acceptVars, connVars, topic_subscribers, crashes>>
    BY DEF ClientReplayCheck, Locked, Commits
  <2> QED BY <2>1, <2>2, ControlMoves
<1>2. TypeThreads'
  <2>1. pending' \in [Sessions -> Seq(Rows)]
    <3>1. pending \in [Sessions -> Seq(Rows)] /\ pending[s] # <<>>
          /\ (UNCHANGED pending \/ pending' = [pending EXCEPT ![s] = Tail(@)])
      BY ZenonT(30) DEF TypeThreads, ClientReplayCheck
    <3>2. Tail(pending[s]) \in Seq(Rows)
      BY <3>1, HeadTailProperties
    <3> QED BY <3>1, <3>2
  <2>2. UNCHANGED <<client_id, sequence, cmd, loading, out, log>> /\ pc[s] = "client_replaying"
    BY DEF ClientReplayCheck
  <2>3. CASE UNCHANGED pc
    BY <2>1, <2>2, <2>3 DEF TypeThreads
  <2>4. CASE Goto(s, "client_sending")
    BY <1>pc, <2>1, <2>2, <2>4 DEF TypeThreads, SubscribeLabels, ClientLabels, PublishLabels, Goto
  <2> QED BY <2>3, <2>4 DEF ClientReplayCheck
<1>3. UNCHANGED <<ackVars, db_acks, seqVars, db_msgs, db_last, since>>
  BY DEF ClientReplayCheck
<1> QED BY <1>1, <1>2, <1>3, SameAcks, SameStore DEF TypeOK

(* A payload replayed to a client is a byte string. *)
LEMMA ClientReplaySendTyped ==
  ASSUME TypeOK, NEW s \in Sessions, ClientReplaySend(s)
  PROVE  TypeOK'
<1>0. TypeControl /\ TypeThreads /\ TypeAcks /\ TypeStore
  BY DEF TypeOK
<1> USE <1>0
<1>pc. pc \in [Sessions -> Labels]
  BY DEF TypeControl
<1>1. TypeControl'
  <2>1. Goto(s, "client_replaying") /\ UNCHANGED lock /\ (Commits \/ Fails)
        /\ UNCHANGED <<acceptVars, connVars, topic_subscribers, crashes>>
    BY DEF ClientReplaySend, Commits
  <2>2. "client_replaying" \in Labels
    BY DEF Labels
  <2> QED BY <2>1, <2>2, ControlMoves
<1>2. TypeThreads'
  <2>1. Head(pending[s]) \in Rows /\ Tail(pending[s]) \in Seq(Rows)
    BY HeadTailProperties DEF TypeThreads, ClientReplaySend
  <2>2. Append(out[s], Head(pending[s]).payload) \in Seq(Seq(Byte))
    BY <2>1, AppendProperties, ZenonT(30) DEF TypeThreads, Rows
  <2>3. /\ pending' \in [Sessions -> Seq(Rows)]
        /\ out' \in [Sessions -> Seq(Seq(Byte))]
    BY <2>1, <2>2 DEF TypeThreads, ClientReplaySend
  <2>4. UNCHANGED <<client_id, sequence, cmd, loading, log>> /\ pc[s] = "client_sending"
        /\ Goto(s, "client_replaying")
    BY DEF ClientReplaySend
  <2> QED
    BY <1>pc, <2>3, <2>4 DEF TypeThreads, SubscribeLabels, ClientLabels, PublishLabels, Goto
<1>3. UNCHANGED <<ackVars, db_acks, seqVars, db_msgs, db_last, since>>
  BY DEF ClientReplaySend
<1> QED BY <1>1, <1>2, <1>3, SameAcks, SameStore DEF TypeOK

(* After the replay the thread waits for a command. *)
LEMMA ClientReplayDoneTyped ==
  ASSUME TypeOK, NEW s \in Sessions, ClientReplayDone(s)
  PROVE  TypeOK'
<1>0. TypeControl /\ TypeThreads /\ TypeAcks /\ TypeStore
  BY DEF TypeOK
<1> USE <1>0
<1>pc. pc \in [Sessions -> Labels]
  BY DEF TypeControl
<1>1. TypeControl'
  <2>1. Goto(s, "idle") /\ UNCHANGED lock /\ (Commits \/ Fails)
        /\ UNCHANGED <<acceptVars, connVars, topic_subscribers, crashes>>
    BY DEF ClientReplayDone, Commits
  <2>2. "idle" \in Labels
    BY DEF Labels
  <2> QED BY <2>1, <2>2, ControlMoves
<1>2. TypeThreads'
  BY <1>pc DEF TypeThreads, SubscribeLabels, ClientLabels, PublishLabels,
      ClientReplayDone, Goto, NoCmd
<1>3. UNCHANGED <<ackVars, db_acks, seqVars, db_msgs, db_last, since>>
  BY ZenonT(30) DEF ClientReplayDone
<1> QED BY <1>1, <1>2, <1>3, SameAcks, SameStore DEF TypeOK

(* unsubscribe leaves a set of sessions. *)
LEMMA UnsubscribeTyped ==
  ASSUME TypeOK, NEW s \in Sessions, NEW t \in Topics, Unsubscribe(s, t)
  PROVE  TypeOK'
<1>0. TypeControl /\ TypeThreads /\ TypeAcks /\ TypeStore
  BY DEF TypeOK
<1> USE <1>0
<1>1. TypeControl'
  BY BrokerAssumption DEF TypeControl, Labels, Unsubscribe, Locked
<1>2. TypeStore'
  BY DEF TypeStore, Unsubscribe, Locked
<1>3. UNCHANGED <<threadVars, out, pc, log, ackVars, db_acks>>
  BY DEF Unsubscribe
<1> QED BY <1>1, <1>2, <1>3, SameThreads, SameAcks DEF TypeOK

(* publish saves a byte string and enters the message in the log. *)
LEMMA PublishTyped ==
  ASSUME TypeOK, NEW s \in Sessions, NEW t \in Topics, Publish(s, t)
  PROVE  TypeOK'
<1>0. TypeControl /\ TypeThreads /\ TypeAcks /\ TypeStore
  BY DEF TypeOK
<1> USE <1>0
<1>pc. pc \in [Sessions -> Labels]
  BY DEF TypeControl
<1>1. TypeControl'
  <2>1. PICK l \in Labels : Goto(s, l)
    BY DEF Labels, Publish
  <2>2. Acquire(s) /\ (Commits \/ Fails)
        /\ UNCHANGED <<acceptVars, connVars, topic_subscribers, crashes>>
    BY DEF Publish
  <2> QED BY <2>1, <2>2, ControlMoves
<1>2. TypeThreads'
  <2>1. Len(log) \in Nat
    BY LenProperties DEF TypeStore
  <2>2. PICK e \in LogEntries : log' = Append(log, e)
    BY PublishAppends
  <2>3. DOMAIN log' = 1 .. Len(log) + 1 /\ DOMAIN log = 1 .. Len(log)
    <3>1. log \in Seq(LogEntries) /\ Append(log, e) \in Seq(LogEntries)
          /\ Len(Append(log, e)) = Len(log) + 1
      BY AppendProperties DEF TypeStore
    <3> QED BY <3>1, <2>2, LenProperties
  <2>4. /\ cmd' \in [Sessions -> [topic : Topics \cup {<<>>}, smart : BOOLEAN,
                                from : Nat, entry : Nat]]
        /\ cmd'[s].entry = Len(log) + 1 /\ \A r \in Sessions \ {s} : cmd'[r] = cmd[r]
    <3> DEFINE n == Len(log) + 1
               new == [NoCmd EXCEPT !.topic = t, !.entry = n]
    <3>1. cmd' = [cmd EXCEPT ![s] = new]
      BY DEF Publish
    <3>4. n \in Nat
      BY <2>1
    <3> HIDE DEF n
    <3>2. new \in [topic : Topics \cup {<<>>}, smart : BOOLEAN, from : Nat, entry : Nat]
      BY <3>4, PublishCmdType, ZenonT(30)
    <3>3. new.entry = n
      BY <3>4, PublishCmdType, ZenonT(30)
    <3> HIDE DEF new
    <3> QED BY <3>1, <3>2, <3>3 DEF TypeThreads, n
  <2>6. sequence' \in [Sessions -> Nat]
    BY DEF TypeThreads, Publish
  <2>7. pc' \in [Sessions -> Labels] /\ pc'[s] \in {"compact", "fanout"}
        /\ \A r \in Sessions \ {s} : pc'[r] = pc[r]
    BY <1>pc DEF Publish, Goto, Labels
  <2>8. UNCHANGED <<client_id, loading, pending, out>>
    BY DEF Publish
  <2>9. ASSUME NEW r \in Sessions
        PROVE  /\ pc'[r] \in SubscribeLabels => cmd'[r].topic \in Topics
               /\ (pc'[r] \in SubscribeLabels /\ cmd'[r].smart) \/ pc'[r] \in ClientLabels
                    => client_id'[r] \in ClientIds
               /\ pc'[r] \in PublishLabels => cmd'[r].entry \in DOMAIN log'
    <3>1. CASE r = s
      BY <3>1, <2>1, <2>3, <2>4, <2>7 DEF TypeThreads, SubscribeLabels, ClientLabels
    <3>2. CASE r # s
      <4>1. pc'[r] = pc[r] /\ cmd'[r] = cmd[r] /\ client_id'[r] = client_id[r]
        BY <3>2, <2>4, <2>7, <2>8 DEF TypeThreads
      <4> QED BY <4>1, <2>1, <2>3 DEF TypeThreads
    <3> QED BY <3>1, <3>2
  <2> QED BY <2>4, <2>6, <2>8, <2>9 DEF TypeThreads
<1>3. TypeStore'
  <2>1. Len(log) \in Nat /\ t \in Seq(Byte)
    BY LenProperties, BrokerAssumption DEF TypeStore
  <2>2. MessageFrame(s, Len(log) + 1) \in Seq(Byte)
    BY <2>1, MessageFrameType
  <2>3. log' \in Seq(LogEntries)
    <3>1. PICK e \in LogEntries : log' = Append(log, e)
      BY PublishAppends
    <3> QED BY <3>1, AppendProperties DEF TypeStore
  <2>4. /\ db_last' \in Nat
        /\ DOMAIN db_msgs' \subseteq Nat /\ IsFiniteSet(DOMAIN db_msgs')
        /\ \A k \in DOMAIN db_msgs' : db_msgs'[k] \in Seq(Byte)
    <3>1. CASE db_msgs' = save(db_msgs, db_last, t, MessageFrame(s, Len(log) + 1))
               /\ db_last' = db_last + 1
      <4> DEFINE frame == MessageFrame(s, Len(log) + 1)
      <4> HIDE DEF frame
      <4>1. frame \in Seq(Byte) /\ db_msgs' = save(db_msgs, db_last, t, frame)
        BY <3>1, <2>2 DEF frame
      <4>2. /\ DOMAIN db_msgs' \subseteq Nat /\ IsFiniteSet(DOMAIN db_msgs')
            /\ \A k \in DOMAIN db_msgs' : db_msgs'[k] \in Seq(Byte)
        BY <4>1, <2>1, SaveType DEF TypeStore
      <4> QED BY <3>1, <4>2 DEF TypeStore
    <3>2. CASE UNCHANGED <<db_msgs, db_last>>
      BY <3>2 DEF TypeStore
    <3> QED BY <3>1, <3>2 DEF Publish
  <2>5. current_sequence' \in Nat /\ publish_count' \in Nat /\ UNCHANGED since
    BY DEF TypeStore, Publish
  <2> QED BY <2>3, <2>4, <2>5 DEF TypeStore
<1>4. UNCHANGED <<ackVars, db_acks>>
  BY DEF Publish
<1> QED BY <1>1, <1>2, <1>3, <1>4, SameAcks DEF TypeOK

(* Compaction leaves a map from numbers to byte strings. *)
LEMMA CompactMessagesTyped ==
  ASSUME TypeOK, NEW s \in Sessions, CompactMessages(s)
  PROVE  TypeOK'
<1>0. TypeControl /\ TypeThreads /\ TypeAcks /\ TypeStore
  BY DEF TypeOK
<1> USE <1>0
<1>pc. pc \in [Sessions -> Labels]
  BY DEF TypeControl
<1>1. TypeControl'
  <2>1. Goto(s, "purge") /\ UNCHANGED lock /\ (Commits \/ Fails)
        /\ UNCHANGED <<acceptVars, connVars, topic_subscribers, crashes>>
    BY DEF CompactMessages
  <2>2. "purge" \in Labels
    BY DEF Labels
  <2> QED BY <2>1, <2>2, ControlMoves
<1>2. TypeThreads'
  BY <1>pc DEF TypeThreads, SubscribeLabels, ClientLabels, PublishLabels,
      CompactMessages, Goto
<1>3. TypeStore'
  <2>1. CASE db_msgs' = compact(db_msgs, current_sequence - MAX_STORED_MESSAGES)
    BY <2>1, CompactType, ZenonT(30) DEF TypeStore, CompactMessages
  <2>2. CASE UNCHANGED db_msgs
    BY <2>2 DEF TypeStore, CompactMessages
  <2> QED BY <2>1, <2>2 DEF CompactMessages
<1>4. UNCHANGED <<ackVars, db_acks>>
  BY DEF CompactMessages
<1> QED BY <1>1, <1>2, <1>3, <1>4, SameAcks DEF TypeOK

(* The purge leaves a set of ack keys. *)
LEMMA PurgeAcksTyped ==
  ASSUME TypeOK, NEW s \in Sessions, PurgeAcks(s)
  PROVE  TypeOK'
<1>0. TypeControl /\ TypeThreads /\ TypeAcks /\ TypeStore
  BY DEF TypeOK
<1> USE <1>0
<1>pc. pc \in [Sessions -> Labels]
  BY DEF TypeControl
<1>1. TypeControl'
  <2>1. Goto(s, "fanout") /\ UNCHANGED lock /\ (Commits \/ Fails)
        /\ UNCHANGED <<acceptVars, connVars, topic_subscribers, crashes>>
    BY DEF PurgeAcks
  <2>2. "fanout" \in Labels
    BY DEF Labels
  <2> QED BY <2>1, <2>2, ControlMoves
<1>2. TypeThreads'
  BY <1>pc DEF TypeThreads, SubscribeLabels, ClientLabels, PublishLabels,
      PurgeAcks, Goto
<1>3. TypeAcks'
  BY DEF TypeAcks, PurgeAcks, Goto, Commits, Fails, purge_old_acks
<1>4. UNCHANGED <<seqVars, db_msgs, db_last, since>>
  BY DEF PurgeAcks
<1> QED BY <1>1, <1>2, <1>3, <1>4, SameStore DEF TypeOK

(* The fan-out sends the frame of a message in the log. *)
LEMMA FanOutTyped ==
  ASSUME TypeOK, NEW s \in Sessions, FanOut(s)
  PROVE  TypeOK'
<1>0. TypeControl /\ TypeThreads /\ TypeAcks /\ TypeStore
  BY DEF TypeOK
<1> USE <1>0
<1>pc. pc \in [Sessions -> Labels]
  BY DEF TypeControl
<1>1. TypeControl'
  <2>1. Goto(s, "idle") /\ Release /\ (Commits \/ Fails)
        /\ UNCHANGED <<acceptVars, connVars, topic_subscribers, crashes>>
    BY DEF FanOut, Commits
  <2>2. "idle" \in Labels
    BY DEF Labels
  <2> QED BY <2>1, <2>2, ControlMoves
<1>2. TypeThreads'
  <2>1. cmd[s].entry \in DOMAIN log
    BY DEF TypeThreads, PublishLabels, FanOut
  <2>2. log[cmd[s].entry] \in LogEntries
    BY <2>1, LenProperties, ElementOfSeq DEF TypeStore
  <2>5. log[cmd[s].entry].frame \in Seq(Byte)
    BY <2>2 DEF LogEntries
  <2>3. out' \in [Sessions -> Seq(Seq(Byte))]
    BY <2>5, DeliveredType, ZenonT(30) DEF TypeThreads, FanOut
  <2>4. cmd' \in [Sessions -> [topic : Topics \cup {<<>>}, smart : BOOLEAN,
                                from : Nat, entry : Nat]]
        /\ \A r \in Sessions \ {s} : cmd'[r] = cmd[r]
    BY DEF TypeThreads, FanOut, NoCmd
  <2> QED
    BY <1>pc, <2>3, <2>4, ZenonT(30) DEF TypeThreads, SubscribeLabels, ClientLabels,
                      PublishLabels, FanOut, Goto
<1>3. UNCHANGED <<ackVars, db_acks, seqVars, db_msgs, db_last, since>>
  BY ZenonT(30) DEF FanOut
<1> QED BY <1>1, <1>2, <1>3, SameAcks, SameStore DEF TypeOK

(* handleAck inserts a number into an ack set. *)
LEMMA HandleAckTyped ==
  ASSUME TypeOK, NEW s \in Sessions, NEW q \in AckSeqs, HandleAck(s, q)
  PROVE  TypeOK'
<1>0. TypeControl /\ TypeThreads /\ TypeAcks /\ TypeStore
  BY DEF TypeOK
<1> USE <1>0
<1>1. TypeControl'
  <2>1. (Commits \/ Fails)
        /\ UNCHANGED <<acceptVars, connVars, topic_subscribers, lock, pc, crashes>>
    BY DEF HandleAck, Locked
  <2>2. failures' \in 0 .. MaxFailures
    BY <2>1, BrokerAssumption DEF TypeControl, Commits, Fails
  <2> QED BY <2>1, <2>2 DEF TypeControl
<1>2. TypeAcks'
  <2>1. q \in Nat /\ client_id[s] \in ClientIds
    BY BrokerAssumption DEF TypeThreads, HandleAck
  <2>2. insert(client_acks[client_id[s]], q) \in AckSets
    BY <2>1, InsertType DEF TypeAcks
  <2>3. client_acks' \in [ClientIds -> AckSets]
    BY <2>1, <2>2 DEF TypeAcks, HandleAck
  <2>4. last_ack_seq' \in [ClientIds -> Nat]
    BY <2>1 DEF TypeAcks, HandleAck, Higher
  <2>5. acked' \in [ClientIds -> SUBSET AckSeqs]
    BY <2>1 DEF TypeAcks, HandleAck
  <2>6. db_acks' \subseteq db_acks \cup {AckKey(client_id[s], q)} /\ UNCHANGED client_sessions
    BY DEF HandleAck
  <2> QED BY <2>1, <2>3, <2>4, <2>5, <2>6 DEF TypeAcks
<1>3. UNCHANGED <<threadVars, out, pc, log, seqVars, db_msgs, db_last, since>>
  BY DEF HandleAck
<1> QED BY <1>1, <1>2, <1>3, SameThreads, SameStore DEF TypeOK

(* A thread unregisters a client id only if it has one. *)
LEMMA DisconnectTyped ==
  ASSUME TypeOK, NEW s \in Sessions, Disconnect(s)
  PROVE  TypeOK'
<1>0. TypeControl /\ TypeThreads /\ TypeAcks /\ TypeStore
  BY DEF TypeOK
<1> USE <1>0
<1>pc. pc \in [Sessions -> Labels]
  BY DEF TypeControl
<1>1. TypeControl'
  <2>1. PICK l \in Labels : Goto(s, l)
    BY ZenonT(30) DEF Labels, Disconnect
  <2>2. UNCHANGED lock /\ (Commits \/ Fails)
        /\ UNCHANGED <<acceptVars, connVars, topic_subscribers, crashes>>
    BY ZenonT(30) DEF Disconnect, Commits
  <2> QED BY <2>1, <2>2, ControlMoves
<1>2. TypeThreads'
  BY <1>pc DEF TypeThreads, SubscribeLabels, ClientLabels, PublishLabels,
      Disconnect, Goto
<1>3. UNCHANGED <<ackVars, db_acks, seqVars, db_msgs, db_last, since>>
  BY ZenonT(30) DEF Disconnect
<1> QED BY <1>1, <1>2, <1>3, SameAcks, SameStore DEF TypeOK

(* unregisterClient leaves no session for the id. *)
LEMMA UnregisterClientTyped ==
  ASSUME TypeOK, NEW s \in Sessions, UnregisterClient(s)
  PROVE  TypeOK'
<1>0. TypeControl /\ TypeThreads /\ TypeAcks /\ TypeStore
  BY DEF TypeOK
<1> USE <1>0
<1>pc. pc \in [Sessions -> Labels]
  BY DEF TypeControl
<1>1. TypeControl'
  <2>1. Goto(s, "remove") /\ UNCHANGED lock /\ (Commits \/ Fails)
        /\ UNCHANGED <<acceptVars, connVars, topic_subscribers, crashes>>
    BY DEF UnregisterClient, Locked, Commits
  <2>2. "remove" \in Labels
    BY DEF Labels
  <2> QED BY <2>1, <2>2, ControlMoves
<1>2. TypeThreads'
  BY <1>pc DEF TypeThreads, SubscribeLabels, ClientLabels, PublishLabels,
      UnregisterClient, Goto
<1>3. TypeAcks'
  <2>1. client_sessions \in [ClientIds -> Sessions \cup {None}]
    BY DEF TypeAcks
  <2>2. client_sessions' = [client_sessions EXCEPT ![client_id[s]] = None]
    BY DEF UnregisterClient
  <2>3. client_sessions' \in [ClientIds -> Sessions \cup {None}]
    BY <2>1, <2>2, ZenonT(30)
  <2>4. UNCHANGED <<client_acks, last_ack_seq, acked, db_acks>>
    BY DEF UnregisterClient
  <2> QED BY <2>3, <2>4 DEF TypeAcks
<1>4. UNCHANGED <<seqVars, db_msgs, db_last, since>>
  BY DEF UnregisterClient
<1> QED BY <1>1, <1>2, <1>3, <1>4, SameStore DEF TypeOK

(* removeSession leaves sets of sessions and a counter that wraps. *)
LEMMA RemoveSessionTyped ==
  ASSUME TypeOK, NEW s \in Sessions, RemoveSession(s)
  PROVE  TypeOK'
<1>0. TypeControl /\ TypeThreads /\ TypeAcks /\ TypeStore
  BY DEF TypeOK
<1> USE <1>0
<1>pc. pc \in [Sessions -> Labels]
  BY DEF TypeControl
<1>1. TypeControl'
  BY BrokerAssumption DEF TypeControl, Labels, RemoveSession, Goto, Locked,
      ErasedEverywhere
<1>2. TypeThreads'
  BY <1>pc DEF TypeThreads, SubscribeLabels, ClientLabels, PublishLabels,
      RemoveSession, Goto
<1>3. TypeStore'
  BY ZenonT(30) DEF TypeStore, RemoveSession, Goto, Locked, ErasedEverywhere
<1>4. UNCHANGED <<ackVars, db_acks>>
  BY DEF RemoveSession
<1> QED BY <1>1, <1>2, <1>3, <1>4, SameAcks DEF TypeOK

(* Every step, also a stuttering one, preserves the types. *)
LEMMA TypeStep == TypeOK /\ [Next]_vars => TypeOK'
<1> SUFFICES ASSUME TypeOK, [Next]_vars PROVE TypeOK'
  OBVIOUS
<1>1. CASE Crash
  BY <1>1, CrashTyped
<1>2. CASE AcceptSteps
  BY <1>2, AcceptConnectionTyped, PushSessionTyped, CountConnectionTyped, SpawnSessionTyped
     DEF AcceptSteps
<1>3. ASSUME NEW s \in Sessions, SubscribeSteps(s)  PROVE TypeOK'
  BY <1>3, ReceiveSubscribeTyped, ReceiveSubscribeWithIdTyped, RegisterClientTyped,
     InsertLoadedAckTyped, FinishRegisterTyped, SubscribeTyped, ReplayLoadTyped,
     ReplaySendTyped, ReplayDoneTyped, GetLastAckTyped, ClientReplayLoadTyped,
     ClientReplayCheckTyped, ClientReplaySendTyped, ClientReplayDoneTyped, UnsubscribeTyped
     DEF SubscribeSteps
<1>4. ASSUME NEW s \in Sessions, PublishSteps(s)  PROVE TypeOK'
  BY <1>4, PublishTyped, CompactMessagesTyped, PurgeAcksTyped, FanOutTyped
     DEF PublishSteps
<1>5. ASSUME NEW s \in Sessions, SessionSteps(s)  PROVE TypeOK'
  BY <1>3, <1>4, <1>5, HandleAckTyped, DisconnectTyped, UnregisterClientTyped,
     RemoveSessionTyped
     DEF SessionSteps
<1>6. CASE UNCHANGED vars
  BY <1>6, SameControl, SameThreads, SameAcks, SameStore DEF vars, TypeOK, seqVars, dbVars,
     subVars, ackVars, threadVars, acceptVars, connVars
<1> QED BY <1>1, <1>2, <1>5, <1>6 DEF Next

(* Type correctness: in every reachable state every variable has its type, *)
(* and a handler thread has set the locals that its next step reads: the   *)
(* topic of a SUBSCRIBE, the client id wherever registerClient, getLastAck *)
(* or unregisterClient use it, the message that publish() fans out.        *)
THEOREM TypeCorrect == Spec => []TypeOK
<1>1. Init => TypeOK
  BY TypeInit
<1>2. TypeOK /\ [Next]_vars => TypeOK'
  BY TypeStep
<1> QED BY <1>1, <1>2, PTL DEF Spec
============================================================================
