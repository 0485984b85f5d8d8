------------------------------- MODULE Session ------------------------------
(***************************************************************************)
(* The connection threads, byte by byte (src/src/session.cpp): the receive *)
(* loop with its buffer, its cap, its protocol detection and its idle      *)
(* clock, the two parse loops, and the command handlers with their         *)
(* replies.  Sockets are byte streams that may be cut anywhere.            *)
(*                                                                         *)
(* A handler is one step here, with what it makes the broker do (the steps *)
(* inside it are those of module Broker).  A run of characters that        *)
(* matters only as a whole, such as a command word, is one byte.           *)
(***************************************************************************)
EXTENDS LmdbStorage, SequencesExt

CONSTANTS
  Conns,                                             \* connections
  SeqWidth, TopicWidth, PayloadWidth, KeyIdWidth,    \* see BinaryProtocol
  SIGNATURE_SIZE, MAX_TOPIC_LEN, MAX_PAYLOAD_LEN,
  MAX_BULK_LEN, MAX_ARRAY_COUNT,                     \* see RespParser
  RECV_SIZE,                                         \* what one recv() returns at most
  Pieces,                                            \* bound: sizes at which TCP may cut short a recv()
  MAX_RECV_BUFFER,
  IDLE_TICKS,                                        \* receive timeouts in SESSION_IDLE_TIMEOUT_S
  MAX_STORED_MESSAGES

BP == INSTANCE BinaryProtocol
RP == INSTANCE RespParser

VARIABLES
  to_broker, to_client,      \* bytes under way on each connection
  client_open,               \* the client has not closed its end
  pc, recv_buffer, protocol_type, client_id, sequence, idle,    \* the thread and its Session
  current,                   \* what it handles: nothing or a frame or command
  subscribers,               \* topic_subscribers_, pairs of a topic and a connection
  acks,                      \* client_acks_, pairs of a client id and a number
  db_msgs, db_last,          \* the database
  handled,                   \* history: the requests each thread has handled
  delivered,                 \* history: the messages publish() sent on each connection
  dropped,                   \* history: why a thread closed its connection
  reset                      \* history: the close lost bytes on their way to the client

wireVars   == <<to_broker, to_client, client_open>>
threadVars == <<pc, recv_buffer, protocol_type, idle, current>>
brokerVars == <<client_id, sequence, subscribers, acks, db_msgs, db_last, delivered>>
sessionVars == <<wireVars, threadVars, brokerVars, handled, dropped, reset>>

----------------------------------------------------------------------------
(* Words and texts, one byte each. *)
Hash        == <<35>>        \* "#"
SECURE      == 33            \* "secure/"
SUBSCRIBE   == <<83>>
UNSUBSCRIBE == <<85>>
PUBLISH     == <<80>>
PING        == <<73>>
PONG        == <<79>>
ACK         == <<65>>
Message     == <<109>>       \* "message"
Joined      == <<115>>       \* "subscribe"
Left        == <<117>>       \* "unsubscribe"
OK          == <<75>>
ErrorText   == <<69>>

toupper(s) == [i \in DOMAIN s |-> IF s[i] \in 97..122 THEN s[i] - 32 ELSE s[i]]

Drop(s, n) == SubSeq(s, n + 1, Len(s))

(* What recv() may return of the bytes in a socket, into a buffer of size  *)
(* limit: all it can, or less.                                             *)
Received(s, limit) ==
  {n \in 1 .. limit : n <= Len(s) /\ (n \in Pieces \/ n = Len(s) \/ n = limit)}

SessionInit ==
  /\ to_broker = [c \in Conns |-> <<>>] /\ to_client = [c \in Conns |-> <<>>]
  /\ pc = [c \in Conns |-> IF client_open[c] THEN "recv" ELSE "closed"]
  /\ recv_buffer = [c \in Conns |-> <<>>]
  /\ protocol_type = [c \in Conns |-> "UNKNOWN"]
  /\ client_id = [c \in Conns |-> <<>>]
  /\ sequence = [c \in Conns |-> 0]
  /\ idle = [c \in Conns |-> 0] /\ current = [c \in Conns |-> <<>>]
  /\ subscribers = {} /\ acks = {} /\ db_msgs = <<>> /\ db_last = 0
  /\ handled = [c \in Conns |-> <<>>] /\ delivered = [c \in Conns |-> <<>>]
  /\ dropped = [c \in Conns |-> "no"] /\ reset = [c \in Conns |-> FALSE]

----------------------------------------------------------------------------
(* Session::run, up to the parse loops. *)
detectProtocol(buffer) ==
  CASE buffer[1] \in {RP!Plus, RP!Minus, RP!Colon, RP!Dollar, RP!Star} -> "RESP"
    [] buffer[1] = BP!BINARY_PROTOCOL_VERSION -> "BINARY"
    [] OTHER -> "UNKNOWN"

(* What goes to the socket of each connection: nothing, for one that the   *)
(* client has closed (send() fails, and Session::send gives up).  That the *)
(* failing send() may instead end the process, by SIGPIPE, is the subject  *)
(* of module BrokerProcess; here the process goes on.                      *)
Write(bytes) ==
  to_client' = [d \in Conns |-> IF client_open[d] THEN to_client[d] \o bytes[d] ELSE to_client[d]]

Only(c, bytes) == [d \in Conns |-> IF d = c THEN bytes ELSE <<>>]

Close(c, why) ==
  /\ pc' = [pc EXCEPT ![c] = "finish"]
  /\ dropped' = [dropped EXCEPT ![c] = why]

Fits(c, n) == Len(recv_buffer[c]) + n <= MAX_RECV_BUFFER

RecvData(c, n) ==
  LET buffer == recv_buffer[c] \o SubSeq(to_broker[c], 1, n)
      proto  == IF protocol_type[c] = "UNKNOWN" THEN detectProtocol(buffer) ELSE protocol_type[c]
  IN
  /\ pc[c] = "recv" /\ Fits(c, n)
  /\ to_broker' = [to_broker EXCEPT ![c] = Drop(@, n)]
  /\ idle' = [idle EXCEPT ![c] = 0]
  /\ recv_buffer' = [recv_buffer EXCEPT ![c] = buffer]
  /\ protocol_type' = [protocol_type EXCEPT ![c] = proto]
  /\ pc' = [pc EXCEPT ![c] = IF proto = "UNKNOWN" THEN "recv" ELSE "parse"]
  /\ UNCHANGED <<to_client, client_open, current, brokerVars, handled, dropped, reset>>

RecvTooMuch(c, n) ==
  /\ pc[c] = "recv" /\ ~Fits(c, n)
  /\ to_broker' = [to_broker EXCEPT ![c] = Drop(@, n)]
  /\ idle' = [idle EXCEPT ![c] = 0]
  /\ Write(Only(c, BP!serialize(BP!error(ErrorText))))
  /\ Close(c, "too large")
  /\ UNCHANGED <<client_open, recv_buffer, protocol_type, current, brokerVars, handled, reset>>

IdleTooLong_never(ticks) == FALSE

IdleTooLong(ticks) == ticks >= IDLE_TICKS

(* recv() times out: the idle clock, which only received data resets, may  *)
(* have run out.                                                           *)
RecvTimeout(c) ==
  /\ pc[c] = "recv" /\ to_broker[c] = <<>> /\ client_open[c] /\ idle[c] < IDLE_TICKS
  /\ idle' = [idle EXCEPT ![c] = @ + 1]
  /\ IF IdleTooLong(idle[c] + 1) THEN Close(c, "idle") ELSE UNCHANGED <<pc, dropped>>
  /\ UNCHANGED <<wireVars, recv_buffer, protocol_type, current, brokerVars, handled, reset>>

RecvEnd(c) ==
  /\ pc[c] = "recv" /\ to_broker[c] = <<>> /\ ~client_open[c]
  /\ Close(c, "end")
  /\ UNCHANGED <<wireVars, recv_buffer, protocol_type, idle, current, brokerVars, handled, reset>>

(* The end of run(): removeSession, then close().  Closing a socket that   *)
(* has bytes unread resets the connection, and bytes on their way to the   *)
(* client may be lost.                                                     *)
Ends(c) ==
  /\ pc[c] = "finish" /\ pc' = [pc EXCEPT ![c] = "closed"]
  /\ \/ UNCHANGED <<to_client, reset>>
     \/ /\ to_broker[c] # <<>>
        /\ to_client' = [to_client EXCEPT ![c] = <<>>]
        /\ reset' = [reset EXCEPT ![c] = TRUE]
  /\ UNCHANGED <<to_broker, client_open, recv_buffer, protocol_type, idle, current, client_id,
                 sequence, acks, db_msgs, db_last, delivered, handled, dropped>>

Finish_forgets(c) == Ends(c) /\ UNCHANGED subscribers

Finish(c) == Ends(c) /\ subscribers' = {p \in subscribers : p[2] # c}

----------------------------------------------------------------------------
(* The parse loops. *)
ParseHead(c) == IF protocol_type[c] = "RESP" THEN RP!parse(recv_buffer[c])
                                             ELSE BP!parse(recv_buffer[c])

Take_leaves_one(c, head) == Drop(recv_buffer[c], head.size - 1)

(* The buffer without the bytes of the request that was parsed. *)
Take(c, head) == Drop(recv_buffer[c], head.size)

(* If nothing can be made of the buffer, which may be empty, unfinished or *)
(* unacceptable, it is back to recv().                                     *)
ParseNone(c, head) ==
  /\ pc[c] = "parse" /\ ~head.ok
  /\ pc' = [pc EXCEPT ![c] = "recv"]
  /\ UNCHANGED <<recv_buffer, current>>

ParseRequest(c, head) ==
  /\ pc[c] = "parse" /\ head.ok
  /\ pc' = [pc EXCEPT ![c] = "handle"]
  /\ recv_buffer' = [recv_buffer EXCEPT ![c] = Take(c, head)]
  /\ current' = [current EXCEPT ![c] =
                   <<IF protocol_type[c] = "RESP" THEN head.value ELSE head.frame>>]

ParseStep(c, head) ==
  /\ ParseNone(c, head) \/ ParseRequest(c, head)
  /\ UNCHANGED <<wireVars, protocol_type, idle, brokerVars, handled, dropped, reset>>

Parse(c) == ParseStep(c, ParseHead(c))

(* What a thread does after a request. *)
AfterHandling_recv == "recv"

AfterHandling == "parse"

Handles(c, protocol) ==
  /\ pc[c] = "handle" /\ protocol_type[c] = protocol
  /\ pc' = [pc EXCEPT ![c] = AfterHandling]
  /\ current' = [current EXCEPT ![c] = <<>>]
  /\ handled' = [handled EXCEPT ![c] = @ \o current[c]]
  /\ UNCHANGED <<to_broker, client_open, recv_buffer, protocol_type, idle, dropped, reset>>

Frame(c) == current[c][1]

HandlesFrame(c, commands) == Handles(c, "BINARY") /\ Frame(c).command \in commands

Reply(frame) == BP!serialize(frame)

----------------------------------------------------------------------------
(* The broker's part of the handlers. *)
Subscribed(t) == {p[2] : p \in {q \in subscribers : q[1] = t}}

(* Broker::publish: save, then one pass over the subscribers of the topic  *)
(* and one over those of "#".                                              *)
FanOut(t, item) ==
  [d \in Conns |-> (IF d \in Subscribed(t) THEN <<item>> ELSE <<>>)
                   \o (IF d \in Subscribed(Hash) THEN <<item>> ELSE <<>>)]

Publish(c, t, bytes, what, reply) ==
  LET copies == FanOut(t, bytes) IN
  /\ db_msgs' = save(db_msgs, db_last, t, bytes) /\ db_last' = db_last + 1
  /\ Write([d \in Conns |-> FlattenSeq(copies[d]) \o Only(c, reply)[d]])
  /\ delivered' = [d \in Conns |-> delivered[d] \o
                     (IF client_open[d] THEN FanOut(t, what)[d] ELSE <<>>)]

(* The frames a replay sends: the stored rows of the topic in a range of   *)
(* numbers, without the ones in skip.                                      *)
Replay(t, from, to, skip) ==
  LET rows == {r \in load_range(db_msgs, from, to) : r.topic = t /\ r.seq \notin skip}
      q    == CHOOSE q \in InKeyOrder(rows) : TRUE
  IN  FlattenSeq([i \in DOMAIN q |-> q[i].payload])

AckedBy(id) == {a[2] : a \in {b \in acks : b[1] = id}}

(* replayMessagesForClient: what follows the client's last ack. *)
ReplayForClient(t, id) ==
  LET last_ack == Max(AckedBy(id) \cup {0}) IN
  Replay(t, last_ack + 1, last_ack + MAX_STORED_MESSAGES, AckedBy(id))

----------------------------------------------------------------------------
(* Session::handleBinaryFrame. *)
HandleSubscribe(c) ==
  LET f   == Frame(c)
      sep == SelectInSeq(f.topic, LAMBDA b : b = 0)
      id  == SubSeq(f.topic, 1, sep - 1)
      t   == Drop(f.topic, sep)
  IN
  /\ HandlesFrame(c, {BP!CMD_SUBSCRIBE})
  /\ subscribers' = subscribers \cup {<<t, c>>}
  /\ client_id' = IF sep = 0 THEN client_id ELSE [client_id EXCEPT ![c] = id]
  /\ Write(Only(c, Replay(t, 0, MAX_STORED_MESSAGES, {}) \o (IF sep = 0 THEN <<>> ELSE ReplayForClient(t, id))
                   \o Reply(BP!ack(f.sequence))))
  /\ UNCHANGED <<sequence, acks, db_msgs, db_last, delivered>>

HandleUnsubscribe(c) ==
  /\ HandlesFrame(c, {BP!CMD_UNSUBSCRIBE})
  /\ subscribers' = subscribers \ {<<Frame(c).topic, c>>}
  /\ Write(Only(c, Reply(BP!ack(Frame(c).sequence))))
  /\ UNCHANGED <<client_id, sequence, acks, db_msgs, db_last, delivered>>

IsSecure(t) == t # <<>> /\ t[1] = SECURE

(* What subscribers are sent for a publish, and the record of it. *)
Accept(c, f, msg) ==
  /\ sequence' = [sequence EXCEPT ![c] = @ + 1]
  /\ Publish(c, f.topic, BP!serialize(msg), [proto |-> "BINARY", frame |-> msg],
             Reply(BP!ack(f.sequence)))
  /\ UNCHANGED <<client_id, subscribers, acks>>

Refuse(c) ==
  /\ Write(Only(c, Reply(BP!error(ErrorText))))
  /\ UNCHANGED brokerVars

HandlePublish(c) ==
  LET f == Frame(c) IN
  /\ HandlesFrame(c, {BP!CMD_PUBLISH})
  /\ IF IsSecure(f.topic)
       THEN Refuse(c)
       ELSE Accept(c, f, BP!message(f.topic, f.payload, sequence[c] + 1))

(* Whether the key store accepts the signature and the topic is the        *)
(* subject of module KeyStore.                                             *)
HandleSignedPublish(c) ==
  LET f == Frame(c) IN
  /\ HandlesFrame(c, {BP!CMD_SIGNED_PUBLISH})
  /\ \/ Refuse(c)
     \/ Accept(c, f, BP!signed_message(f.topic, f.payload, f.signature, f.key_id, sequence[c] + 1))

HandlePing(c) ==
  /\ HandlesFrame(c, {BP!CMD_PING})
  /\ Write(Only(c, Reply(BP!pong)))
  /\ UNCHANGED brokerVars

(* An ack is recorded for a client with an id, and never answered. *)
HandleAck(c) ==
  /\ HandlesFrame(c, {BP!CMD_ACK})
  /\ acks' = acks \cup (IF client_id[c] = <<>> THEN {} ELSE {<<client_id[c], Frame(c).sequence>>})
  /\ UNCHANGED <<to_client, client_id, sequence, subscribers, db_msgs, db_last, delivered>>

HandleOther(c) ==
  /\ HandlesFrame(c, 0..255 \ {BP!CMD_SUBSCRIBE, BP!CMD_UNSUBSCRIBE, BP!CMD_PUBLISH, BP!CMD_PING,
                            BP!CMD_ACK, BP!CMD_SIGNED_PUBLISH})
  /\ IF Frame(c).command = BP!CMD_SIGNED_MESSAGE THEN UNCHANGED to_client
     ELSE Write(Only(c, Reply(BP!error(ErrorText))))
  /\ UNCHANGED brokerVars

HandleBinaryFrame(c) ==
  \/ HandleSubscribe(c) \/ HandleUnsubscribe(c) \/ HandlePublish(c) \/ HandleSignedPublish(c)
  \/ HandlePing(c) \/ HandleAck(c) \/ HandleOther(c)

----------------------------------------------------------------------------
(* Session::handleCommand. *)
Command(c) == current[c][1]
Args(c)    == RP!asArray(Command(c))
Arg(c, i)  == RP!asString(Args(c)[i])

IsCommand(c, word) ==
  /\ RP!isArray(Command(c)) /\ Args(c) # <<>>
  /\ toupper(Arg(c, 1)) = word

ReplyResp(c, v) == Write(Only(c, RP!serialize(v)))
RespError(c)    == ReplyResp(c, RP!error(ErrorText)) /\ UNCHANGED brokerVars

(* A SUBSCRIBE or UNSUBSCRIBE takes any number of topics, and confirms     *)
(* each of them.                                                           *)
Topics(c) == [i \in 1 .. Len(Args(c)) - 1 |-> Arg(c, i + 1)]

Confirmation(word, t, n) ==
  RP!serialize(RP!array(<<RP!bulkString(word), RP!bulkString(t), RP!integer(n)>>))

HandleRespSubscribe(c) ==
  LET ts == Topics(c) IN
  /\ Handles(c, "RESP") /\ IsCommand(c, SUBSCRIBE)
  /\ subscribers' = subscribers \cup {<<ts[i], c>> : i \in DOMAIN ts}
  /\ Write(Only(c, FlattenSeq([i \in DOMAIN ts |->
             Replay(ts[i], 0, MAX_STORED_MESSAGES, {}) \o Confirmation(Joined, ts[i], i)])))
  /\ UNCHANGED <<client_id, sequence, acks, db_msgs, db_last, delivered>>

HandleRespUnsubscribe(c) ==
  LET ts == Topics(c) IN
  /\ Handles(c, "RESP") /\ IsCommand(c, UNSUBSCRIBE)
  /\ subscribers' = subscribers \ {<<ts[i], c>> : i \in DOMAIN ts}
  /\ Write(Only(c, FlattenSeq([i \in DOMAIN ts |-> Confirmation(Left, ts[i], 0)])))
  /\ UNCHANGED <<client_id, sequence, acks, db_msgs, db_last, delivered>>

HandleRespPublish(c) ==
  /\ Handles(c, "RESP") /\ IsCommand(c, PUBLISH)
  /\ IF Len(Args(c)) # 3 THEN RespError(c)
     ELSE LET msg == RP!array(<<RP!bulkString(Message), RP!bulkString(Arg(c, 2)),
                                RP!bulkString(Arg(c, 3))>>)
          IN  /\ Publish(c, Arg(c, 2), RP!serialize(msg), [proto |-> "RESP", value |-> msg],
                         RP!serialize(RP!integer(1)))
              /\ UNCHANGED <<client_id, sequence, subscribers, acks>>

HandleRespPing(c) ==
  /\ Handles(c, "RESP") /\ IsCommand(c, PING)
  /\ ReplyResp(c, IF Len(Args(c)) > 1 THEN RP!bulkString(Arg(c, 2)) ELSE RP!simpleString(PONG))
  /\ UNCHANGED brokerVars

(* No RESP command gives a session a client id, so the ack is recorded     *)
(* nowhere; the answer is "OK" all the same.                               *)
HandleRespAck(c) ==
  /\ Handles(c, "RESP") /\ IsCommand(c, ACK)
  /\ IF Len(Args(c)) # 2 THEN RespError(c)
     ELSE /\ acks' = acks \cup (IF client_id[c] = <<>> THEN {}
                                ELSE {<<client_id[c], RP!asInteger(Args(c)[2])>>})
          /\ ReplyResp(c, RP!simpleString(OK))
          /\ UNCHANGED <<client_id, sequence, subscribers, db_msgs, db_last, delivered>>

(* Not an array, an empty one, or an unknown word. *)
HandleRespOther(c) ==
  /\ Handles(c, "RESP")
  /\ \A word \in {SUBSCRIBE, UNSUBSCRIBE, PUBLISH, PING, ACK} : ~IsCommand(c, word)
  /\ RespError(c)

HandleCommand(c) ==
  \/ HandleRespSubscribe(c) \/ HandleRespUnsubscribe(c) \/ HandleRespPublish(c)
  \/ HandleRespPing(c) \/ HandleRespAck(c) \/ HandleRespOther(c)

----------------------------------------------------------------------------
(* Everything a session thread does without waiting for time to pass. *)
ThreadStep(c) ==
  \/ \E n \in Received(to_broker[c], RECV_SIZE) : RecvData(c, n) \/ RecvTooMuch(c, n)
  \/ RecvEnd(c) \/ Parse(c) \/ HandleBinaryFrame(c) \/ HandleCommand(c) \/ Finish(c)

SessionStep(c) == ThreadStep(c) \/ RecvTimeout(c)
============================================================================
