--------------------------- MODULE ClientLibrary ----------------------------
(***************************************************************************)
(* The clients of the repository, each on its connection to a Session:     *)
(* BinaryPublisher and BinarySubscriber (src/src/binary_pubsub.cpp),       *)
(* Publisher and Subscriber (src/src/pubsub.cpp), QueueProducer and        *)
(* QueueConsumer (src/src/queue.cpp), the ESP32 sketch of the Wokwi demo,  *)
(* and a client of somebody else that writes several requests at a time    *)
(* and reads no replies.                                                   *)
(*                                                                         *)
(* A program is the sequence of calls it makes on one client object.       *)
(***************************************************************************)
EXTENDS Session

CONSTANTS
  Programs,         \* for each connection: the calls, whether it may be refused,
                    \* and whether its client may die
  REPLY_SIZE        \* the buffer in which a publisher reads a reply

VARIABLES
  calls,            \* the calls a client has still to make
  cl_pc, cl_sequence, cl_buffer, cl_mode, auto_ack, to_ack,
  mortal,           \* the clients that may die
  lossy,            \* the connection was reset: bytes to the broker may be lost
  \* history: requests written while the broker served, messages given to the callback, and whether a
  \* reply was read in part
  written, callbacks, split

clientVars == <<calls, cl_pc, cl_sequence, cl_buffer, cl_mode, auto_ack, to_ack, mortal, lossy,
                written, callbacks, split>>
vars == <<sessionVars, clientVars>>

QUEUE == 113       \* "q:"

----------------------------------------------------------------------------
(* The constructors connect; when that fails, sock_ is -1 for good. *)
Init ==
  /\ \E program \in Programs :
       /\ calls = [c \in Conns |-> program[c].calls]
       /\ mortal = {c \in Conns : program[c].mortal}
       /\ \E refused \in SUBSET {c \in Conns : program[c].refusable} :
            client_open = [c \in Conns |-> c \notin refused /\ calls[c] # <<>>]
  /\ SessionInit
  /\ cl_pc = [c \in Conns |-> "idle"]
  /\ cl_sequence = [c \in Conns |-> 0]
  /\ cl_buffer = [c \in Conns |-> <<>>]
  /\ cl_mode = [c \in Conns |-> "none"]
  /\ auto_ack = [c \in Conns |-> FALSE]
  /\ to_ack = [c \in Conns |-> 0]
  /\ lossy = [c \in Conns |-> FALSE]
  /\ written = [c \in Conns |-> <<>>]
  /\ callbacks = [c \in Conns |-> <<>>]
  /\ split = [c \in Conns |-> FALSE]

(* The broker serves the connection. *)
Served(c) == pc[c] \in {"recv", "parse", "handle"}

(* ::send.  Into a connection that the broker has closed it writes nothing, *)
(* and into one it is about to close nothing it will read.                  *)
Sends(c, bytes, requests) ==
  /\ to_broker' = [to_broker EXCEPT ![c] = IF pc[c] = "closed" THEN @ ELSE @ \o bytes]
  /\ written' = [written EXCEPT ![c] = IF Served(c) THEN @ \o requests ELSE @]

(* The client's next call is op, and it has a socket. *)
Makes(c, op) ==
  /\ cl_pc[c] = "idle" /\ client_open[c]
  /\ calls[c] # <<>> /\ calls[c][1].op = op
  /\ calls' = [calls EXCEPT ![c] = Tail(@)]

(* A call without a socket returns at once; so does the sketch's, which    *)
(* asks first whether the connection is up.                                *)
CallUnconnected(c) ==
  /\ cl_pc[c] = "idle" /\ calls[c] # <<>>
  /\ ~client_open[c] \/ (calls[c][1].op = "sendBinaryPublish" /\ pc[c] = "closed")
  /\ calls' = [calls EXCEPT ![c] = Tail(@)]
  /\ UNCHANGED <<sessionVars, cl_pc, cl_sequence, cl_buffer, cl_mode, auto_ack, to_ack, mortal, lossy,
                 written, callbacks, split>>

----------------------------------------------------------------------------
(* Publishers: one request, then one recv() for the reply. *)
Awaits(c, bytes, request) ==
  /\ Sends(c, bytes, <<request>>)
  /\ cl_pc' = [cl_pc EXCEPT ![c] = "waiting"]
  /\ cl_mode' = [cl_mode EXCEPT ![c] = "publish"]
  /\ UNCHANGED <<to_client, client_open, threadVars, brokerVars, handled, dropped, reset, cl_buffer,
                 auto_ack, to_ack, mortal, lossy, callbacks, split>>

Request(c, frame) ==
  /\ cl_sequence' = [cl_sequence EXCEPT ![c] = @ + 1]
  /\ Awaits(c, BP!serialize(frame), frame)

BinaryPublisherSend(c) ==
  LET call == calls[c][1] IN
  /\ Makes(c, "send")
  /\ Request(c, BP!publish(call.topic, call.payload, cl_sequence[c] + 1))

(* The signature stands for what crypto::sign computes. *)
BinaryPublisherSendSigned(c) ==
  LET call == calls[c][1] IN
  /\ Makes(c, "sendSigned")
  /\ Request(c, BP!signed_publish(call.topic, call.payload, call.signature, call.key_id,
                                  cl_sequence[c] + 1))

QueueProducerPush(c) ==
  LET call == calls[c][1] IN
  /\ Makes(c, "push")
  /\ Request(c, BP!publish(<<QUEUE>> \o call.topic, call.payload, cl_sequence[c] + 1))

PublisherSend(c) ==
  LET call == calls[c][1]
      cmd  == RP!makeArray(<<PUBLISH, call.topic, call.payload>>)
  IN
  /\ Makes(c, "sendResp")
  /\ Awaits(c, RP!serialize(cmd), cmd)
  /\ UNCHANGED cl_sequence

(* The reply is parsed and forgotten, whole or not. *)
IsWhole(bytes, head) == head.ok /\ head.size = Len(bytes)

IsWholeReply(bytes) ==
  IF bytes[1] = BP!BINARY_PROTOCOL_VERSION THEN IsWhole(bytes, BP!parse(bytes))
                                           ELSE IsWhole(bytes, RP!parse(bytes))

RecvReply(c, n) ==
  /\ cl_pc[c] = "waiting"
  /\ to_client' = [to_client EXCEPT ![c] = Drop(@, n)]
  /\ cl_pc' = [cl_pc EXCEPT ![c] = "idle"]
  /\ split' = [split EXCEPT ![c] = @ \/ ~IsWholeReply(SubSeq(to_client[c], 1, n))]
  /\ UNCHANGED <<to_broker, client_open, threadVars, brokerVars, handled, dropped, reset, calls,
                 cl_sequence, cl_buffer, cl_mode, auto_ack, to_ack, mortal, lossy, written,
                 callbacks>>

(* With a timeout that the code does not set. *)
RecvNoReply_timeout(c) ==
  /\ cl_pc[c] = "waiting" /\ to_client[c] = <<>>
  /\ cl_pc' = [cl_pc EXCEPT ![c] = "idle"]
  /\ UNCHANGED <<sessionVars, calls, cl_sequence, cl_buffer, cl_mode, auto_ack, to_ack, mortal,
                 lossy, written, callbacks, split>>

(* recv() returns 0 or fails: the call returns as if all were well. *)
RecvNoReply(c) ==
  /\ cl_pc[c] = "waiting" /\ to_client[c] = <<>> /\ pc[c] = "closed"
  /\ cl_pc' = [cl_pc EXCEPT ![c] = "idle"]
  /\ UNCHANGED <<sessionVars, calls, cl_sequence, cl_buffer, cl_mode, auto_ack, to_ack, mortal, lossy,
                 written, callbacks, split>>

----------------------------------------------------------------------------
(* Subscribers: one request, then a receive loop that ends with the        *)
(* connection.                                                             *)
Listens(c, mode, bytes, requests) ==
  /\ Sends(c, bytes, requests)
  /\ cl_mode' = [cl_mode EXCEPT ![c] = mode]
  /\ cl_pc' = [cl_pc EXCEPT ![c] = "receiving"]
  /\ cl_buffer' = [cl_buffer EXCEPT ![c] = <<>>]
  /\ UNCHANGED <<to_client, client_open, threadVars, brokerVars, handled, dropped, reset, to_ack,
                 mortal, lossy, callbacks, split>>

ListensBinary(c, mode, frame) ==
  /\ cl_sequence' = [cl_sequence EXCEPT ![c] = @ + 1]
  /\ Listens(c, mode, BP!serialize(frame), <<frame>>)

(* The topic of a SUBSCRIBE frame: "client_id\0topic" for a client with an id. *)
SubscribeTopic(call) == IF call.id = <<>> THEN call.topic ELSE call.id \o <<0>> \o call.topic

BinarySubscriberSubscribe(c) ==
  LET call == calls[c][1] IN
  /\ Makes(c, "subscribe")
  /\ auto_ack' = [auto_ack EXCEPT ![c] = call.auto_ack]
  /\ ListensBinary(c, "subscribe", BP!subscribe(SubscribeTopic(call), cl_sequence[c] + 1))

BinarySubscriberSubscribeSigned(c) ==
  LET call == calls[c][1] IN
  /\ Makes(c, "subscribeSigned")
  /\ auto_ack' = [auto_ack EXCEPT ![c] = call.auto_ack]
  /\ ListensBinary(c, "subscribeSigned", BP!subscribe(SubscribeTopic(call), cl_sequence[c] + 1))

(* The receive loops that only print. *)
RunsLoop(c, op, mode) ==
  /\ Makes(c, op)
  /\ Listens(c, mode, <<>>, <<>>)
  /\ UNCHANGED <<cl_sequence, auto_ack>>

BinarySubscriberRun(c) == RunsLoop(c, "run", "run")
QueueConsumerRun(c)    == RunsLoop(c, "runQueue", "run")
SubscriberRun(c)       == RunsLoop(c, "runResp", "runResp")

QueueConsumerPull(c) ==
  /\ Makes(c, "pull")
  /\ ListensBinary(c, "pull", BP!subscribe(<<QUEUE>> \o calls[c][1].topic, cl_sequence[c] + 1))
  /\ UNCHANGED auto_ack

SubscriberSubscribe(c) ==
  LET cmd == RP!makeArray(<<SUBSCRIBE, calls[c][1].topic>>) IN
  /\ Makes(c, "subscribeResp")
  /\ Listens(c, "subscribeResp", RP!serialize(cmd), <<cmd>>)
  /\ UNCHANGED <<cl_sequence, auto_ack>>

ClientHead(c) == IF cl_mode[c] \in {"subscribeResp", "runResp"} THEN RP!parse(cl_buffer[c])
                                                               ELSE BP!parse(cl_buffer[c])

Receive(c, n) ==
  /\ cl_pc[c] = "receiving" /\ ~ClientHead(c).ok
  /\ cl_buffer' = [cl_buffer EXCEPT ![c] = @ \o SubSeq(to_client[c], 1, n)]
  /\ to_client' = [to_client EXCEPT ![c] = Drop(@, n)]
  /\ UNCHANGED <<to_broker, client_open, threadVars, brokerVars, handled, dropped, reset, calls,
                 cl_pc, cl_sequence, cl_mode, auto_ack, to_ack, mortal, lossy, written, callbacks,
                 split>>

(* The messages of which a receive loop tells its callback, and what of    *)
(* them.                                                                   *)
IsMessage_any(f) == TRUE

IsMessage_unsigned(f) == f.command = BP!CMD_MESSAGE

IsMessage(f) == f.command \in {BP!CMD_MESSAGE, BP!CMD_SIGNED_MESSAGE}

ForCallback(mode, head) ==
  CASE mode = "subscribeResp" ->
         LET v == head.value IN
         RP!isArray(v) /\ Len(RP!asArray(v)) >= 3 /\ RP!asString(RP!asArray(v)[1]) = Message
    [] mode = "pull" ->
         LET f == head.frame IN
         f.command = BP!CMD_MESSAGE /\ f.topic # <<>> /\ f.topic[1] = QUEUE
    [] mode \in {"subscribe", "subscribeSigned"} -> IsMessage(head.frame)
    [] mode \in {"run", "runResp"} -> FALSE

Content(mode, head) ==
  CASE mode = "subscribeResp"   -> [topic   |-> RP!asString(RP!asArray(head.value)[2]),
                                    payload |-> RP!asString(RP!asArray(head.value)[3])]
    [] mode = "subscribe"       -> [topic |-> head.frame.topic, payload |-> head.frame.payload]
    [] mode = "subscribeSigned" -> [head.frame EXCEPT !.command = 0]
    [] mode = "pull"            -> [payload |-> head.frame.payload]

(* One round of the parse loop.  The ack follows the callback. *)
Dispatched(c, head) ==
  /\ cl_pc[c] = "receiving" /\ head.ok
  /\ cl_buffer' = [cl_buffer EXCEPT ![c] = Drop(@, head.size)]
  /\ IF ForCallback(cl_mode[c], head)
       THEN /\ callbacks' = [callbacks EXCEPT ![c] = Append(@, Content(cl_mode[c], head))]
            /\ cl_pc' = [cl_pc EXCEPT ![c] = IF auto_ack[c] THEN "acking" ELSE @]
            /\ to_ack' = [to_ack EXCEPT ![c] = IF auto_ack[c] THEN head.frame.sequence ELSE @]
       ELSE UNCHANGED <<callbacks, cl_pc, to_ack>>
  /\ UNCHANGED <<sessionVars, calls, cl_sequence, cl_mode, auto_ack, mortal, lossy, written,
                 split>>

Dispatch(c) == Dispatched(c, ClientHead(c))

Acks(c, number) ==
  LET frame == BP!ack(number) IN
  /\ cl_pc[c] = "acking"
  /\ Sends(c, BP!serialize(frame), <<frame>>)
  /\ cl_pc' = [cl_pc EXCEPT ![c] = "receiving"]
  /\ UNCHANGED <<to_client, client_open, threadVars, brokerVars, handled, dropped, reset, calls,
                 cl_sequence, cl_buffer, cl_mode, auto_ack, to_ack, mortal, lossy, callbacks, split>>

BinarySubscriberSendAck_own(c) == Acks(c, cl_sequence[c])

BinarySubscriberSendAck(c) == Acks(c, to_ack[c])

ConnectionClosed(c) ==
  /\ cl_pc[c] = "receiving" /\ ~ClientHead(c).ok /\ to_client[c] = <<>> /\ pc[c] = "closed"
  /\ cl_pc' = [cl_pc EXCEPT ![c] = "idle"]
  /\ UNCHANGED <<sessionVars, calls, cl_sequence, cl_buffer, cl_mode, auto_ack, to_ack, mortal, lossy,
                 written, callbacks, split>>

----------------------------------------------------------------------------
(* The sketch.  Its frame has the topic length right after the command and *)
(* the payload length after the topic, and no sequence number.             *)
SketchFrame(t, body) ==
  <<BP!BINARY_PROTOCOL_VERSION, BP!CMD_PUBLISH>>
  \o BP!writeUint(TopicWidth, Len(t)) \o t \o BP!writeUint(PayloadWidth, Len(body)) \o body

WritesOnly(c, bytes, requests) ==
  /\ Sends(c, bytes, requests)
  /\ UNCHANGED <<to_client, client_open, threadVars, brokerVars, handled, dropped, reset, cl_pc,
                 cl_sequence, cl_buffer, cl_mode, auto_ack, to_ack, mortal, lossy, callbacks,
                 split>>

(* loop() at a publishing interval.  A new connection, after this one has  *)
(* ended, is a connection of its own.                                      *)
SendBinaryPublish(c) ==
  LET call == calls[c][1] IN
  /\ Makes(c, "sendBinaryPublish") /\ pc[c] # "closed"
  /\ WritesOnly(c, SketchFrame(call.topic, call.payload),
                <<[sketch |-> call.topic, payload |-> call.payload]>>)

(* Subscriber::sendAck.  The number goes out as a bulk string; the answer  *)
(* is left to whatever receive loop comes next.                            *)
SubscriberSendAck(c) ==
  LET cmd == RP!makeArray(<<ACK, RP!Decimal(calls[c][1].number)>>) IN
  /\ Makes(c, "ackResp")
  /\ WritesOnly(c, RP!serialize(cmd), <<cmd>>)

(* Another client: it writes requests, several at a time if it likes. *)
RawWrite(c) ==
  /\ Makes(c, "raw")
  /\ WritesOnly(c, calls[c][1].bytes, calls[c][1].requests)

----------------------------------------------------------------------------
Unanswered(c) == to_client[c] # <<>> \/ Len(handled[c]) < Len(written[c])

(* The destructors close the socket.  If there are replies unread, or yet  *)
(* to come, the connection is reset.                                       *)
Destroy(c) ==
  /\ cl_pc[c] = "idle" /\ calls[c] = <<>> /\ client_open[c]
  /\ client_open' = [client_open EXCEPT ![c] = FALSE]
  /\ to_client' = [to_client EXCEPT ![c] = <<>>]
  /\ lossy' = [lossy EXCEPT ![c] = pc[c] # "closed" /\ Unanswered(c)]
  /\ UNCHANGED <<to_broker, threadVars, brokerVars, handled, dropped, reset, calls, cl_pc, cl_sequence,
                 cl_buffer, cl_mode, auto_ack, to_ack, mortal, written, callbacks, split>>

(* The client process dies in the middle of anything. *)
Vanish(c) ==
  /\ c \in mortal /\ client_open[c] /\ cl_pc[c] # "gone"
  /\ client_open' = [client_open EXCEPT ![c] = FALSE]
  /\ to_client' = [to_client EXCEPT ![c] = <<>>]
  /\ lossy' = [lossy EXCEPT ![c] = TRUE]
  /\ cl_pc' = [cl_pc EXCEPT ![c] = "gone"]
  /\ UNCHANGED <<to_broker, threadVars, brokerVars, handled, dropped, reset, calls, cl_sequence,
                 cl_buffer, cl_mode, auto_ack, to_ack, mortal, written, callbacks, split>>

(* Of a connection that is reset, any part that is still on its way to the *)
(* broker may be lost.                                                     *)
Lose(c) ==
  /\ lossy[c] /\ to_broker[c] # <<>>
  /\ \E n \in 0 .. Len(to_broker[c]) - 1 :
       to_broker' = [to_broker EXCEPT ![c] = SubSeq(@, 1, n)]
  /\ UNCHANGED <<to_client, client_open, threadVars, brokerVars, handled, dropped, reset, clientVars>>

ClientStep(c) ==
  \/ BinaryPublisherSend(c) \/ BinaryPublisherSendSigned(c) \/ QueueProducerPush(c)
  \/ PublisherSend(c) \/ RecvNoReply(c)
  \/ \E n \in Received(to_client[c], REPLY_SIZE) : RecvReply(c, n)
  \/ BinarySubscriberSubscribe(c) \/ BinarySubscriberSubscribeSigned(c) \/ BinarySubscriberRun(c)
  \/ QueueConsumerPull(c) \/ QueueConsumerRun(c)
  \/ SubscriberSubscribe(c) \/ SubscriberRun(c) \/ SubscriberSendAck(c)
  \/ \E n \in Received(to_client[c], RECV_SIZE) : Receive(c, n)
  \/ Dispatch(c) \/ BinarySubscriberSendAck(c) \/ ConnectionClosed(c)
  \/ SendBinaryPublish(c) \/ RawWrite(c) \/ CallUnconnected(c) \/ Destroy(c)

SessionThread(c) == SessionStep(c) /\ UNCHANGED clientVars

Next == \E c \in Conns : ClientStep(c) \/ SessionThread(c) \/ Vanish(c) \/ Lose(c)

(* Fairness.  A session thread can take a step until it has ended, since   *)
(* recv() returns with data or after its timeout; a client's, when it has  *)
(* a call to make or what it waits for is there.  The operating system     *)
(* lets a thread that can take a step take it.  (Each conjunct is the weak *)
(* fairness of a thread, with ENABLED written out: in a thread that can    *)
(* step nothing but its own steps, or its death, changes that.)            *)
ClientCanStep(c) ==
  \/ cl_pc[c] = "idle" /\ (calls[c] # <<>> \/ client_open[c])
  \/ cl_pc[c] = "waiting" /\ (to_client[c] # <<>> \/ pc[c] = "closed")
  \/ cl_pc[c] = "receiving" /\ (ClientHead(c).ok \/ to_client[c] # <<>> \/ pc[c] = "closed")
  \/ cl_pc[c] = "acking"

ThreadCanStep(c) ==
  \/ pc[c] \in {"parse", "handle", "finish"}
  \/ pc[c] = "recv" /\ (to_broker[c] # <<>> \/ ~client_open[c] \/ idle[c] < IDLE_TICKS)

ThreadMoves(c) == <<pc[c], recv_buffer[c], idle[c]>>' # <<pc[c], recv_buffer[c], idle[c]>>
ClientMoves(c) == <<cl_pc[c], cl_buffer[c], calls[c], client_open[c]>>'
                    # <<cl_pc[c], cl_buffer[c], calls[c], client_open[c]>>

Fairness ==
  \A c \in Conns : /\ []<>(~ThreadCanStep(c)) \/ []<><<ThreadMoves(c)>>_vars
                   /\ []<>(~ClientCanStep(c)) \/ []<><<ClientMoves(c)>>_vars

Spec == Init /\ [][Next]_vars /\ Fairness
============================================================================
