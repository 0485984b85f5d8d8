-------------------------- MODULE ClientProperties --------------------------
(* What the clients of module ClientLibrary can rely on, and what the      *)
(* documentation says they can.                                            *)
EXTENDS ClientLibrary

Listening(c) ==
  cl_mode[c] \in {"subscribe", "subscribeSigned", "run", "pull", "subscribeResp", "runResp"}

(* Every variable has its type, and the locals of a thread fit its place. *)
TypeOK ==
  /\ \A c \in Conns :
       /\ pc[c] \in {"recv", "parse", "handle", "finish", "closed"}
       /\ \A s \in {to_broker[c], to_client[c], recv_buffer[c], cl_buffer[c], client_id[c]} :
            \A i \in DOMAIN s : s[i] \in 0..255
       /\ protocol_type[c] \in {"UNKNOWN", "RESP", "BINARY"}
       /\ idle[c] \in 0 .. IDLE_TICKS
       /\ Len(recv_buffer[c]) <= MAX_RECV_BUFFER
       /\ dropped[c] \in {"no", "too large", "idle", "end"}
       /\ cl_pc[c] \in {"idle", "waiting", "receiving", "acking", "gone"}
       /\ pc[c] = "handle" <=> current[c] # <<>>
       /\ pc[c] = "parse" => protocol_type[c] # "UNKNOWN"
       /\ cl_pc[c] \in {"receiving", "acking"} => Listening(c)
       /\ cl_pc[c] = "acking" => auto_ack[c]
  /\ \A p \in subscribers : pc[p[2]] # "closed"
  /\ DOMAIN db_msgs = 1 .. db_last

----------------------------------------------------------------------------
(* Requests.                                                               *)

(* The size on the wire of a request. *)
WireSize(r) == Len(IF "command" \in DOMAIN r THEN BP!serialize(r) ELSE RP!serialize(r))

(* A request that the broker can accept: not the sketch's, within the      *)
(* limits of the frame format, and small enough for the receive buffer.    *)
Acceptable(r) ==
  /\ "sketch" \notin DOMAIN r
  /\ "command" \in DOMAIN r => Len(r.topic) <= MAX_TOPIC_LEN /\ Len(r.payload) <= MAX_PAYLOAD_LEN
  /\ WireSize(r) + RECV_SIZE <= MAX_RECV_BUFFER + 1

Abstract == INSTANCE RequestChannel WITH
  made     <- written,
  served   <- handled,
  open     <- [c \in Conns |-> Served(c)],
  reliable <- [c \in Conns |-> ~lossy[c] /\ \A i \in DOMAIN written[c] : Acceptable(written[c][i])]

(* However the stream is cut into pieces, and with several requests in one *)
(* piece, a session handles exactly the requests that its client wrote, in *)
(* order and as they were before serialization; and it handles every one   *)
(* that was written before it gave up, unless one of them is unacceptable. *)
ImplementsRequestChannel == Abstract!Spec

(* The cap of the receive buffer never ends a connection whose requests    *)
(* are acceptable, however many of them are waiting: what is left over     *)
(* from earlier requests, plus one piece, fits.                            *)
CapSparesRequests ==
  \A c \in Conns : dropped[c] = "too large" =>
    \E i \in DOMAIN written[c] : ~Acceptable(written[c][i])

(* When a publisher's call returns and the connection is up, the broker    *)
(* has handled its request, as long as every reply was read whole: no      *)
(* request has two replies, and none but an ack has none.                  *)
ReturnMeansHandled ==
  \A c \in Conns :
    (cl_pc[c] = "idle" /\ cl_mode[c] = "publish" /\ ~split[c] /\ Served(c))
      => handled[c] = written[c]

(* A publisher's call returns, also when the broker will never accept its  *)
(* request: the idle clock ends the connection at last.                    *)
CallsReturn == []<>(\A c \in Conns : cl_pc[c] # "waiting")

----------------------------------------------------------------------------
(* Messages.                                                               *)

Protocol(c) == IF cl_mode[c] \in {"subscribeResp", "runResp"} THEN "RESP" ELSE "BINARY"

(* What was sent to a subscriber up to the first message in the other      *)
(* protocol.                                                               *)
Readable(c) ==
  LET foreign == SelectInSeq(delivered[c], LAMBDA item : item.proto # Protocol(c))
  IN  IF foreign = 0 THEN delivered[c] ELSE SubSeq(delivered[c], 1, foreign - 1)

(* The messages that the callback is owed.  Those that publish() sent are  *)
(* all of topics that the client subscribed to.                            *)
ToCallback(c) ==
  IF cl_mode[c] \in {"run", "runResp"} THEN <<>>
  ELSE [i \in DOMAIN Readable(c) |-> Content(cl_mode[c], Readable(c)[i])]

(* The callback is given the messages sent to the subscriber, unaltered,   *)
(* in order, none twice and none left out, and not one of those that       *)
(* follow a message in the other protocol.                                 *)
CallbacksInOrder ==
  \A c \in Conns : Listening(c) => IsPrefix(callbacks[c], ToCallback(c))

(* And it is given all of them, also when the broker closes the            *)
(* connection, unless that resets it.                                      *)
AllCalledBack ==
  []<>(\A c \in Conns : (Listening(c) /\ ~reset[c] /\ cl_pc[c] # "gone")
                          => Len(callbacks[c]) = Len(ToCallback(c)))

(* The acks that a session has handled. *)
AcksHandled(c) == SelectSeq(handled[c], LAMBDA r : r.command = BP!CMD_ACK)

(* An ack reaches the broker only for a message whose callback has         *)
(* returned, and the k-th ack is for the k-th message.                     *)
AckFollowsCallback ==
  \A c \in Conns : cl_mode[c] = "subscribeSigned" =>
    LET done == AcksHandled(c) IN
    /\ Len(done) <= Len(callbacks[c])
    /\ \A k \in DOMAIN done : done[k].sequence = callbacks[c][k].sequence

----------------------------------------------------------------------------
(* What the repository's documents say, and the code does not do.  A run   *)
(* refutes the first; README.md says how TLC refutes the others.           *)

(* QUICKSTART.md: a RESP publisher's messages flow through the broker to a *)
(* binary subscriber.  A subscriber that has received all that was sent to *)
(* it, and waits for more, has been called for every message.              *)
MixedProtocolsFlow ==
  \A c \in Conns :
    (cl_pc[c] = "receiving" /\ to_client[c] = <<>> /\ ~ClientHead(c).ok)
      => Len(callbacks[c]) = Len(delivered[c])

(* sketch.ino: the broker receives the sketch's updates.  A session that   *)
(* has read all that its client wrote, and waits for more, has handled     *)
(* something of it.                                                        *)
SketchReceived ==
  \A c \in Conns :
    (pc[c] = "recv" /\ to_broker[c] = <<>> /\ written[c] # <<>>) => handled[c] # <<>>

(* queue.hpp: each task is delivered to exactly one consumer. *)
OneConsumerPerTask ==
  \A c, d \in Conns : c # d =>
    \A i \in DOMAIN callbacks[c], j \in DOMAIN callbacks[d] : callbacks[c][i] # callbacks[d][j]

(* README.md: only crashed or off-network clients are disconnected for     *)
(* being silent.                                                           *)
OnlyCrashedDropped == \A c \in Conns : dropped[c] = "idle" => cl_pc[c] = "gone"
============================================================================
