------------------------------ MODULE MCClients -----------------------------
(* Constants for TLC: programs for two or three connections. *)
EXTENDS ClientProperties

CONSTANTS pub, sub, other

Topic == <<97>>
Id == <<105>>
x == <<120>>
y == <<121>>

Send(t, body)       == [op |-> "send", topic |-> t, payload |-> body]
SendSigned(t, body) == [op |-> "sendSigned", topic |-> t, payload |-> body,
                        signature |-> <<7>>, key_id |-> 3]
Push(t, body)       == [op |-> "push", topic |-> t, payload |-> body]
SendResp(t, body)   == [op |-> "sendResp", topic |-> t, payload |-> body]
Subscribe(t, id)    == [op |-> "subscribe", topic |-> t, id |-> id, auto_ack |-> FALSE]
SubscribeAck(t, id) == [op |-> "subscribeSigned", topic |-> t, id |-> id, auto_ack |-> TRUE]
Pull(t)             == [op |-> "pull", topic |-> t]
SubscribeResp(t)    == [op |-> "subscribeResp", topic |-> t]
AckResp(n)          == [op |-> "ackResp", number |-> n]
RunOnly             == [op |-> "run"]
RunQueue            == [op |-> "runQueue"]
RunResp             == [op |-> "runResp"]

(* Requests written back to back in one piece.  A client that writes some  *)
(* ends with a loop that reads what is there.                              *)
RawFrames(frames)   == [op |-> "raw", requests |-> frames,
                        bytes |-> FlattenSeq([i \in DOMAIN frames |-> BP!serialize(frames[i])])]
RawCommands(values) == [op |-> "raw", requests |-> values,
                        bytes |-> FlattenSeq([i \in DOMAIN values |-> RP!serialize(values[i])])]

Reliable(p) == [calls |-> p, refusable |-> FALSE, mortal |-> FALSE]
Weak(p)     == [calls |-> p, refusable |-> TRUE, mortal |-> TRUE]

Pair(p, q) == [c \in {pub, sub} |-> Reliable(IF c = pub THEN p ELSE q)]

(* A publisher and a subscriber of each kind. *)
BinaryPair == Pair(<<Send(Topic, x), Send(Topic, y)>>, <<SubscribeAck(Topic, Id)>>)
SignedPair == Pair(<<Send(<<SECURE>>, x), SendSigned(Topic, x)>>,
                   <<Subscribe(Hash, <<>>)>>)
RespPair   == Pair(<<SendResp(Topic, x), SendResp(Topic, y)>>, <<SubscribeResp(Topic)>>)
RespAcker  == Pair(<<SendResp(Topic, x)>>, <<AckResp(12), SubscribeResp(Topic)>>)
QueuePair  == Pair(<<Push(Topic, x)>>, <<Pull(Topic)>>)

(* Clients that may fail to connect, and may die. *)
WeakPair   == [c \in {pub, sub} |-> Weak(IF c = pub THEN <<Send(Topic, x)>>
                                            ELSE <<SubscribeAck(Topic, Id)>>)]

(* A RESP publisher and a binary subscriber. *)
MixedPair  == Pair(<<SendResp(Topic, x)>>, <<Subscribe(Topic, <<>>)>>)

(* A topic that is too long, so that the broker never accepts the request. *)
TooLong    == Pair(<<Send(<<97, 97, 97, 97>>, x), Send(Topic, x)>>, <<RunQueue>>)

(* The sketch, and a subscriber of its topic. *)
SketchPair == Pair(<<[op |-> "sendBinaryPublish", topic |-> <<97, 97>>, payload |-> x],
                     [op |-> "sendBinaryPublish", topic |-> <<97, 97>>, payload |-> y]>>,
                   <<Subscribe(<<97, 97>>, <<>>)>>)

(* A request larger than the receive buffer. *)
TooLarge   == Pair(<<SendResp([i \in 1..12 |-> 97], [i \in 1..12 |-> 120]), SendResp(Topic, x)>>, <<>>)

RawBinary ==
  Pair(<<RawFrames(<<BP!ping, BP!subscribe(Topic, 1), BP!publish(Topic, x, 2)>>),
         RawFrames(<<BP!unsubscribe(Topic, 3), BP!pong,
                     BP!signed_message(Topic, x, <<7>>, 3, 4), BP!ack(1)>>), RunOnly>>, <<>>)
RawResp ==
  Pair(<<RawCommands(<<RP!makeArray(<<<<112>>, Topic, x>>), RP!makeArray(<<PUBLISH, Topic>>),
                       RP!makeArray(<<PING>>), RP!makeArray(<<PING, x>>)>>),
         RawCommands(<<RP!makeArray(<<SUBSCRIBE, Topic, Hash>>),
                       RP!makeArray(<<UNSUBSCRIBE, Hash>>)>>), RunResp>>, <<>>)
RawAcks ==
  Pair(<<RawCommands(<<RP!array(<<RP!bulkString(ACK), RP!integer(12)>>), RP!makeArray(<<ACK>>)>>),
         RawCommands(<<RP!null, RP!array(<<>>), RP!makeArray(<<x>>), RP!error(x),
                       RP!simpleString(x)>>), RunResp>>, <<>>)

LinkPrograms == {BinaryPair, SignedPair, RespPair, RespAcker, QueuePair, WeakPair, MixedPair,
                 SketchPair, TooLong, TooLarge, RawBinary, RawResp, RawAcks}
MixedPrograms == {MixedPair}
QueuePrograms == {[c \in {pub, sub, other} |-> Reliable(IF c = pub THEN <<Push(Topic, x)>> ELSE <<Pull(Topic)>>)]}
============================================================================
