------------------------------ MODULE MCBroker ------------------------------
(* Constants for TLC. *)
EXTENDS BrokerProperties, TLC

CONSTANTS alpha, hash, empty_segment, c1

MCNames == {alpha, hash, c1}
Hash == <<hash>>
EmptyId == <<empty_segment>>

OneTopic == {<<alpha>>}
TopicAndWildcard == {<<alpha>>, Hash}
(* The second topic is what load_range makes of a stored binary message of *)
(* the first one, up to its first zero byte.                               *)
TopicAndPrefix == {<<alpha>>, <<alpha, Header>>}

NoClients == {}
OneClient == {<<c1>>}
(* The second id is the first, a colon and a number. *)
NestedClients == {<<c1>>, <<c1, 2>>}

(* Sessions are interchangeable when all speak the same protocol. *)
SessionSymmetry == Permutations(Sessions)
============================================================================
