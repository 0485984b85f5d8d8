------------------------------ MODULE MCProcess -----------------------------
(* Constants for TLC: two sessions that publish, of which one subscribes. *)
EXTENDS BrokerProcess, TLC

CONSTANTS s1, s2

ProcessRequests == (s1 :> <<"publish">> @@ s2 :> <<"subscribe", "publish">>)
============================================================================
