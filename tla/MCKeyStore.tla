---------------------------- MODULE MCKeyStore ----------------------------
(* Three key ids, so that the counter overflows after two registrations, a  *)
(* prefix scope and an exact one, and a topic for each.  No more than two   *)
(* ids are in use at a time; after an overflow that is enough for the       *)
(* counter to meet one of them again.                                       *)
EXTENDS KeyStore, FiniteSets

MCPublicKeys == {<<0, 159>>, <<10, 255>>}
MCScopes == {<<"s", "*">>, <<"x">>}
MCTopics == {<<"s", "t">>, <<"x">>}

MaxRegistered == 2
FewRegistered == Cardinality(Registered) <= MaxRegistered
=============================================================================
