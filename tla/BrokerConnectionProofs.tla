----------------------- MODULE BrokerConnectionProofs -----------------------
(***************************************************************************)
(* The Session pointers among the subscribers are alive, and the list of   *)
(* sessions, the connection counter and the cap agree.                     *)
(*                                                                         *)
(* The second is not inductive alone.  What is missing is that the session *)
(* the accept loop is setting up has no thread yet: then no other thread   *)
(* can remove it, and pushing it adds one element to the list.             *)
(***************************************************************************)
EXTENDS BrokerTypeProofs

USE DEF acceptVars, connVars, subVars

(* The session the accept loop is setting up has no thread. *)
AcceptedIsNew == accept_pc # "loop" => accept_fd \in Sessions \ Running

ConnectionInv == AcceptedIsNew /\ NoDanglingSubscriber /\ ConnectionsAccounted

----------------------------------------------------------------------------
(* Steps that neither start nor end a thread.                              *)

(* A running thread goes from one label to another, or stays at its own,   *)
(* and adds at most itself to the subscribers.                             *)
Moves(s) ==
  /\ pc[s] # "none"
  /\ UNCHANGED pc \/ \E l \in Labels \ {"none"} : Goto(s, l)
  /\ UNCHANGED <<acceptVars, connVars>>
  /\ \A t \in Topics : topic_subscribers'[t] \subseteq topic_subscribers[t] \cup {s}

(* Such a step leaves the set of running threads as it is. *)
LEMMA MovesRunning ==
  ASSUME TypeControl, NEW s \in Sessions, Moves(s)
  PROVE  Running' = Running /\ s \in Running
<1>1. CASE UNCHANGED pc
  BY <1>1 DEF Moves, Running
<1>2. ASSUME NEW l \in Labels \ {"none"}, Goto(s, l)
      PROVE  Running' = Running
  BY <1>2 DEF TypeControl, Goto, Running, Moves
<1>3. s \in Running
  BY DEF Moves, Running
<1> QED BY <1>1, <1>2, <1>3 DEF Moves

(* Such a step preserves the invariant. *)
LEMMA MovesKeep ==
  ASSUME TypeControl, ConnectionInv, NEW s \in Sessions, Moves(s)
  PROVE  ConnectionInv'
<1>0. Running' = Running /\ s \in Running
  BY MovesRunning
<1>1. AcceptedIsNew'
  BY <1>0 DEF ConnectionInv, AcceptedIsNew, Moves
<1>2. NoDanglingSubscriber'
  BY <1>0 DEF ConnectionInv, NoDanglingSubscriber, Moves
<1>3. ConnectionsAccounted'
  BY <1>0 DEF ConnectionInv, ConnectionsAccounted, Moves
<1> QED BY <1>1, <1>2, <1>3 DEF ConnectionInv

(* The steps of a subscription are such steps. *)
LEMMA SubscribeMoves ==
  ASSUME TypeControl, NEW s \in Sessions, SubscribeSteps(s)
  PROVE  Moves(s)
<1> USE DEF Moves, Labels
<1>1. ASSUME NEW t \in Topics, ReceiveSubscribe(s, t)  PROVE Moves(s)
  BY <1>1 DEF ReceiveSubscribe
<1>2. ASSUME NEW t \in Topics, NEW c \in ClientIds, ReceiveSubscribeWithId(s, c, t)
      PROVE  Moves(s)
  BY <1>2 DEF ReceiveSubscribeWithId
<1>3. ASSUME RegisterClient(s)  PROVE Moves(s)
  BY <1>3 DEF RegisterClient
<1>4. ASSUME InsertLoadedAck(s)  PROVE Moves(s)
  BY <1>4 DEF InsertLoadedAck
<1>5. ASSUME FinishRegister(s)  PROVE Moves(s)
  BY <1>5 DEF FinishRegister
<1>6. ASSUME Subscribe(s)  PROVE Moves(s)
  BY <1>6 DEF Subscribe, TypeControl
<1>7. ASSUME ReplayLoad(s)  PROVE Moves(s)
  BY <1>7 DEF ReplayLoad
<1>8. ASSUME ReplaySend(s)  PROVE Moves(s)
  BY <1>8 DEF ReplaySend
<1>9. ASSUME ReplayDone(s)  PROVE Moves(s)
  BY <1>9 DEF ReplayDone
<1>10. ASSUME GetLastAck(s)  PROVE Moves(s)
  BY <1>10 DEF GetLastAck
<1>11. ASSUME ClientReplayLoad(s)  PROVE Moves(s)
  BY <1>11 DEF ClientReplayLoad
<1>12. ASSUME ClientReplaySend(s)  PROVE Moves(s)
  BY <1>12 DEF ClientReplaySend
<1>13. ASSUME ClientReplayDone(s)  PROVE Moves(s)
  BY <1>13 DEF ClientReplayDone
<1>14. ASSUME NEW t \in Topics, Unsubscribe(s, t)  PROVE Moves(s)
  BY <1>14 DEF Unsubscribe, TypeControl
<1>15. ASSUME ClientReplayCheck(s)  PROVE Moves(s)
  BY <1>15 DEF ClientReplayCheck, Locked
<1> HIDE DEF Moves
<1> QED
  BY <1>1, <1>2, <1>3, <1>4, <1>5, <1>6, <1>7, <1>8, <1>9, <1>10, <1>11, <1>12, <1>13,
     <1>14, <1>15 DEF SubscribeSteps

(* So are those of a publish, of an ack, and the first ones of a           *)
(* disconnection.                                                          *)
LEMMA OtherMoves ==
  ASSUME NEW s \in Sessions,
         \/ PublishSteps(s) \/ \E q \in AckSeqs : HandleAck(s, q)
         \/ Disconnect(s) \/ UnregisterClient(s)
  PROVE  Moves(s)
<1> USE DEF Moves, Labels
<1>1. ASSUME NEW t \in Topics, Publish(s, t)  PROVE Moves(s)
  BY <1>1 DEF Publish
<1>2. ASSUME CompactMessages(s)  PROVE Moves(s)
  BY <1>2 DEF CompactMessages
<1>3. ASSUME PurgeAcks(s)  PROVE Moves(s)
  BY <1>3 DEF PurgeAcks
<1>4. ASSUME FanOut(s)  PROVE Moves(s)
  BY <1>4 DEF FanOut
<1>5. ASSUME NEW q \in AckSeqs, HandleAck(s, q)  PROVE Moves(s)
  BY <1>5 DEF HandleAck
<1>6. ASSUME Disconnect(s)  PROVE Moves(s)
  BY <1>6 DEF Disconnect
<1>7. ASSUME UnregisterClient(s)  PROVE Moves(s)
  BY <1>7 DEF UnregisterClient
<1> HIDE DEF Moves
<1> QED
  BY <1>1, <1>2, <1>3, <1>4, <1>5, <1>6, <1>7 DEF PublishSteps

----------------------------------------------------------------------------
(* Steps that start or end a thread, or prepare to.                        *)

(* After a crash there is no session, no thread and no subscriber. *)
LEMMA CrashKeeps ==
  ASSUME Crash
  PROVE  ConnectionInv'
<1>1. Running' = {}
  BY DEF Crash, Running
<1>2. AcceptedIsNew'
  BY DEF Crash, AcceptedIsNew
<1>3. NoDanglingSubscriber'
  BY DEF Crash, NoDanglingSubscriber
<1>4. sessions' = {} /\ active_connections' = 0 /\ accept_pc' = "loop"
  BY DEF Crash
<1>5. ConnectionsAccounted'
  BY <1>1, <1>4, FS_EmptySet, BrokerAssumption DEF ConnectionsAccounted
<1> QED BY <1>2, <1>3, <1>5 DEF ConnectionInv

(* The list of sessions is finite. *)
LEMMA SessionsFinite ==
  ASSUME TypeControl
  PROVE  IsFiniteSet(sessions) /\ Cardinality(sessions) \in Nat
BY FS_Subset, FS_CardinalityType, BrokerAssumption DEF TypeControl

(* The cap is checked on a counter that agrees with the list, because the  *)
(* accept loop is the only one to increment it and is not between the two. *)
LEMMA AcceptKeeps ==
  ASSUME TypeControl, ConnectionInv, NEW s \in Sessions, AcceptConnection(s)
  PROVE  ConnectionInv'
<1>0. /\ accept_pc = "loop" /\ accept_pc' = "push" /\ accept_fd' = s
      /\ pc[s] = "none" /\ active_connections < MAX_CONNECTIONS
      /\ UNCHANGED <<pc, sessions, active_connections, topic_subscribers>>
  BY DEF AcceptConnection, BelowCap
<1>1. Running' = Running /\ s \notin Running
  BY <1>0 DEF Running
<1>2. AcceptedIsNew' /\ NoDanglingSubscriber'
  BY <1>0, <1>1 DEF ConnectionInv, AcceptedIsNew, NoDanglingSubscriber
<1>3. ConnectionsAccounted'
  BY <1>0, <1>1, SessionsFinite, BrokerAssumption DEF ConnectionInv, ConnectionsAccounted
<1> QED BY <1>2, <1>3 DEF ConnectionInv

(* The pushed session is new, so the list grows by one. *)
LEMMA PushKeeps ==
  ASSUME TypeControl, ConnectionInv, PushSession
  PROVE  ConnectionInv'
<1>0. /\ accept_pc = "push" /\ accept_pc' = "count"
      /\ sessions' = sessions \cup {accept_fd}
      /\ UNCHANGED <<pc, accept_fd, active_connections, topic_subscribers>>
  BY DEF PushSession
<1>1. Running' = Running
  BY <1>0 DEF Running
<1>2. AcceptedIsNew' /\ NoDanglingSubscriber'
  BY <1>0, <1>1 DEF ConnectionInv, AcceptedIsNew, NoDanglingSubscriber
<1>3. sessions = Running /\ accept_fd \notin Running
  BY <1>0 DEF ConnectionInv, AcceptedIsNew, ConnectionsAccounted
<1>4. Cardinality(sessions') = Cardinality(sessions) + 1
  BY <1>0, <1>3, SessionsFinite, FS_AddElement
<1>5. ConnectionsAccounted'
  BY <1>0, <1>1, <1>3, <1>4, SessionsFinite, BrokerAssumption
     DEF ConnectionInv, ConnectionsAccounted
<1> QED BY <1>2, <1>5 DEF ConnectionInv

(* The increment does not wrap, because the cap is below 2^64. *)
LEMMA CountKeeps ==
  ASSUME TypeControl, ConnectionInv, CountConnection
  PROVE  ConnectionInv'
<1>0. /\ accept_pc = "count" /\ accept_pc' = "spawn"
      /\ active_connections' = (active_connections + 1) % SizeModulus
      /\ UNCHANGED <<pc, accept_fd, sessions, topic_subscribers>>
  BY DEF CountConnection
<1>1. Running' = Running
  BY <1>0 DEF Running
<1>2. AcceptedIsNew' /\ NoDanglingSubscriber'
  BY <1>0, <1>1 DEF ConnectionInv, AcceptedIsNew, NoDanglingSubscriber
<1>3. active_connections + 1 = Cardinality(sessions) /\ Cardinality(sessions) < SizeModulus
  BY <1>0, SessionsFinite, BrokerAssumption DEF ConnectionInv, ConnectionsAccounted
<1>4. active_connections' = Cardinality(sessions)
  BY <1>0, <1>3, SessionsFinite, BrokerAssumption
<1>5. ConnectionsAccounted'
  BY <1>0, <1>1, <1>4, SessionsFinite, BrokerAssumption
     DEF ConnectionInv, ConnectionsAccounted
<1> QED BY <1>2, <1>5 DEF ConnectionInv

(* The new thread takes the place of the session being started. *)
LEMMA SpawnKeeps ==
  ASSUME TypeControl, ConnectionInv, SpawnSession
  PROVE  ConnectionInv'
<1>0. /\ accept_pc = "spawn" /\ accept_pc' = "loop" /\ accept_fd \in Sessions
      /\ pc' = [pc EXCEPT ![accept_fd] = "idle"]
      /\ UNCHANGED <<sessions, active_connections, topic_subscribers>>
  BY DEF SpawnSession, Goto, TypeControl
<1>1. Running' = Running \cup {accept_fd}
  BY <1>0 DEF Running, TypeControl
<1>2. AcceptedIsNew' /\ NoDanglingSubscriber'
  BY <1>0, <1>1 DEF ConnectionInv, AcceptedIsNew, NoDanglingSubscriber
<1>3. ConnectionsAccounted'
  BY <1>0, <1>1, SessionsFinite, BrokerAssumption DEF ConnectionInv, ConnectionsAccounted
<1> QED BY <1>2, <1>3 DEF ConnectionInv

(* A number below 2^64 does not wrap. *)
LEMMA SmallUnchanged ==
  ASSUME NEW m \in Nat, NEW x \in 0 .. m - 1
  PROVE  x % m = x
OBVIOUS

(* A session that ends is in the list and is not the one being started, so *)
(* the counter, even before the other's increment, is at least one.        *)
LEMMA RemoveKeeps ==
  ASSUME TypeControl, ConnectionInv, NEW s \in Sessions, RemoveSession(s)
  PROVE  ConnectionInv'
<1>0. /\ pc[s] = "remove" /\ pc' = [pc EXCEPT ![s] = "none"]
      /\ sessions' = sessions \ {s}
      /\ active_connections' = (active_connections - 1) % SizeModulus
      /\ topic_subscribers' = [t \in Topics |-> topic_subscribers[t] \ {s}]
      /\ UNCHANGED <<accept_pc, accept_fd>>
  BY DEF RemoveSession, Goto, ErasedEverywhere
<1>1. Running' = Running \ {s} /\ s \in Running
  BY <1>0 DEF Running, TypeControl
<1>2. AcceptedIsNew' /\ NoDanglingSubscriber'
  BY <1>0, <1>1 DEF ConnectionInv, AcceptedIsNew, NoDanglingSubscriber
<1>3. s \in sessions /\ (accept_pc # "loop" => accept_fd # s)
  BY <1>1 DEF ConnectionInv, AcceptedIsNew, ConnectionsAccounted
<1>4. Cardinality(sessions') = Cardinality(sessions) - 1
  <2>1. Cardinality(sessions \ {s}) = IF s \in sessions THEN Cardinality(sessions) - 1
                                                        ELSE Cardinality(sessions)
    BY SessionsFinite, FS_RemoveElement, ZenonT(30)
  <2> QED BY <1>0, <1>3, <2>1
<1>5. IsFiniteSet(sessions') /\ Cardinality(sessions') \in Nat
  BY <1>0, SessionsFinite, FS_RemoveElement, FS_CardinalityType
<1>6. accept_pc = "count" => Cardinality(sessions') # 0
  BY <1>0, <1>3, <1>5, FS_EmptySet DEF ConnectionInv, ConnectionsAccounted
<1>7. active_connections - 1 \in 0 .. SizeModulus - 1
  BY <1>4, <1>5, <1>6, SessionsFinite, BrokerAssumption
     DEF ConnectionInv, ConnectionsAccounted, TypeControl
<1>8. active_connections' = active_connections - 1
  <2>1. SizeModulus \in Nat
    BY BrokerAssumption
  <2>2. (active_connections - 1) % SizeModulus = active_connections - 1
    BY <1>7, <2>1, SmallUnchanged
  <2> QED BY <1>0, <2>2
<1>9. sessions' = Running' \cup (IF accept_pc' \in {"count", "spawn"} THEN {accept_fd'} ELSE {})
  BY <1>0, <1>1, <1>3 DEF ConnectionInv, ConnectionsAccounted
<1>10. ConnectionsAccounted'
  BY <1>0, <1>4, <1>5, <1>8, <1>9, SessionsFinite, BrokerAssumption
     DEF ConnectionInv, ConnectionsAccounted
<1> QED BY <1>2, <1>10 DEF ConnectionInv

----------------------------------------------------------------------------
(* The invariant holds when the broker has been constructed. *)
LEMMA ConnectionInit == Init => ConnectionInv
<1> SUFFICES ASSUME Init PROVE ConnectionInv
  OBVIOUS
<1>1. Running = {}
  BY DEF Init, Running
<1>2. AcceptedIsNew /\ NoDanglingSubscriber
  BY DEF Init, AcceptedIsNew, NoDanglingSubscriber
<1>3. ConnectionsAccounted
  BY <1>1, FS_EmptySet, BrokerAssumption DEF Init, ConnectionsAccounted
<1> QED BY <1>2, <1>3 DEF ConnectionInv

(* Each disjunct of Next preserves the invariant. *)
LEMMA ConnectionStep ==
  ASSUME TypeControl, ConnectionInv, Next
  PROVE  ConnectionInv'
<1>1. CASE Crash
  BY <1>1, CrashKeeps
<1>2. CASE AcceptSteps
  BY <1>2, AcceptKeeps, PushKeeps, CountKeeps, SpawnKeeps DEF AcceptSteps
<1>3. ASSUME NEW s \in Sessions, SessionSteps(s)
      PROVE  ConnectionInv'
  <2>1. CASE RemoveSession(s)
    BY <2>1, RemoveKeeps
  <2>2. CASE SubscribeSteps(s)
    BY <2>2, SubscribeMoves, MovesKeep
  <2>3. CASE \/ PublishSteps(s) \/ \E q \in AckSeqs : HandleAck(s, q)
             \/ Disconnect(s) \/ UnregisterClient(s)
    BY <2>3, OtherMoves, MovesKeep
  <2> QED BY <1>3, <2>1, <2>2, <2>3 DEF SessionSteps
<1> QED BY <1>1, <1>2, <1>3 DEF Next

(* So does a step that changes nothing. *)
LEMMA ConnectionStutter ==
  ASSUME ConnectionInv, UNCHANGED vars
  PROVE  ConnectionInv'
BY DEF vars, ConnectionInv, AcceptedIsNew, NoDanglingSubscriber, ConnectionsAccounted, Running

(* The inductive invariant holds in every reachable state. *)
THEOREM ConnectionInvariant == Spec => []ConnectionInv
<1>1. TypeOK => TypeControl
  BY DEF TypeOK
<1>2. TypeOK /\ ConnectionInv /\ [Next]_vars => ConnectionInv'
  BY <1>1, ConnectionStep, ConnectionStutter
<1> QED BY <1>2, ConnectionInit, TypeCorrect, PTL DEF Spec

(* The pointers that publish() dereferences belong to sessions whose       *)
(* threads run: removeSession erases them, under the mutex, before the     *)
(* thread and its Session end.                                             *)
THEOREM SubscribersAlive == Spec => []NoDanglingSubscriber
<1>1. ConnectionInv => NoDanglingSubscriber
  BY DEF ConnectionInv
<1> QED BY <1>1, ConnectionInvariant, PTL

(* sessions_ and active_connections_ agree and respect MAX_CONNECTIONS,    *)
(* although run() checks the cap before it takes the mutex and increments  *)
(* the counter after it has released it.                                   *)
THEOREM ConnectionsCounted == Spec => []ConnectionsAccounted
<1>1. ConnectionInv => ConnectionsAccounted
  BY DEF ConnectionInv
<1> QED BY <1>1, ConnectionInvariant, PTL
============================================================================
