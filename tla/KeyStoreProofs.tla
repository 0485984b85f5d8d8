--------------------------- MODULE KeyStoreProofs ---------------------------
(***************************************************************************)
(* Proofs about the key store, for any number of key ids, keys, scopes,    *)
(* topics and session threads.  The inductive invariant adds InFlight to   *)
(* the properties: what a thread between its lookups knows of the key it   *)
(* was granted.                                                            *)
(***************************************************************************)
EXTENDS KeyStore, TLAPS

(* A thread past its lookup holds an enabled entry whose public key made the *)
(* signature; while steady, the id still denotes an entry with that scope.   *)
InFlight ==
  \A h \in Handlers : pc[h] # "idle" =>
    /\ outcome[h] = "none"
    /\ granted[h] # NoKey /\ granted[h].enabled /\ granted[h].public_key = frame[h].signer
    /\ steady[h] => /\ keys[frame[h].key_id] # NoKey
                    /\ keys[frame[h].key_id].allowed_topics = granted[h].allowed_topics

IInv == TypeOK /\ FreshIds /\ PublishedInScope /\ InFlight

-----------------------------------------------------------------------------
(* The 32-bit counter stays in its range and only returns to 0 at the end. *)
LEMMA AdvanceLemma ==
  ASSUME NEW n \in KeyId
  PROVE  /\ (n + 1) % KeyIds \in KeyId
         /\ n + 1 # KeyIds => (n + 1) % KeyIds = n + 1
  BY KeyIdsAssumption, SMT DEF KeyId

(* A new entry has the type of an entry and is not the absence of one. *)
LEMMA NewKeyLemma ==
  ASSUME NEW pk \in PublicKeys, NEW scope \in Scopes
  PROVE  NewKey(pk, scope) \in Key /\ NewKey(pk, scope) # NoKey
  <1>1. NewKey(pk, scope) \in Key
    BY DEF NewKey, Key
  <1> QED
    BY <1>1, NoKeyAssumption

(* An entry with another flag is still an entry, with the same key and scope. *)
LEMMA FlagLemma ==
  ASSUME NEW k \in Key, NEW b \in BOOLEAN
  PROVE  /\ [k EXCEPT !.enabled = b] \in Key /\ [k EXCEPT !.used = b] \in Key
         /\ [k EXCEPT !.enabled = b] # NoKey /\ [k EXCEPT !.used = b] # NoKey
         /\ [k EXCEPT !.enabled = b].public_key = k.public_key
         /\ [k EXCEPT !.enabled = b].allowed_topics = k.allowed_topics
         /\ [k EXCEPT !.enabled = b].used = k.used
         /\ [k EXCEPT !.used = b].public_key = k.public_key
         /\ [k EXCEPT !.used = b].allowed_topics = k.allowed_topics
  BY NoKeyAssumption DEF Key

(* The initial states satisfy the invariant. *)
LEMMA InitIInv == Init => IInv
  <1> SUFFICES ASSUME Init PROVE IInv
    OBVIOUS
  <1>1. next_key_id \in KeyId
    BY KeyIdsAssumption DEF Init, KeyId
  <1>2. TypeOK
    BY <1>1 DEF Init, TypeOK
  <1> QED
    BY <1>2 DEF Init, IInv, FreshIds, PublishedInScope, InFlight, Registered

-----------------------------------------------------------------------------
(* Steps that change the store leave the handlers' own state alone. *)

(* Replacing the entries of some ids, with the threads that use them no     *)
(* longer steady, keeps what is known of the threads.                       *)
LEMMA DisturbLemma ==
  ASSUME IInv, NEW ids, Disturb(ids), UNCHANGED handlerVars,
         \A id \in KeyId \ ids : keys'[id] = keys[id]
  PROVE  /\ steady' \in [Handlers -> BOOLEAN]
         /\ PublishedInScope' /\ InFlight'
  <1>1. steady' \in [Handlers -> BOOLEAN]
    BY DEF Disturb, IInv, TypeOK
  <1>2. \A h \in Handlers : steady'[h] => steady[h] /\ frame[h].key_id \notin ids
    BY DEF Disturb
  <1>3. \A h \in Handlers : frame[h].key_id \in KeyId
    BY DEF IInv, TypeOK, Frame
  <1>4. PublishedInScope'
    BY <1>2 DEF IInv, PublishedInScope, handlerVars
  <1>5. InFlight'
    BY <1>2, <1>3 DEF IInv, InFlight, handlerVars
  <1> QED
    BY <1>1, <1>4, <1>5

(* Automatic registration. *)
LEMMA RegisterKeyIInv ==
  ASSUME IInv, NEW pk \in PublicKeys, NEW scope \in Scopes, RegisterKey(pk, scope)
  PROVE  IInv'
  <1> DEFINE k == NewKey(pk, scope)
  <1>0. k \in Key /\ k # NoKey
    BY NewKeyLemma
  <1> HIDE DEF k
  <1>1. next_key_id \in KeyId /\ keys \in [KeyId -> Key \union {NoKey}]
    BY DEF IInv, TypeOK
  <1>2. keys' = [keys EXCEPT ![next_key_id] = k]
    BY DEF RegisterKey, k
  <1>3. /\ next_key_id' \in KeyId
        /\ next_key_id + 1 # KeyIds => next_key_id' = next_key_id + 1
    BY <1>1, AdvanceLemma DEF RegisterKey, Advance
  <1>4. /\ steady' \in [Handlers -> BOOLEAN]
        /\ PublishedInScope' /\ InFlight'
    BY <1>1, <1>2, DisturbLemma DEF RegisterKey
  <1>5. TypeOK'
    BY <1>0, <1>1, <1>2, <1>3, <1>4 DEF IInv, TypeOK, RegisterKey, handlerVars, Advance
  <1>6. FreshIds'
    <2> SUFFICES ASSUME ~wrapped', NEW id \in KeyId, keys'[id] # NoKey
                 PROVE  id < next_key_id'
      BY DEF FreshIds, Registered
    <2>1. ~wrapped /\ next_key_id' = next_key_id + 1
      BY <1>3 DEF RegisterKey, Advance
    <2>2. id = next_key_id \/ id < next_key_id
      BY <1>1, <1>2, <2>1 DEF IInv, FreshIds, Registered
    <2> QED
      BY <1>1, <2>1, <2>2 DEF KeyId
  <1> QED
    BY <1>4, <1>5, <1>6 DEF IInv

(* Registration under an id of the caller's. *)
LEMMA RegisterKeyAsIInv ==
  ASSUME IInv, NEW n \in KeyId, NEW pk \in PublicKeys, NEW scope \in Scopes,
         RegisterKeyAs(n, pk, scope)
  PROVE  IInv'
  <1> DEFINE k == NewKey(pk, scope)
  <1>0. k \in Key /\ k # NoKey
    BY NewKeyLemma
  <1> HIDE DEF k
  <1>1. next_key_id \in KeyId /\ keys \in [KeyId -> Key \union {NoKey}] /\ wrapped \in BOOLEAN
    BY DEF IInv, TypeOK
  <1>2. keys' = [keys EXCEPT ![n] = k]
    BY DEF RegisterKeyAs, k
  <1>3. /\ next_key_id' \in KeyId /\ wrapped' \in BOOLEAN
        /\ ~wrapped' => ~wrapped /\ n < next_key_id' /\ next_key_id <= next_key_id'
    <2>1. CASE n >= next_key_id
      <3>1. next_key_id' = (n + 1) % KeyIds /\ wrapped' = (wrapped \/ n + 1 = KeyIds)
        BY <2>1 DEF RegisterKeyAs, AdvancePast, Advance
      <3>2. /\ (n + 1) % KeyIds \in KeyId
            /\ n + 1 # KeyIds => (n + 1) % KeyIds = n + 1
        BY AdvanceLemma
      <3>3. ~wrapped' => ~wrapped /\ n + 1 # KeyIds
        BY <3>1
      <3>4. n < n + 1 /\ next_key_id <= n + 1
        BY <1>1, <2>1 DEF KeyId
      <3> QED
        BY <1>1, <3>1, <3>2, <3>3, <3>4
    <2>2. CASE ~(n >= next_key_id)
      <3>1. next_key_id' = next_key_id /\ wrapped' = wrapped
        BY <2>2 DEF RegisterKeyAs, AdvancePast
      <3> QED
        BY <1>1, <2>2, <3>1 DEF KeyId
    <2> QED
      BY <2>1, <2>2
  <1>4. /\ steady' \in [Handlers -> BOOLEAN]
        /\ PublishedInScope' /\ InFlight'
    BY <1>1, <1>2, DisturbLemma DEF RegisterKeyAs
  <1>5. TypeOK'
    BY <1>0, <1>1, <1>2, <1>3, <1>4 DEF IInv, TypeOK, RegisterKeyAs, handlerVars
  <1>6. FreshIds'
    <2> SUFFICES ASSUME ~wrapped', NEW id \in KeyId, keys'[id] # NoKey
                 PROVE  id < next_key_id'
      BY DEF FreshIds, Registered
    <2>1. id = n \/ id < next_key_id
      BY <1>1, <1>2, <1>3 DEF IInv, FreshIds, Registered
    <2> QED
      BY <1>1, <1>3, <2>1 DEF KeyId
  <1> QED
    BY <1>4, <1>5, <1>6 DEF IInv

(* Enabling or disabling a key changes no key and no scope. *)
LEMMA SetEnabledIInv ==
  ASSUME IInv, NEW n \in KeyId, NEW enabled \in BOOLEAN, SetEnabled(n, enabled)
  PROVE  IInv'
  <1> DEFINE k == [keys[n] EXCEPT !.enabled = enabled]
  <1>1. keys \in [KeyId -> Key \union {NoKey}] /\ keys[n] \in Key
    BY DEF IInv, TypeOK, SetEnabled, Registered
  <1>2. k \in Key /\ k # NoKey /\ k.allowed_topics = keys[n].allowed_topics
    BY <1>1, FlagLemma
  <1>3. keys' = [keys EXCEPT ![n] = k]
    BY DEF SetEnabled
  <1> HIDE DEF k
  <1>4. /\ UNCHANGED <<next_key_id, wrapped, steady>> /\ UNCHANGED handlerVars
        /\ keys[n] # NoKey
    BY DEF SetEnabled, Registered
  <1>5. TypeOK'
    BY <1>1, <1>2, <1>3, <1>4 DEF IInv, TypeOK, handlerVars
  <1>6. FreshIds'
    BY <1>1, <1>3, <1>4 DEF IInv, FreshIds, Registered
  <1>7. PublishedInScope'
    BY <1>4 DEF IInv, PublishedInScope, handlerVars
  <1>8. InFlight'
    <2>1. \A h \in Handlers : frame[h].key_id \in KeyId
      BY DEF IInv, TypeOK, Frame
    <2> QED
      BY <1>1, <1>2, <1>3, <1>4, <2>1 DEF IInv, InFlight, handlerVars
  <1> QED
    BY <1>5, <1>6, <1>7, <1>8 DEF IInv

(* Removing a key takes an id away and disturbs the threads that use it. *)
LEMMA RemoveKeyIInv ==
  ASSUME IInv, NEW n \in KeyId, RemoveKey(n)
  PROVE  IInv'
  <1>1. keys \in [KeyId -> Key \union {NoKey}]
    BY DEF IInv, TypeOK
  <1>2. keys' = [keys EXCEPT ![n] = NoKey] /\ UNCHANGED <<next_key_id, wrapped>>
    BY DEF RemoveKey
  <1>3. /\ steady' \in [Handlers -> BOOLEAN]
        /\ PublishedInScope' /\ InFlight'
    BY <1>1, <1>2, DisturbLemma DEF RemoveKey
  <1>4. TypeOK'
    BY <1>1, <1>2, <1>3 DEF IInv, TypeOK, RemoveKey, handlerVars
  <1>5. FreshIds'
    BY <1>1, <1>2 DEF IInv, FreshIds, Registered
  <1> QED
    BY <1>3, <1>4, <1>5 DEF IInv

(* Clearing the store takes every id away and starts the counter again. *)
LEMMA ClearIInv ==
  ASSUME IInv, Clear
  PROVE  IInv'
  <1>1. keys' = [id \in KeyId |-> NoKey] /\ next_key_id' \in KeyId /\ wrapped' = FALSE
    BY KeyIdsAssumption DEF Clear, KeyId
  <1>2. /\ steady' \in [Handlers -> BOOLEAN]
        /\ PublishedInScope' /\ InFlight'
    BY DisturbLemma DEF Clear
  <1>3. TypeOK'
    BY <1>1, <1>2 DEF IInv, TypeOK, Clear, handlerVars
  <1>4. FreshIds'
    BY <1>1 DEF FreshIds, Registered
  <1> QED
    BY <1>2, <1>3, <1>4 DEF IInv

-----------------------------------------------------------------------------
(* Steps of a session thread.                                                *)

(* The lookup of verify_with_key records the entry it found. *)
LEMMA LookUpIInv ==
  ASSUME IInv, NEW g \in Handlers, NEW f \in Frame, LookUp(g, f)
  PROVE  IInv'
  <1>1. TypeOK
    BY DEF IInv
  <1>2. UNCHANGED storeVars /\ frame' = [frame EXCEPT ![g] = f]
    BY DEF LookUp
  <1>3. FreshIds'
    BY <1>2 DEF IInv, FreshIds, Registered, storeVars
  <1>4. CASE Verifies(f)
    <2>1. /\ pc' = [pc EXCEPT ![g] = "touch"] /\ outcome' = [outcome EXCEPT ![g] = "none"]
          /\ granted' = [granted EXCEPT ![g] = keys[f.key_id]]
          /\ steady' = [steady EXCEPT ![g] = TRUE]
      BY <1>4 DEF LookUp
    <2>2. /\ f.key_id \in KeyId /\ keys[f.key_id] \in Key /\ keys[f.key_id] # NoKey
          /\ keys[f.key_id].enabled /\ keys[f.key_id].public_key = f.signer
      BY <1>1, <1>4 DEF TypeOK, Verifies, is_trusted, Registered
    <2>3. TypeOK'
      BY <1>1, <1>2, <2>1, <2>2 DEF TypeOK, storeVars
    <2>4. PublishedInScope'
      BY <1>1, <1>2, <2>1 DEF IInv, TypeOK, PublishedInScope
    <2>5. InFlight'
      BY <1>1, <1>2, <2>1, <2>2 DEF IInv, TypeOK, InFlight, storeVars
    <2> QED
      BY <1>3, <2>3, <2>4, <2>5 DEF IInv
  <1>5. CASE ~Verifies(f)
    <2>1. /\ UNCHANGED pc /\ outcome' = [outcome EXCEPT ![g] = "invalid"]
          /\ granted' = [granted EXCEPT ![g] = NoKey]
          /\ steady' = [steady EXCEPT ![g] = FALSE]
      BY <1>5 DEF LookUp
    <2>2. TypeOK'
      BY <1>1, <1>2, <2>1 DEF TypeOK, storeVars
    <2>3. PublishedInScope'
      BY <1>1, <1>2, <2>1 DEF IInv, TypeOK, PublishedInScope
    <2>4. InFlight'
      BY <1>1, <1>2, <2>1 DEF IInv, TypeOK, InFlight, storeVars, LookUp
    <2> QED
      BY <1>3, <2>2, <2>3, <2>4 DEF IInv
  <1> QED
    BY <1>4, <1>5

(* Touching keeps the keys and their scopes. *)
LEMMA TouchedLemma ==
  ASSUME TypeOK, NEW n \in KeyId
  PROVE  /\ Touched(n) \in [KeyId -> Key \union {NoKey}]
         /\ \A id \in KeyId : /\ Touched(n)[id] = NoKey <=> keys[id] = NoKey
                              /\ keys[id] # NoKey =>
                                   /\ Touched(n)[id].public_key = keys[id].public_key
                                   /\ Touched(n)[id].allowed_topics = keys[id].allowed_topics
  <1>1. CASE n \in Registered
    <2> DEFINE k == [keys[n] EXCEPT !.used = TRUE]
    <2>1. keys \in [KeyId -> Key \union {NoKey}] /\ keys[n] \in Key /\ keys[n] # NoKey
      BY <1>1 DEF TypeOK, Registered
    <2>2. /\ k \in Key /\ k # NoKey /\ k.public_key = keys[n].public_key
          /\ k.allowed_topics = keys[n].allowed_topics
      BY <2>1, FlagLemma
    <2>3. Touched(n) = [keys EXCEPT ![n] = k]
      BY <1>1 DEF Touched
    <2> HIDE DEF k
    <2> QED
      BY <2>1, <2>2, <2>3
  <1>2. CASE n \notin Registered
    BY <1>2 DEF Touched, TypeOK
  <1> QED
    BY <1>1, <1>2

(* The second step of verify_with_key changes no key and no scope. *)
LEMMA TouchIInv ==
  ASSUME IInv, NEW g \in Handlers, Touch(g)
  PROVE  IInv'
  <1>1. TypeOK /\ \A h \in Handlers : frame[h].key_id \in KeyId
    BY DEF IInv, TypeOK, Frame
  <1>2. /\ keys' \in [KeyId -> Key \union {NoKey}]
        /\ \A id \in KeyId : /\ keys'[id] = NoKey <=> keys[id] = NoKey
                             /\ keys[id] # NoKey => keys'[id].allowed_topics = keys[id].allowed_topics
    BY <1>1, TouchedLemma DEF Touch
  <1>3. /\ pc[g] = "touch" /\ pc' = [pc EXCEPT ![g] = "scope"]
        /\ UNCHANGED <<next_key_id, wrapped, frame, outcome, granted, steady>>
    BY DEF Touch
  <1>4. TypeOK'
    BY <1>1, <1>2, <1>3 DEF TypeOK
  <1>5. FreshIds'
    BY <1>2, <1>3 DEF IInv, FreshIds, Registered
  <1>6. PublishedInScope'
    BY <1>3 DEF IInv, PublishedInScope
  <1>7. InFlight'
    BY <1>1, <1>2, <1>3 DEF IInv, TypeOK, InFlight
  <1> QED
    BY <1>4, <1>5, <1>6, <1>7 DEF IInv

(* The scope check publishes only what the entry found at the lookup allows, *)
(* unless the entry has been removed or replaced since.                      *)
LEMMA CheckScopeIInv ==
  ASSUME IInv, NEW g \in Handlers, CheckScope(g)
  PROVE  IInv'
  <1> DEFINE result == IF InScope(frame[g]) THEN "published" ELSE "unauthorized"
  <1>1. TypeOK /\ \A h \in Handlers : frame[h].key_id \in KeyId
    BY DEF IInv, TypeOK, Frame
  <1>2. /\ pc[g] = "scope" /\ pc' = [pc EXCEPT ![g] = "idle"]
        /\ outcome' = [outcome EXCEPT ![g] = result]
        /\ UNCHANGED storeVars /\ UNCHANGED <<frame, granted, steady>>
    BY DEF CheckScope
  <1>3. result \in {"published", "unauthorized"} /\ (result = "published" => InScope(frame[g]))
    OBVIOUS
  <1> HIDE DEF result
  <1>4. TypeOK'
    BY <1>1, <1>2, <1>3 DEF TypeOK, storeVars
  <1>5. FreshIds'
    BY <1>2 DEF IInv, FreshIds, Registered, storeVars
  <1>6. InFlight'
    BY <1>1, <1>2 DEF IInv, TypeOK, InFlight, storeVars
  <1>7. PublishedInScope'
    <2> SUFFICES ASSUME NEW h \in Handlers, outcome'[h] = "published"
                 PROVE  /\ granted[h] # NoKey /\ granted[h].enabled
                        /\ granted[h].public_key = frame[h].signer
                        /\ steady[h] => ScopeAllows(granted[h].allowed_topics, frame[h].topic)
      BY <1>2 DEF PublishedInScope
    <2>1. CASE h # g
      BY <1>1, <1>2, <2>1 DEF IInv, TypeOK, PublishedInScope
    <2>2. CASE h = g
      <3>1. InScope(frame[g])
        BY <1>1, <1>2, <1>3, <2>2 DEF TypeOK
      <3>2. /\ granted[g] # NoKey /\ granted[g].enabled /\ granted[g].public_key = frame[g].signer
            /\ steady[g] => /\ keys[frame[g].key_id] # NoKey
                            /\ keys[frame[g].key_id].allowed_topics = granted[g].allowed_topics
        BY <1>2 DEF IInv, InFlight
      <3> QED
        BY <1>1, <2>2, <3>1, <3>2 DEF InScope, Registered
    <2> QED
      BY <2>1, <2>2
  <1> QED
    BY <1>4, <1>5, <1>6, <1>7 DEF IInv

(* Every step of the store and of the threads keeps the invariant. *)
LEMMA NextIInv == IInv /\ [Next]_vars => IInv'
  <1> SUFFICES ASSUME IInv, [Next]_vars PROVE IInv'
    OBVIOUS
  <1>1. CASE \E pk \in PublicKeys, scope \in Scopes : RegisterKey(pk, scope)
    BY <1>1, RegisterKeyIInv
  <1>2. CASE \E pk \in PublicKeys, scope \in Scopes, id \in KeyId : RegisterKeyAs(id, pk, scope)
    BY <1>2, RegisterKeyAsIInv
  <1>3. CASE \E id \in KeyId : RemoveKey(id)
    BY <1>3, RemoveKeyIInv
  <1>4. CASE \E id \in KeyId, enabled \in BOOLEAN : SetEnabled(id, enabled)
    BY <1>4, SetEnabledIInv
  <1>5. CASE Clear
    BY <1>5, ClearIInv
  <1>6. CASE \E h \in Handlers : Touch(h)
    BY <1>6, TouchIInv
  <1>7. CASE \E h \in Handlers : CheckScope(h)
    BY <1>7, CheckScopeIInv
  <1>8. CASE \E h \in Handlers, f \in Frame : LookUp(h, f)
    BY <1>8, LookUpIInv
  <1>9. CASE UNCHANGED vars
    BY <1>9 DEF vars, storeVars, handlerVars, IInv, TypeOK, FreshIds, PublishedInScope, InFlight,
                Registered
  <1> QED
    BY <1>1, <1>2, <1>3, <1>4, <1>5, <1>6, <1>7, <1>8, <1>9 DEF Next

(* The invariant holds in every reachable state. *)
LEMMA Invariance == Spec => []IInv
  BY InitIInv, NextIInv, PTL DEF Spec

-----------------------------------------------------------------------------
(* Every variable keeps its type; in particular next_key_id_ stays a 32-bit *)
(* value, whatever ids callers choose.                                      *)
THEOREM KeyStoreType == Spec => []TypeOK
  BY Invariance, PTL DEF IInv

(* Until the counter overflows, automatic registration hands out new ids. *)
THEOREM KeyStoreFreshIds == Spec => []FreshIds
  BY Invariance, PTL DEF IInv

(* Publishing respects key, signature and scope as they were at the lookup. *)
THEOREM KeyStorePublishedInScope == Spec => []PublishedInScope
  BY Invariance, PTL DEF IInv

(* No step of the store or of a thread gives a registered id another public *)
(* key or another scope before the counter has overflowed.                  *)
THEOREM KeyStoreKeepsIdentity == Spec => KeepsIdentity
  <1> DEFINE Same(id) == keys'[id] # NoKey => /\ keys'[id].public_key = keys[id].public_key
                                              /\ keys'[id].allowed_topics = keys[id].allowed_topics
  <1>1. ASSUME IInv, [Next]_vars
        PROVE  [~wrapped => \A id \in Registered : Same(id)]_vars
    <2> SUFFICES ASSUME Next, ~wrapped, NEW id \in Registered PROVE Same(id)
      BY <1>1
    <2>0. TypeOK /\ id \in KeyId /\ keys[id] # NoKey /\ keys[id] \in Key
      BY <1>1 DEF IInv, TypeOK, Registered
    <2>1. ASSUME NEW pk \in PublicKeys, NEW scope \in Scopes, RegisterKey(pk, scope)
          PROVE  Same(id)
      <3>1. id # next_key_id
        BY <1>1, <2>0 DEF IInv, FreshIds, KeyId, TypeOK
      <3> QED
        BY <2>0, <2>1, <3>1 DEF RegisterKey, TypeOK
    <2>2. ASSUME NEW n \in KeyId, NEW pk \in PublicKeys, NEW scope \in Scopes,
                 RegisterKeyAs(n, pk, scope)
          PROVE  Same(id)
      BY <2>0, <2>2 DEF RegisterKeyAs, MayRegister, TypeOK
    <2>3. ASSUME NEW n \in KeyId, RemoveKey(n) PROVE Same(id)
      BY <2>0, <2>3 DEF RemoveKey, TypeOK
    <2>4. ASSUME NEW n \in KeyId, NEW enabled \in BOOLEAN, SetEnabled(n, enabled)
          PROVE  Same(id)
      <3>1. CASE n = id
        <4>1. keys'[id] = [keys[id] EXCEPT !.enabled = enabled]
          BY <2>0, <2>4, <3>1 DEF SetEnabled, TypeOK
        <4> QED
          BY <2>0, <4>1, FlagLemma
      <3>2. CASE n # id
        BY <2>0, <2>4, <3>2 DEF SetEnabled, TypeOK
      <3> QED
        BY <3>1, <3>2
    <2>5. CASE Clear
      BY <2>0, <2>5 DEF Clear
    <2>6. ASSUME NEW h \in Handlers, Touch(h) PROVE Same(id)
      <3>1. frame[h].key_id \in KeyId
        BY <2>0 DEF TypeOK, Frame
      <3> QED
        BY <2>0, <2>6, <3>1, TouchedLemma DEF Touch
    <2>7. ASSUME NEW h \in Handlers, CheckScope(h) PROVE Same(id)
      BY <2>7 DEF CheckScope, storeVars
    <2>8. ASSUME NEW h \in Handlers, NEW f \in Frame, LookUp(h, f) PROVE Same(id)
      BY <2>8 DEF LookUp, storeVars
    <2> QED
      BY <2>1, <2>2, <2>3, <2>4, <2>5, <2>6, <2>7, <2>8 DEF Next
  <1> QED
    BY <1>1, Invariance, PTL DEF Spec, KeepsIdentity

(* An entry that appears in the store is unused: no late touch made it. *)
THEOREM KeyStoreNoResurrection == Spec => NoResurrection
  <1> DEFINE Enters(id) == keys[id] = NoKey /\ keys'[id] # NoKey => ~keys'[id].used
  <1>1. ASSUME IInv, [Next]_vars
        PROVE  [\A id \in KeyId : Enters(id)]_vars
    <2> SUFFICES ASSUME Next, NEW id \in KeyId, keys[id] = NoKey, keys'[id] # NoKey
                 PROVE  ~keys'[id].used
      BY <1>1
    <2>0. TypeOK /\ id \notin Registered
      BY <1>1 DEF IInv, Registered
    <2>1. ASSUME NEW pk \in PublicKeys, NEW scope \in Scopes, RegisterKey(pk, scope)
          PROVE  ~keys'[id].used
      BY <2>0, <2>1 DEF RegisterKey, NewKey, TypeOK
    <2>2. ASSUME NEW n \in KeyId, NEW pk \in PublicKeys, NEW scope \in Scopes,
                 RegisterKeyAs(n, pk, scope)
          PROVE  ~keys'[id].used
      BY <2>0, <2>2 DEF RegisterKeyAs, NewKey, TypeOK
    <2>3. ASSUME NEW n \in KeyId, RemoveKey(n) PROVE FALSE
      BY <2>0, <2>3 DEF RemoveKey, TypeOK
    <2>4. ASSUME NEW n \in KeyId, NEW enabled \in BOOLEAN, SetEnabled(n, enabled) PROVE FALSE
      BY <2>0, <2>4 DEF SetEnabled, TypeOK
    <2>5. CASE Clear
      BY <2>0, <2>5 DEF Clear
    <2>6. ASSUME NEW h \in Handlers, Touch(h) PROVE FALSE
      <3>1. frame[h].key_id \in KeyId
        BY <2>0 DEF TypeOK, Frame
      <3> QED
        BY <2>0, <2>6, <3>1, TouchedLemma DEF Touch
    <2>7. ASSUME NEW h \in Handlers, CheckScope(h) PROVE FALSE
      BY <2>7 DEF CheckScope, storeVars
    <2>8. ASSUME NEW h \in Handlers, NEW f \in Frame, LookUp(h, f) PROVE FALSE
      BY <2>8 DEF LookUp, storeVars
    <2> QED
      BY <2>1, <2>2, <2>3, <2>4, <2>5, <2>6, <2>7, <2>8 DEF Next
  <1> QED
    BY <1>1, Invariance, PTL DEF Spec, NoResurrection

-----------------------------------------------------------------------------
(* A hexadecimal digit reads back as the nibble it was written for. *)
LEMMA NibbleLemma ==
  ASSUME NEW n \in 0..15
  PROVE  hex_char_to_nibble(HexDigit(n)) = n /\ n # NoNibble
  BY DEF hex_char_to_nibble, HexDigit, NoNibble

(* public_key_from_hex and signature_from_hex read back what to_hex wrote,  *)
(* for every byte string of every size.                                     *)
THEOREM HexInverse ==
  ASSUME NEW size \in Nat, NEW bytes \in Bytes(size)
  PROVE  from_hex(to_hex(bytes, size), size) = bytes
  <1> DEFINE text == to_hex(bytes, size)
             Nib(i) == IF i % 2 = 1 THEN bytes[(i + 1) \div 2] \div 16 ELSE bytes[i \div 2] % 16
  <1>1. \A i \in 1..(2 * size) : Nib(i) \in 0..15
    <2> SUFFICES ASSUME NEW i \in 1..(2 * size) PROVE Nib(i) \in 0..15
      OBVIOUS
    <2>1. CASE i % 2 = 1
      <3>1. (i + 1) \div 2 \in 1..size
        BY <2>1
      <3>2. bytes[(i + 1) \div 2] \in 0..255
        BY <3>1 DEF Bytes
      <3> QED
        BY <2>1, <3>2
    <2>2. CASE i % 2 # 1
      <3>1. i \div 2 \in 1..size
        BY <2>2
      <3>2. bytes[i \div 2] \in 0..255
        BY <3>1 DEF Bytes
      <3> QED
        BY <2>2, <3>2
    <2> QED
      BY <2>1, <2>2
  <1>2. text = [i \in 1..(2 * size) |-> HexDigit(Nib(i))]
    BY DEF to_hex
  <1> HIDE DEF text, Nib
  <1>3. \A i \in 1..(2 * size) : hex_char_to_nibble(text[i]) = Nib(i) /\ Nib(i) # NoNibble
    BY <1>1, <1>2, NibbleLemma
  <1>4. from_hex(text, size) = [i \in 1..size |-> 16 * Nib(2 * i - 1) + Nib(2 * i)]
    <2>1. DOMAIN text = 1..(2 * size)
      BY <1>2
    <2>2. from_hex(text, size) = [i \in 1..size |-> 16 * hex_char_to_nibble(text[2 * i - 1])
                                                    + hex_char_to_nibble(text[2 * i])]
      BY <1>3, <2>1 DEF from_hex
    <2>3. \A i \in 1..size : 2 * i - 1 \in 1..(2 * size) /\ 2 * i \in 1..(2 * size)
      OBVIOUS
    <2> QED
      BY <1>3, <2>2, <2>3
  <1>5. \A i \in 1..size : 16 * Nib(2 * i - 1) + Nib(2 * i) = bytes[i]
    <2> SUFFICES ASSUME NEW i \in 1..size PROVE 16 * Nib(2 * i - 1) + Nib(2 * i) = bytes[i]
      OBVIOUS
    <2>1. /\ (2 * i - 1) % 2 = 1 /\ ((2 * i - 1) + 1) \div 2 = i
          /\ (2 * i) % 2 # 1 /\ (2 * i) \div 2 = i
      OBVIOUS
    <2>2. Nib(2 * i - 1) = bytes[i] \div 16 /\ Nib(2 * i) = bytes[i] % 16
      BY <2>1 DEF Nib
    <2>3. bytes[i] \in 0..255
      BY DEF Bytes
    <2> QED
      BY <2>2, <2>3
  <1> QED
    BY <1>4, <1>5 DEF text, Bytes

(* Every registered public key survives the conversion to text and back. *)
THEOREM KeyStoreHexRoundTrip == Spec => []HexRoundTrip
  <1>1. TypeOK => HexRoundTrip
    <2> SUFFICES ASSUME TypeOK, NEW id \in Registered
                 PROVE  from_hex(to_hex(keys[id].public_key, PUBLIC_KEY_SIZE), PUBLIC_KEY_SIZE)
                          = keys[id].public_key
      BY DEF HexRoundTrip
    <2>1. keys[id] \in Key
      BY DEF TypeOK, Registered
    <2>2. keys[id].public_key \in Bytes(PUBLIC_KEY_SIZE)
      BY <2>1, PublicKeysAssumption DEF Key
    <2> QED
      BY <2>2, SizeAssumption, HexInverse
  <1> QED
    BY <1>1, KeyStoreType, PTL
=============================================================================
