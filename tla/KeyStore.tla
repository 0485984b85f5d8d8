------------------------------ MODULE KeyStore ------------------------------
(***************************************************************************)
(* TrustedKeyStore (crypto/keystore.cpp), the hexadecimal form of keys and *)
(* signatures (crypto/signing.cpp), and the session threads that handle    *)
(* CMD_SIGNED_PUBLISH with it (session.cpp).                               *)
(*                                                                         *)
(* Every method of the store holds its lock from beginning to end except   *)
(* verify_with_key, which gives it up between looking the key up and       *)
(* touching it.  The handler then asks for the key a third time, for its   *)
(* topic scope.  Between any two of these the store may be changed.        *)
(***************************************************************************)
EXTENDS Integers, Sequences

CONSTANTS
  KeyIds,          \* the number of values of a key_id, 2^32 in the code
  PUBLIC_KEY_SIZE,
  PublicKeys,      \* public keys that occur
  Scopes,          \* values of allowed_topics that occur: sequences of characters
  Topics,          \* topics of signed publishes, likewise
  Handlers,        \* session threads
  NoKey            \* no entry for an id

KeyId == 0..(KeyIds - 1)
Bytes(n) == [1..n -> 0..255]
Key == [public_key : PublicKeys, allowed_topics : Scopes, enabled : BOOLEAN, used : BOOLEAN]
Frame == [key_id : KeyId, signer : PublicKeys, topic : Topics]

ASSUME KeyIdsAssumption == KeyIds \in Nat /\ KeyIds > 1
ASSUME SizeAssumption == PUBLIC_KEY_SIZE \in Nat
ASSUME PublicKeysAssumption == PublicKeys \subseteq Bytes(PUBLIC_KEY_SIZE)
ASSUME NoKeyAssumption == NoKey \notin Key

VARIABLES
  keys,            \* keys_; last_used is abstracted to whether the key was used
  next_key_id,
  pc,              \* where a session thread stands in its CMD_SIGNED_PUBLISH
  frame,           \* the frame it handles or has handled last
  outcome,         \* how its last frame ended
  granted,         \* history: the entry verify_with_key found
  steady,          \* history: that entry has been neither removed nor replaced since
  wrapped          \* history: next_key_id_ has overflowed since the last clear()

storeVars == <<keys, next_key_id, wrapped>>
handlerVars == <<pc, frame, outcome, granted>>
vars == <<storeVars, handlerVars, steady>>

-----------------------------------------------------------------------------
(* Hexadecimal text, as sequences of character codes. *)
NoNibble == 16

HexDigit(n) == IF n < 10 THEN 48 + n ELSE 87 + n

hex_char_to_nibble_short(c) ==
  IF c \in 48..57 THEN c - 48
  ELSE IF c \in 97..101 THEN c - 87
  ELSE IF c \in 65..70 THEN c - 55
  ELSE NoNibble

hex_char_to_nibble(c) ==
  IF c \in 48..57 THEN c - 48
  ELSE IF c \in 97..102 THEN c - 87
  ELSE IF c \in 65..70 THEN c - 55
  ELSE NoNibble

to_hex(bytes, size) ==
  [i \in 1..(2 * size) |->
     HexDigit(IF i % 2 = 1 THEN bytes[(i + 1) \div 2] \div 16 ELSE bytes[i \div 2] % 16)]

(* std::nullopt is the empty sequence. *)
from_hex(text, size) ==
  IF DOMAIN text = 1..(2 * size) /\ \A i \in 1..(2 * size) : hex_char_to_nibble(text[i]) # NoNibble
  THEN [i \in 1..size |-> 16 * hex_char_to_nibble(text[2 * i - 1]) + hex_char_to_nibble(text[2 * i])]
  ELSE <<>>

-----------------------------------------------------------------------------
Registered == {id \in KeyId : keys[id] # NoKey}

NewKey(pk, scope) ==
  [public_key |-> pk, allowed_topics |-> scope, enabled |-> TRUE, used |-> FALSE]

is_trusted(id) == id \in Registered /\ keys[id].enabled

Init ==
  /\ keys = [id \in KeyId |-> NoKey]
  /\ next_key_id = 1
  /\ wrapped = FALSE
  /\ pc = [h \in Handlers |-> "idle"]
  /\ frame \in [Handlers -> Frame]
  /\ outcome = [h \in Handlers |-> "none"]
  /\ granted = [h \in Handlers |-> NoKey]
  /\ steady = [h \in Handlers |-> FALSE]

(* The entries of ids are removed or replaced under the handlers that use them. *)
Disturb(ids) == steady' = [h \in Handlers |-> steady[h] /\ frame[h].key_id \notin ids]

(* The uint32_t counter after the value n has been handed out. *)
Advance_wide(n) == next_key_id' = n + 1 /\ wrapped' = (wrapped \/ n + 1 = KeyIds)

Advance(n) == next_key_id' = (n + 1) % KeyIds /\ wrapped' = (wrapped \/ n + 1 = KeyIds)

(* register_key without an id takes the next one, whether or not it is free. *)
RegisterKey(pk, scope) ==
  /\ keys' = [keys EXCEPT ![next_key_id] = NewKey(pk, scope)]
  /\ Advance(next_key_id)
  /\ Disturb({next_key_id})
  /\ UNCHANGED handlerVars

AdvancePast_greater(id) ==
  IF id > next_key_id THEN Advance(id) ELSE UNCHANGED <<next_key_id, wrapped>>

AdvancePast(id) ==
  IF id >= next_key_id THEN Advance(id) ELSE UNCHANGED <<next_key_id, wrapped>>

(* register_key with an id refuses one that is in use. *)
MayRegister_any(id) == TRUE

MayRegister(id) == id \notin Registered

RegisterKeyAs(id, pk, scope) ==
  /\ MayRegister(id)
  /\ keys' = [keys EXCEPT ![id] = NewKey(pk, scope)]
  /\ AdvancePast(id)
  /\ Disturb({id})
  /\ UNCHANGED handlerVars

SetEnabled(id, enabled) ==
  /\ id \in Registered
  /\ keys' = [keys EXCEPT ![id].enabled = enabled]
  /\ UNCHANGED <<next_key_id, wrapped, handlerVars, steady>>

RemoveKey(id) ==
  /\ id \in Registered
  /\ keys' = [keys EXCEPT ![id] = NoKey]
  /\ Disturb({id})
  /\ UNCHANGED <<next_key_id, wrapped, handlerVars>>

Clear ==
  /\ keys' = [id \in KeyId |-> NoKey]
  /\ next_key_id' = 1 /\ wrapped' = FALSE
  /\ Disturb(KeyId)
  /\ UNCHANGED handlerVars

-----------------------------------------------------------------------------
(* CMD_SIGNED_PUBLISH.  verify_with_key: look up and verify ... *)
Verifies(f) == is_trusted(f.key_id) /\ keys[f.key_id].public_key = f.signer

LookUp(h, f) ==
  /\ pc[h] = "idle"
  /\ frame' = [frame EXCEPT ![h] = f]
  /\ IF Verifies(f)
     THEN /\ pc' = [pc EXCEPT ![h] = "touch"]
          /\ outcome' = [outcome EXCEPT ![h] = "none"]
          /\ granted' = [granted EXCEPT ![h] = keys[f.key_id]]
          /\ steady' = [steady EXCEPT ![h] = TRUE]
     ELSE /\ outcome' = [outcome EXCEPT ![h] = "invalid"]
          /\ granted' = [granted EXCEPT ![h] = NoKey]
          /\ steady' = [steady EXCEPT ![h] = FALSE]
          /\ UNCHANGED pc
  /\ UNCHANGED storeVars

(* ... and touch, which does nothing when the id is gone by now. *)
Touched_anyway(id) == [keys EXCEPT ![id] = [granted[CHOOSE h \in Handlers : frame[h].key_id = id]
                                            EXCEPT !.used = TRUE]]

Touched(id) == IF id \in Registered THEN [keys EXCEPT ![id].used = TRUE] ELSE keys

Touch(h) ==
  /\ pc[h] = "touch" /\ pc' = [pc EXCEPT ![h] = "scope"]
  /\ keys' = Touched(frame[h].key_id)
  /\ UNCHANGED <<next_key_id, wrapped, frame, outcome, granted, steady>>

(* Whether a key with this scope may publish to the topic. *)
ScopeAllows(allowed, topic) ==
  LET n == Len(allowed) IN
  \/ allowed \in {<<>>, <<"*">>, <<"#">>}
  \/ n >= 2 /\ allowed[n] = "*" /\ n - 1 <= Len(topic) /\ SubSeq(topic, 1, n - 1) = SubSeq(allowed, 1, n - 1)
  \/ ~(n >= 2 /\ allowed[n] = "*") /\ topic = allowed

(* get_key_info and the scope check; an id that is gone has no scope to violate. *)
InScope_unlessPattern(f) ==
  f.key_id \in Registered =>
    LET allowed == keys[f.key_id].allowed_topics IN
    ScopeAllows(allowed, f.topic) \/ allowed[Len(allowed)] = "*"

InScope(f) == f.key_id \in Registered => ScopeAllows(keys[f.key_id].allowed_topics, f.topic)

CheckScope(h) ==
  /\ pc[h] = "scope" /\ pc' = [pc EXCEPT ![h] = "idle"]
  /\ outcome' = [outcome EXCEPT ![h] = IF InScope(frame[h]) THEN "published" ELSE "unauthorized"]
  /\ UNCHANGED <<storeVars, frame, granted, steady>>

-----------------------------------------------------------------------------
Next ==
  \/ \E pk \in PublicKeys, scope \in Scopes :
       RegisterKey(pk, scope) \/ \E id \in KeyId : RegisterKeyAs(id, pk, scope)
  \/ \E id \in KeyId : RemoveKey(id) \/ \E enabled \in BOOLEAN : SetEnabled(id, enabled)
  \/ Clear
  \/ \E h \in Handlers : Touch(h) \/ CheckScope(h) \/ \E f \in Frame : LookUp(h, f)

Spec == Init /\ [][Next]_vars

-----------------------------------------------------------------------------
(* Every variable has its type; a thread past the lookup has found an entry. *)
TypeOK ==
  /\ keys \in [KeyId -> Key \union {NoKey}]
  /\ next_key_id \in KeyId
  /\ pc \in [Handlers -> {"idle", "touch", "scope"}]
  /\ frame \in [Handlers -> Frame]
  /\ outcome \in [Handlers -> {"none", "invalid", "unauthorized", "published"}]
  /\ granted \in [Handlers -> Key \union {NoKey}]
  /\ steady \in [Handlers -> BOOLEAN]
  /\ wrapped \in BOOLEAN

(* As long as the 32-bit counter has not overflowed, every registered id is  *)
(* below it, so that an id register_key assigns is new, whatever ids callers *)
(* have chosen themselves, removed or registered again in between.           *)
FreshIds == ~wrapped => \A id \in Registered : id < next_key_id

(* An id keeps its public key and its topic scope for as long as it is       *)
(* registered: registration cannot replace an entry, and touch, which works  *)
(* on whatever the id denotes by then, changes neither.  Only an automatic   *)
(* registration after the counter has overflowed is excepted.                *)
KeepsIdentity ==
  [][~wrapped => \A id \in Registered :
       keys'[id] # NoKey => /\ keys'[id].public_key = keys[id].public_key
                            /\ keys'[id].allowed_topics = keys[id].allowed_topics]_vars

(* An entry that appears in the store is one that has not been used: a touch *)
(* that comes too late brings no removed key back.                           *)
NoResurrection ==
  [][\A id \in KeyId : keys[id] = NoKey /\ keys'[id] # NoKey => ~keys'[id].used]_vars

(* A signed message is published only if the key it names was registered and *)
(* enabled and its public key had made the signature when the handler looked *)
(* it up, and, unless the entry was removed or replaced while the handler    *)
(* was at work, only to a topic in that key's scope.                         *)
PublishedInScope ==
  \A h \in Handlers : outcome[h] = "published" =>
    /\ granted[h] # NoKey /\ granted[h].enabled /\ granted[h].public_key = frame[h].signer
    /\ steady[h] => ScopeAllows(granted[h].allowed_topics, frame[h].topic)

(* Reading back the hexadecimal form of a registered key gives the key. *)
HexRoundTrip ==
  \A id \in Registered :
    from_hex(to_hex(keys[id].public_key, PUBLIC_KEY_SIZE), PUBLIC_KEY_SIZE) = keys[id].public_key
=============================================================================
