---------------------------- MODULE LmdbStorage ----------------------------
(***************************************************************************)
(* The persistence layer (src/src/storage/LmdbStorage.cpp) as operators on *)
(* the contents of the database.  The database holds three kinds of keys:  *)
(*                                                                         *)
(*   "msg:<seq>"        msgs, a function from sequence numbers to values   *)
(*   "last_seq"         last, a number (0 when the key is absent)          *)
(*   "ack:<id>:<seq>"   acks, a set of keys                                *)
(*                                                                         *)
(* A value is a byte string: a sequence of tokens in which Nul is the zero *)
(* byte and every other token a run of non-zero bytes.  A client id is the *)
(* sequence of its ':'-separated segments, so that an ack key is the id    *)
(* followed by one more segment, the number.  LMDB itself is external: a   *)
(* transaction is atomic and durable, or it fails and changes nothing.     *)
(***************************************************************************)
EXTENDS Integers, Sequences, FiniteSets, Functions

CONSTANTS
  Radix,   \* base in which std::to_string prints a number, 10 in the code
  Nul      \* the zero byte

ASSUME RadixAssumption == Radix \in Nat \ {0, 1}

(* A key is longer than prefix and begins with it. *)
Continues(key, prefix) ==
  Len(prefix) < Len(key) /\ SubSeq(key, 1, Len(prefix)) = prefix

----------------------------------------------------------------------------
(* Message keys.                                                           *)

(* std::to_string: the digits of a number, most significant first. *)
to_string[n \in Nat] ==
  IF n < Radix THEN <<n>> ELSE Append(to_string[n \div Radix], n % Radix)

(* LMDB orders keys as byte strings: "msg:10" comes before "msg:9". *)
KeyLess(m, n) ==
  LET a == to_string[m]
      b == to_string[n]
  IN  \/ Continues(b, a)
      \/ \E i \in 1..Len(a) : /\ i <= Len(b)
                              /\ SubSeq(a, 1, i - 1) = SubSeq(b, 1, i - 1)
                              /\ a[i] < b[i]

----------------------------------------------------------------------------
(* Messages.                                                               *)

(* The value save writes.  The code appends the C string literal "\x00"    *)
(* between the two parts; as a C string it is empty, so nothing separates  *)
(* topic from payload.                                                     *)
MessageValue(topic, payload) == topic \o payload

save_overwrites(msgs, last, topic, payload) ==
  [k \in DOMAIN msgs \cup {IF last = 0 THEN 1 ELSE last} |->
     IF k \in DOMAIN msgs /\ k # last THEN msgs[k] ELSE MessageValue(topic, payload)]

(* save: the message goes under the database's own next number; the seq    *)
(* argument of the C++ method is not used.                                 *)
save(msgs, last, topic, payload) ==
  [k \in DOMAIN msgs \cup {last + 1} |->
     IF k = last + 1 THEN MessageValue(topic, payload) ELSE msgs[k]]

(* The rows load_range makes of a record: it splits the value at its first *)
(* zero byte, and skips it when there is none.                             *)
RowsOf(seq, data) ==
  {[seq |-> seq, topic |-> SubSeq(data, 1, i - 1), payload |-> SubSeq(data, i + 1, Len(data))] :
     i \in {n \in DOMAIN data : data[n] = Nul /\ \A m \in 1 .. n - 1 : data[m] # Nul}}

(* load_range: a cursor starts at the first key not before "msg:<from>" in *)
(* key order and stops at the first number above `to`.                     *)
load_range(msgs, from, to) ==
  LET NotBefore(k, j) == k = j \/ KeyLess(j, k)
      scanned == {k \in DOMAIN msgs : NotBefore(k, from)}
      reached == {k \in scanned : \A j \in scanned : NotBefore(k, j) => j <= to}
  IN  UNION {RowsOf(k, msgs[k]) : k \in reached}

(* The vectors that list a set of rows the way the cursor meets them; there *)
(* is one for every finite set.                                            *)
InKeyOrder(rows) ==
  {q \in [1 .. Cardinality(rows) -> rows] :
     \A i, j \in DOMAIN q : i < j => KeyLess(q[i].seq, q[j].seq)}

compact_by_text(msgs, max_seq_to_delete) ==
  RestrictDomain(msgs, LAMBDA k : KeyLess(max_seq_to_delete, k))

compact_off_by_one(msgs, max_seq_to_delete) ==
  RestrictDomain(msgs, LAMBDA k : k > max_seq_to_delete + 1)

(* compact: delete every message numbered at most max_seq_to_delete. *)
compact(msgs, max_seq_to_delete) ==
  RestrictDomain(msgs, LAMBDA k : k > max_seq_to_delete)

----------------------------------------------------------------------------
(* Acknowledgements.                                                       *)

AckKey(client_id, sequence) == Append(client_id, sequence)

(* The segment after the last ':' of an ack key. *)
LastSegment(key) == key[Len(key)]

load_acks_skips_first(acks, client_id) ==
  LET found == {k[Len(client_id) + 1] : k \in {a \in acks : Continues(a, client_id)}}
  IN  {n \in found : \E m \in found : m < n}

load_acks_last(acks, client_id) == {LastSegment(k) : k \in {a \in acks : Continues(a, client_id)}}

(* load_acks: the keys with prefix "ack:<id>:" are the ones whose segments *)
(* extend the id; stoull reads the number at the start of the rest, and a  *)
(* rest that starts with no digit is skipped.                              *)
load_acks(acks, client_id) ==
  {k[Len(client_id) + 1] :
     k \in {a \in acks : /\ Continues(a, client_id)
                         /\ a[Len(client_id) + 1] \in Nat}}

purge_off_by_one(acks, max_seq_to_delete) ==
  {k \in acks : LastSegment(k) > max_seq_to_delete + 1}

(* purge_old_acks: delete every ack key whose last segment is at most      *)
(* max_seq_to_delete, whatever the client.                                 *)
purge_old_acks(acks, max_seq_to_delete) ==
  {k \in acks : LastSegment(k) > max_seq_to_delete}
============================================================================
