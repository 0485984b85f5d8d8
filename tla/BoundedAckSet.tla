--------------------------- MODULE BoundedAckSet ---------------------------
(***************************************************************************)
(* The bounded set of acknowledged sequence numbers that the broker keeps  *)
(* in memory for each client (struct BoundedAckSet, src/src/broker.hpp).   *)
(* The three fields of the struct are the three fields of a record:        *)
(*   order    order_, the insertion order, front = oldest                  *)
(*   lookup   lookup_, the hash set used for membership                    *)
(*   max_seq  max_seq_, the highest sequence number ever inserted          *)
(***************************************************************************)
EXTENDS Integers, Sequences, Functions

CONSTANT MAX   \* BoundedAckSet::MAX, 10 000 in the code

ASSUME MaxAssumption == MAX \in Nat \ {0}

AckSets == [order : Seq(Nat), lookup : SUBSET Nat, max_seq : Nat]

EmptyAckSet_sentinel == [order |-> <<>>, lookup |-> {}, max_seq |-> -1]

(* A new entry of client_acks_. *)
EmptyAckSet == [order |-> <<>>, lookup |-> {}, max_seq |-> 0]

Latest(m, n) == m

Higher(m, n) == IF m > n THEN m ELSE n

----------------------------------------------------------------------------
(* A plausible slip in insert: the eviction forgets one of the two         *)
(* containers.                                                             *)
insert_leaks_lookup(b, seq) ==
  IF seq \in b.lookup
    THEN b
    ELSE [order   |-> Append(IF Len(b.order) >= MAX THEN Tail(b.order) ELSE b.order, seq),
          lookup  |-> b.lookup \cup {seq},
          max_seq |-> Higher(seq, b.max_seq)]

----------------------------------------------------------------------------
(* insert: a sequence number already held is a no-op; a full set evicts    *)
(* its oldest entry from both containers first.                            *)
insert(b, seq) ==
  LET full == Len(b.order) >= MAX IN
  IF seq \in b.lookup
    THEN b
    ELSE [order   |-> Append(IF full THEN Tail(b.order) ELSE b.order, seq),
          lookup  |-> (IF full THEN b.lookup \ {Head(b.order)} ELSE b.lookup) \cup {seq},
          max_seq |-> Higher(seq, b.max_seq)]

contains(b, seq) == seq \in b.lookup

empty(b) == b.lookup = {}

(* The representation invariant of the struct: the deque lists exactly the *)
(* members of the hash set, each once, never more than MAX of them, and    *)
(* none is above max_seq_.                                                 *)
WellFormed(b) ==
  /\ b.lookup = Range(b.order)
  /\ IsInjective(b.order)
  /\ Len(b.order) <= MAX
  /\ \A q \in b.lookup : q <= b.max_seq
============================================================================
