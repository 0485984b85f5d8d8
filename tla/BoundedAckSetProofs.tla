------------------------ MODULE BoundedAckSetProofs ------------------------
(* What BoundedAckSet::insert keeps, for every MAX and every set. *)
EXTENDS BoundedAckSet, TLAPS

(* A new set has its type, is well formed and acknowledges nothing. *)
LEMMA EmptyAckSetType ==
  /\ EmptyAckSet \in AckSets /\ WellFormed(EmptyAckSet)
  /\ EmptyAckSet.lookup = {} /\ EmptyAckSet.max_seq = 0
BY MaxAssumption DEF EmptyAckSet, AckSets, WellFormed, Range, IsInjective

(* insert returns a BoundedAckSet. *)
LEMMA InsertType ==
  ASSUME NEW b \in AckSets, NEW seq \in Nat
  PROVE  insert(b, seq) \in AckSets
<1>1. b.order \in Seq(Nat) /\ b.lookup \in SUBSET Nat /\ b.max_seq \in Nat
  BY DEF AckSets
<1>2. Len(b.order) >= MAX => Tail(b.order) \in Seq(Nat)
  BY <1>1, MaxAssumption
<1>3. Higher(seq, b.max_seq) \in Nat
  BY <1>1 DEF Higher
<1> QED
  BY <1>1, <1>2, <1>3 DEF insert, AckSets

(* The highest sequence number of the set after an insertion. *)
LEMMA InsertMax ==
  ASSUME NEW b \in AckSets, NEW seq \in Nat, WellFormed(b)
  PROVE  insert(b, seq).max_seq = Higher(seq, b.max_seq)
<1>1. CASE seq \in b.lookup
  <2>1. seq <= b.max_seq /\ b.max_seq \in Nat
    BY <1>1 DEF WellFormed, AckSets
  <2> QED BY <1>1, <2>1 DEF insert, Higher
<1>2. CASE seq \notin b.lookup
  BY <1>2 DEF insert
<1> QED BY <1>1, <1>2

(* An insertion adds the sequence number and nothing else. *)
LEMMA InsertLookup ==
  ASSUME NEW b, NEW seq
  PROVE  insert(b, seq).lookup \subseteq b.lookup \cup {seq}
BY DEF insert

(* A set that has been inserted into is not empty. *)
LEMMA InsertNotEmpty ==
  ASSUME NEW b, NEW seq
  PROVE  seq \in insert(b, seq).lookup
BY DEF insert

(* insert keeps the representation invariant: when the set is full the     *)
(* evicted entry leaves both containers, so that they still list the same  *)
(* numbers, and there are never more than MAX of them.                     *)
THEOREM InsertWellFormed ==
  ASSUME NEW b \in AckSets, NEW seq \in Nat, WellFormed(b)
  PROVE  WellFormed(insert(b, seq))
<1> DEFINE o == b.order
           full == Len(o) >= MAX
           kept == IF full THEN Tail(o) ELSE o
           left == IF full THEN b.lookup \ {Head(o)} ELSE b.lookup
<1>1. CASE seq \in b.lookup
  BY <1>1 DEF insert
<1>2. CASE seq \notin b.lookup
  <2>1. insert(b, seq) = [order |-> Append(kept, seq), lookup |-> left \cup {seq},
                          max_seq |-> Higher(seq, b.max_seq)]
    BY <1>2 DEF insert
  <2>2. o \in Seq(Nat) /\ b.max_seq \in Nat /\ b.lookup \subseteq Nat
    BY DEF AckSets
  <2>3. b.lookup = Range(o) /\ IsInjective(o) /\ Len(o) <= MAX
    BY DEF WellFormed
  <2>4. kept \in Seq(Nat) /\ Len(kept) < MAX /\ left = Range(kept) /\ IsInjective(kept)
    <3>1. CASE full
      <4>1. Len(o) = MAX /\ o # <<>>
        BY <3>1, <2>2, <2>3, MaxAssumption
      <4>2. /\ Tail(o) \in Seq(Nat) /\ Len(Tail(o)) = MAX - 1
            /\ \A i \in 1 .. MAX - 1 : Tail(o)[i] = o[i + 1]
            /\ DOMAIN Tail(o) = 1 .. MAX - 1 /\ DOMAIN o = 1 .. MAX /\ Head(o) = o[1]
        BY <4>1, <2>2, MaxAssumption
      <4>3. IsInjective(Tail(o))
        <5> SUFFICES ASSUME NEW i \in 1 .. MAX - 1, NEW j \in 1 .. MAX - 1,
                            Tail(o)[i] = Tail(o)[j]
                     PROVE  i = j
          BY <4>2 DEF IsInjective
        <5>1. i + 1 \in DOMAIN o /\ j + 1 \in DOMAIN o /\ o[i + 1] = o[j + 1]
          BY <4>2, MaxAssumption
        <5>2. i + 1 = j + 1
          BY <5>1, <2>3 DEF IsInjective
        <5> QED BY <5>2
      <4>4. Range(Tail(o)) = Range(o) \ {Head(o)}
        <5>1. ASSUME NEW x \in Range(Tail(o))  PROVE x \in Range(o) \ {Head(o)}
          <6>1. PICK i \in 1 .. MAX - 1 : x = o[i + 1]
            BY <4>2 DEF Range
          <6>2. i + 1 \in DOMAIN o /\ 1 \in DOMAIN o /\ i + 1 # 1
            BY <4>2, MaxAssumption
          <6>3. o[i + 1] # o[1]
            BY <6>2, <2>3 DEF IsInjective
          <6> QED BY <6>1, <6>2, <6>3, <4>2 DEF Range
        <5>2. ASSUME NEW x \in Range(o) \ {Head(o)}  PROVE x \in Range(Tail(o))
          <6>1. PICK i \in 1 .. MAX : x = o[i]
            BY <4>2 DEF Range
          <6>2. i - 1 \in 1 .. MAX - 1 /\ Tail(o)[i - 1] = x
            BY <6>1, <4>2, MaxAssumption
          <6> QED BY <6>2, <4>2 DEF Range
        <5> QED BY <5>1, <5>2
      <4>5. kept = Tail(o) /\ left = b.lookup \ {Head(o)}
        BY <3>1
      <4>6. MAX - 1 < MAX
        BY MaxAssumption
      <4> HIDE DEF kept, left
      <4> QED BY <4>2, <4>3, <4>4, <4>5, <4>6, <2>3
    <3>2. CASE ~full
      BY <3>2, <2>2, <2>3, MaxAssumption
    <3> QED BY <3>1, <3>2
  <2> HIDE DEF kept, left
  <2> DEFINE new == Append(kept, seq)
             n == Len(kept)
  <2>5. /\ new \in Seq(Nat) /\ Len(new) = n + 1 /\ n \in Nat
        /\ DOMAIN new = 1 .. n + 1 /\ DOMAIN kept = 1 .. n
        /\ \A i \in 1 .. n : new[i] = kept[i]
        /\ new[n + 1] = seq
    BY <2>4
  <2>6. seq \notin Range(kept)
    <3>1. left \subseteq b.lookup  BY DEF left
    <3> QED BY <3>1, <1>2, <2>4
  <2>7. IsInjective(new)
    <3> SUFFICES ASSUME NEW i \in 1 .. n + 1, NEW j \in 1 .. n + 1, new[i] = new[j]
                 PROVE  i = j
      BY <2>5 DEF IsInjective
    <3>1. CASE i \in 1 .. n /\ j \in 1 .. n
      BY <3>1, <2>4, <2>5 DEF IsInjective
    <3>2. CASE i = n + 1 /\ j \in 1 .. n
      BY <3>2, <2>5, <2>6 DEF Range
    <3>3. CASE i \in 1 .. n /\ j = n + 1
      BY <3>3, <2>5, <2>6 DEF Range
    <3> QED BY <3>1, <3>2, <3>3, <2>5
  <2>8. Range(new) = left \cup {seq}
    <3>1. ASSUME NEW x \in Range(new)  PROVE x \in left \cup {seq}
      <4>1. PICK i \in 1 .. n + 1 : x = new[i]
        BY <2>5 DEF Range
      <4> QED BY <4>1, <2>4, <2>5 DEF Range
    <3>2. ASSUME NEW x \in left \cup {seq}  PROVE x \in Range(new)
      <4>1. CASE x = seq
        BY <4>1, <2>5 DEF Range
      <4>2. CASE x \in left
        <5>1. PICK i \in 1 .. n : x = kept[i]
          BY <4>2, <2>4, <2>5 DEF Range
        <5>2. i \in DOMAIN new /\ new[i] = x
          BY <5>1, <2>5
        <5> QED BY <5>2 DEF Range
      <4> QED BY <4>1, <4>2
    <3> QED BY <3>1, <3>2
  <2>9. \A q \in left \cup {seq} : q <= Higher(seq, b.max_seq)
    <3>1. left \subseteq b.lookup  BY DEF left
    <3>2. \A q \in b.lookup : q \in Nat /\ q <= b.max_seq
      BY <2>2 DEF WellFormed
    <3> QED BY <3>1, <3>2, <2>2 DEF Higher
  <2> HIDE DEF new
  <2>10. Len(new) <= MAX
    BY <2>4, <2>5, MaxAssumption
  <2> QED BY <2>1, <2>7, <2>8, <2>9, <2>10 DEF WellFormed, new
<1> QED BY <1>1, <1>2
============================================================================
