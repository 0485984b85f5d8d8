--------------------------- MODULE RequestChannel ---------------------------
(* What a connection promises, whatever the transport does: requests are   *)
(* served in the order they were made, each as it was made and none twice; *)
(* and every one that was made while the server served is served.          *)
EXTENDS Naturals, SequencesExt

CONSTANT Conns

VARIABLES
  made, served,     \* the requests of each connection so far
  open,             \* the broker serves the connection
  reliable          \* the client has not gone, and made no unacceptable request

vars == <<made, served, open, reliable>>

Init ==
  /\ made = [c \in Conns |-> <<>>] /\ served = [c \in Conns |-> <<>>]
  /\ open \in [Conns -> BOOLEAN] /\ reliable = [c \in Conns |-> TRUE]

Make(c) ==
  /\ open[c] /\ IsPrefix(made[c], made'[c])
  /\ made' = [made EXCEPT ![c] = made'[c]]
  /\ reliable' \in {reliable, [reliable EXCEPT ![c] = FALSE]}
  /\ UNCHANGED <<served, open>>

Serve(c) ==
  /\ open[c] /\ Len(served[c]) < Len(made[c])
  /\ served' = [served EXCEPT ![c] = Append(@, made[c][Len(@) + 1])]
  /\ UNCHANGED <<made, open, reliable>>

End(c) ==
  /\ \/ open' = [open EXCEPT ![c] = FALSE] /\ UNCHANGED reliable
     \/ reliable' = [reliable EXCEPT ![c] = FALSE] /\ UNCHANGED open
  /\ UNCHANGED <<made, served>>

Next == \E c \in Conns : Make(c) \/ Serve(c) \/ End(c)

Safety == Init /\ [][Next]_vars

(* As long as requests do not come for ever, there is a time when none is  *)
(* waiting.                                                                *)
EveryRequestServed == []<>(\A c \in Conns : reliable[c] => served[c] = made[c])

Spec == Safety /\ EveryRequestServed
============================================================================
