--------------------------- MODULE BreakerContract ---------------------------
(***************************************************************************)
(* What a circuit breaker promises its callers, without clocks, counters   *)
(* or outcomes: a gate that calls enter and leave.  Nothing enters an open *)
(* gate, each half-open episode lets exactly one call in, and the gate     *)
(* only moves closed -> open -> half -> closed or open, when a call        *)
(* leaves or when the open gate turns half-open.                           *)
(***************************************************************************)
CONSTANT Calls

VARIABLES
  gate,     \* "closed", "open" or "half"
  inside,   \* the calls that entered and did not leave
  token     \* whether this half-open episode still has its one admission

vars == <<gate, inside, token>>

Init == gate = "closed" /\ inside = {} /\ token = FALSE

Enter(c) ==
  /\ c \notin inside
  /\ inside' = inside \cup {c}
  /\ \/ gate = "closed" /\ UNCHANGED <<gate, token>>
     \/ gate = "half" /\ token /\ token' = FALSE /\ UNCHANGED gate
     \/ gate = "open" /\ gate' = "half" /\ token' = FALSE

Leave(c) ==
  /\ c \in inside
  /\ inside' = inside \ {c}
  /\ \/ UNCHANGED <<gate, token>>
     \/ gate = "closed" /\ gate' = "open" /\ token' = FALSE
     \/ gate = "half" /\ gate' \in {"closed", "open"} /\ token' = FALSE

HalfOpen ==
  /\ gate = "open" /\ gate' = "half"
  /\ token' = TRUE
  /\ UNCHANGED inside

Next == HalfOpen \/ \E c \in Calls : Enter(c) \/ Leave(c)

Spec == Init /\ [][Next]_vars
=============================================================================
