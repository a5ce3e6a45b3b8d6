----------------------------- MODULE AtLeastOnce -----------------------------
(***************************************************************************)
(* What the outbox promises a service: an event whose transaction commits  *)
(* is delivered (or refused by its own publisher) and then, only then,     *)
(* settled; an event whose transaction does not commit never leaves; an    *)
(* event may be delivered again.                                           *)
(***************************************************************************)
CONSTANTS Events, Refused

VARIABLES
  accepted,   \* events of committed transactions
  delivered,  \* events the broker has received at least once
  settled     \* events that need no more work

vars == <<accepted, delivered, settled>>

Init == accepted = {} /\ delivered = {} /\ settled = {}

Accept(e) ==
  /\ e \notin accepted
  /\ accepted' = accepted \cup {e}
  /\ UNCHANGED <<delivered, settled>>

Deliver(e) ==
  /\ e \in accepted \ Refused
  /\ delivered' = delivered \cup {e}
  /\ UNCHANGED <<accepted, settled>>

Settle(e) ==
  /\ e \in (accepted \cap delivered) \cup (accepted \cap Refused)
  /\ settled' = settled \cup {e}
  /\ UNCHANGED <<accepted, delivered>>

Next == \E e \in Events : Accept(e) \/ Deliver(e) \/ Settle(e)

Spec == Init /\ [][Next]_vars

Fairness == \A e \in Events : WF_vars(Deliver(e)) /\ WF_vars(Settle(e))
=============================================================================
