-------------------------- MODULE OutboxRefinement --------------------------
(* Outbox implements AtLeastOnce. *)
EXTENDS Outbox

Contract ==
  INSTANCE AtLeastOnce
    WITH Refused <- Unpublishable, accepted <- Committed,
         delivered <- Delivered, settled <- sent

(***************************************************************************)
(* Every behaviour of the table and its dispatchers, crashes included, is  *)
(* an at-least-once delivery: only committed rows are published, and only  *)
(* published or skipped rows are stamped.                                  *)
(***************************************************************************)
ImplementsAtLeastOnce == Contract!Spec

(***************************************************************************)
(* The domain write and its event are never split (doc.go, lines 3-6):     *)
(* once failures stop, every committed event is delivered or skipped, and  *)
(* stamped, whatever was lost before.                                      *)
(***************************************************************************)
ImplementsFairness == Contract!Fairness
=============================================================================
