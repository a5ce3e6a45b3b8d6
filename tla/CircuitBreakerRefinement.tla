---------------------- MODULE CircuitBreakerRefinement ----------------------
(* CircuitBreaker implements BreakerContract: the gate is the state, the   *)
(* calls inside are the running ones, and the token of a half-open episode *)
(* is the probe flag not yet raised.                                       *)
EXTENDS CircuitBreaker

Gate == IF state = "halfOpen" THEN "half" ELSE state

Contract == INSTANCE BreakerContract
  WITH gate <- Gate,
       inside <- Running,
       token <- (state = "halfOpen" /\ ~probeInFlight)

(***************************************************************************)
(* Callers of Execute see the contract: no call starts while the breaker   *)
(* is open, and one half-open episode starts exactly one.                  *)
(***************************************************************************)
ImplementsContract == Contract!Spec
=============================================================================
