----------------------------- MODULE GrpcCalls ------------------------------
(***************************************************************************)
(* A gRPC connection made by client.Dial: goroutines call through          *)
(* resilience.UnaryClientInterceptor, which runs resilience.Retry around a *)
(* circuit breaker (module CircuitBreaker) they share, and waits           *)
(* Policy.Backoff between attempts.                                        *)
(*                                                                         *)
(* A status code is "OK", "transient" (Unavailable, ResourceExhausted,     *)
(* Aborted), "permanent" or "ctx" (Canceled, DeadlineExceeded); the        *)
(* breaker's ErrOpen is no status, so its code is Unknown.                 *)
(***************************************************************************)
EXTENDS Integers

CONSTANTS
  Rpcs,                         \* goroutines that call, each again and again
  RpcThreshold, RpcCooldown,    \* of the breaker
  RetryPolicies,                \* the policies and retryable codes a service may configure
  MaxDuration                   \* the largest time.Duration; 2^63 - 1 in the code

VARIABLES
  bstate, bfailures, bsince, bprobe, bpc, badmitted, bstreak, bupstream,   \* the breaker
  conn,      \* what Dial returned and was configured with
  rpc        \* per goroutine: Retry's locals, and a history of the call

breakerOf == <<bstate, bfailures, bsince, bprobe, bpc, badmitted, bstreak, bupstream>>
grpcVars == <<breakerOf, conn, rpc>>

Breaker == INSTANCE CircuitBreaker WITH
  Calls <- Rpcs, FailureThreshold <- RpcThreshold, Cooldown <- RpcCooldown, FnMayPanic <- FALSE,
  state <- bstate, failures <- bfailures, sinceOpen <- bsince, probeInFlight <- bprobe,
  pc <- bpc, admittedIn <- badmitted, streak <- bstreak, upstream <- bupstream

Codes == {"OK", "transient", "permanent", "ctx"}

ASSUME RpcBreakerAssumption == RpcThreshold \in Nat \ {0} /\ RpcCooldown \in Nat \ {0}

(* A service chooses among these codes; bound: not Unknown, which would    *)
(* make it retry ErrOpen.                                                  *)
ASSUME PolicyAssumption == \A p \in RetryPolicies : p.attempts \in Int /\ p.codes \subseteq Codes
-----------------------------------------------------------------------------
(* Policy.  Delays are whole numbers; a float beyond MaxDuration converts  *)
(* to the least or to the greatest Duration, depending on the platform.    *)

(* Faulty variant: values below one are taken as they are. *)
attempts_raw(p) == p.attempts

attempts(p) == IF p.attempts < 1 THEN 1 ELSE p.attempts

Duration(d) == IF d <= MaxDuration THEN {d} ELSE {MaxDuration, -MaxDuration - 1}

(* rand.Int63n panics on n + 1 when that overflows; -1 stands for it. *)
jitter(n) == IF n <= 0 THEN {0} ELSE IF n = MaxDuration THEN {-1} ELSE 0..n

(* BaseDelay times the power of the multiplier, before attempt n >= 2 *)
grown(p, n) == p.base * (IF p.mult < 1 THEN 1 ELSE p.mult) ^ (n - 2)

(* MaxDelay is a Duration, and not its greatest value; zero means no cap.  *)
(* With a positive BaseDelay the exponential is positive.                  *)
ASSUME DelayAssumption ==
  /\ MaxDuration \in Nat
  /\ \A p \in RetryPolicies : /\ p.max \in Int /\ 0 <= p.max /\ p.max < MaxDuration
                              /\ p.jitter \in BOOLEAN
                              /\ \A n \in 2..p.attempts : grown(p, n) \in Nat \ {0}

(* Faulty variant: only a negative delay is replaced by the cap. *)
Backoff_uncapped(p, n) ==
  LET delays == {IF x < 0 THEN p.max ELSE x : x \in Duration(grown(p, n))}
  IN IF p.jitter THEN UNION {jitter(x) : x \in delays} ELSE delays

Backoff(p, n) ==
  LET capped == IF p.max > 0 /\ grown(p, n) > p.max THEN p.max ELSE grown(p, n)
      delays == {IF x < 0 THEN p.max ELSE x : x \in Duration(capped)}
  IN IF n <= 1 THEN {0} ELSE IF p.jitter THEN UNION {jitter(x) : x \in delays} ELSE delays
-----------------------------------------------------------------------------
Undialed == [ok |-> FALSE]
AtRest == [at |-> "idle", attempt |-> 1, delay |-> 0, done |-> FALSE, sent |-> 0, last |-> "OK",
           retried |-> {}, result |-> "OK"]

GrpcInit ==
  /\ Breaker!Init
  /\ conn = Undialed
  /\ rpc = [c \in Rpcs |-> AtRest]

(* The CA file: not configured, readable, missing, without certificates. *)
transportCredentials(tls, ca) ==
  IF ~tls THEN {"insecure"}
  ELSE IF ca \in {"missing", "junk"} THEN {} ELSE {"tls"}

(* Dial does not connect.  The application's interceptors come after the   *)
(* resilience one, so each attempt passes through them.  A Dial that fails *)
(* returns no connection.                                                  *)
Dial ==
  /\ conn = Undialed
  /\ \E target, tls, resilient, breaker \in BOOLEAN, ca \in {"none", "good", "missing", "junk"},
        p \in RetryPolicies :
       IF target /\ transportCredentials(tls, ca) # {}
       THEN conn' = [ok |-> TRUE, resilient |-> resilient, breaker |-> resilient /\ breaker,
                     policy |-> p, retryOn |-> p.codes]
       ELSE UNCHANGED conn
  /\ UNCHANGED <<breakerOf, rpc>>
-----------------------------------------------------------------------------
set(c, r) == rpc' = [rpc EXCEPT ![c] = r]
attemptCap == IF conn.resilient THEN attempts(conn.policy) ELSE 1

Invoke(c) ==
  /\ conn.ok /\ rpc[c].at = "idle"
  /\ set(c, [AtRest EXCEPT !.at = IF conn.resilient THEN "loop" ELSE "wire", !.sent = IF conn.resilient THEN 0 ELSE 1])
  /\ UNCHANGED <<breakerOf, conn>>

return(c, r, res) == set(c, [r EXCEPT !.at = "idle", !.delay = 0, !.result = res])

(* The head of Retry's loop, and the call without a breaker *)
LoopHead(c) ==
  /\ rpc[c].at = "loop"
  /\ IF rpc[c].done THEN return(c, rpc[c], "ctx")
     ELSE IF conn.breaker THEN set(c, [rpc[c] EXCEPT !.at = "call"])
     ELSE set(c, [rpc[c] EXCEPT !.at = "wire", !.sent = @ + 1])
  /\ UNCHANGED <<breakerOf, conn>>

(* Faulty variants: every error is retried; the last attempt comes early. *)
retryable_any(code) == code # "OK"
exhausted_early(r) == r.attempt + 1 >= attemptCap

retryable(code) == code \in conn.retryOn

exhausted(r) == r.attempt = attemptCap

(* What Retry does with what fn returned *)
afterAttempt(c, code) ==
  LET r == [rpc[c] EXCEPT !.last = code]
  IN IF code = "OK" \/ exhausted(r) \/ ~retryable(code) THEN return(c, r, code)
     ELSE \E d \in Backoff(conn.policy, r.attempt + 1) :
            IF d = -1 THEN return(c, r, "panic")
            ELSE set(c, [r EXCEPT !.at = "backoff", !.delay = d, !.retried = @ \cup {code}])

(* Execute lets the attempt through, or answers ErrOpen itself. *)
Execute(c) ==
  /\ rpc[c].at = "call"
  /\ \/ Breaker!Admit(c) /\ set(c, [rpc[c] EXCEPT !.at = "wire", !.sent = @ + 1])
     \/ Breaker!Reject(c) /\ afterAttempt(c, "ErrOpen")
  /\ UNCHANGED conn

(* The server's status, or that of the done context; the breaker counts    *)
(* every status but OK as a failure.                                       *)
Respond(c) ==
  /\ rpc[c].at = "wire"
  /\ \E code \in Codes :
       /\ IF conn.breaker THEN Breaker!FinishWith(c, IF code = "OK" THEN "nil" ELSE "err")
          ELSE UNCHANGED breakerOf
       /\ afterAttempt(c, code)
  /\ UNCHANGED conn

(* sleepCtx: the timer fires, or the context is done; without a delay it   *)
(* only looks at the context.                                              *)
Wake(c) ==
  /\ rpc[c].at = "backoff" /\ (rpc[c].delay > 0 \/ ~rpc[c].done)
  /\ set(c, [rpc[c] EXCEPT !.at = "loop", !.attempt = @ + 1, !.delay = 0])
  /\ UNCHANGED <<breakerOf, conn>>

SleepCancelled(c) ==
  /\ rpc[c].at = "backoff" /\ rpc[c].done
  /\ return(c, rpc[c], "ctx")
  /\ UNCHANGED <<breakerOf, conn>>

(* The caller's context is cancelled or its deadline passes. *)
CancelRpc(c) ==
  /\ rpc[c].at # "idle" /\ ~rpc[c].done
  /\ set(c, [rpc[c] EXCEPT !.done = TRUE])
  /\ UNCHANGED <<breakerOf, conn>>

BreakerTick == conn.ok /\ conn.breaker /\ Breaker!Tick /\ UNCHANGED <<conn, rpc>>

GrpcNext ==
  \/ Dial \/ BreakerTick
  \/ \E c \in Rpcs : \/ Invoke(c) \/ LoopHead(c) \/ Execute(c) \/ Respond(c) \/ Wake(c)
                     \/ SleepCancelled(c) \/ CancelRpc(c)

GrpcSpec == GrpcInit /\ [][GrpcNext]_grpcVars
-----------------------------------------------------------------------------
GrpcTypeOK ==
  /\ Breaker!TypeOK
  /\ \A c \in Rpcs :
       LET r == rpc[c]
       IN /\ r.at \in {"idle", "loop", "call", "wire", "backoff"} /\ r.done \in BOOLEAN
          /\ conn.ok => r.attempt \in 1..attemptCap /\ r.sent \in {r.attempt, r.attempt - 1}
          /\ r.delay \in 0..MaxDuration
          /\ {r.last, r.result} \subseteq Codes \cup {"ErrOpen", "panic"} /\ r.retried \subseteq Codes

(***************************************************************************)
(* A request is sent again only after a status the service chose to retry  *)
(* (lines 53-54: the transient codes by default), never more often than    *)
(* the policy allows, and not at all without the interceptor, whatever     *)
(* other calls do to the breaker between the attempts.                     *)
(***************************************************************************)
OnlyTransientResent ==
  conn.ok => \A c \in Rpcs : /\ rpc[c].retried \subseteq conn.retryOn \ {"OK"}
                             /\ rpc[c].sent <= attemptCap

(***************************************************************************)
(* The caller learns the cause: OK only from the server; a context error   *)
(* that is its own, or one the server sent; ErrOpen only for an attempt    *)
(* that was not sent; a transient status only after the last attempt, when *)
(* the service retries those.                                              *)
(***************************************************************************)
CauseKept ==
  conn.ok => \A c \in Rpcs :
    LET r == rpc[c]
    IN r.at = "idle" /\ r # AtRest =>
         /\ r.result \in {"OK", "permanent", "transient"} => r.last = r.result /\ r.sent = r.attempt
         /\ r.result = "ctx" => r.done \/ r.last = "ctx"
         /\ r.result = "ErrOpen" => conn.breaker /\ r.sent < r.attempt
         /\ conn.resilient /\ r.result = "transient" /\ "transient" \in conn.retryOn =>
              r.attempt = attempts(conn.policy)

(***************************************************************************)
(* With a MaxDelay the wait is never longer, and it is really a wait when  *)
(* there is no jitter, however far the exponential has grown past what a   *)
(* Duration holds (lines 102-112); and drawing the jitter does not panic.  *)
(***************************************************************************)
DelaysWithinCap ==
  conn.ok /\ conn.policy.max > 0 =>
    \A c \in Rpcs :
      /\ rpc[c].delay <= conn.policy.max /\ rpc[c].result # "panic"
      /\ rpc[c].at = "backoff" /\ ~conn.policy.jitter => rpc[c].delay > 0

(***************************************************************************)
(* What a connection of client.Dial promises: only transient failures are  *)
(* sent again, the caller learns the cause, and waits stay within their    *)
(* cap.                                                                    *)
(***************************************************************************)
GrpcContract ==
  /\ GrpcTypeOK
  /\ OnlyTransientResent
  /\ CauseKept
  /\ DelaysWithinCap
=============================================================================
