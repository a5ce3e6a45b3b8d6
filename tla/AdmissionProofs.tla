-------------------------- MODULE AdmissionProofs ---------------------------
(***************************************************************************)
(* What turns calls away or sends them again, proved for any set of        *)
(* callers, keys and policies: the circuit breaker, the rate limiters and  *)
(* the gRPC client, which retries around a breaker.                        *)
(***************************************************************************)
EXTENDS CircuitBreakerRefinement, RateLimits, GrpcCalls, TLAPS

(***************************************************************************)
(* gRPC calls.  A call in the loop has sent every attempt before this one, *)
(* because an attempt the breaker refused ends the call; a wait is within  *)
(* the cap of its policy.                                                  *)
(***************************************************************************)
Delays == 0..MaxDuration
Places == {"idle", "loop", "call", "wire", "backoff"}
Outcomes == Codes \cup {"ErrOpen", "panic"}
RpcStates == [at : Places, attempt : Nat, delay : Delays, done : BOOLEAN, sent : Nat, last : Outcomes,
              retried : SUBSET Codes, result : Outcomes]

Cause(r) ==
  /\ r.result \in {"OK", "permanent", "transient"} => r.last = r.result /\ r.sent = r.attempt
  /\ r.result = "ctx" => r.done \/ r.last = "ctx"
  /\ r.result = "ErrOpen" => conn.breaker /\ r.sent < r.attempt
  /\ conn.resilient /\ r.result = "transient" /\ "transient" \in conn.retryOn =>
       r.attempt = attempts(conn.policy)

(* The wait is within the cap, and zero unless the call is waiting. *)
Wait(r) ==
  /\ r.at # "backoff" => r.delay = 0
  /\ conn.policy.max > 0 =>
       /\ r.delay <= conn.policy.max /\ r.result # "panic"
       /\ r.at = "backoff" /\ ~conn.policy.jitter => r.delay > 0

CallInv(r) ==
  /\ Wait(r) /\ r.sent \in {r.attempt, r.attempt - 1}
  /\ r.attempt >= 1 /\ r.attempt <= attemptCap /\ r.sent <= attemptCap
  /\ r.retried \subseteq conn.retryOn \ {"OK"}
  /\ r.at \in {"loop", "call"} => r.sent = r.attempt - 1
  /\ r.at \in {"wire", "backoff"} => r.sent = r.attempt
  /\ r.at = "call" => conn.breaker
  /\ r.at = "backoff" => r.attempt < attemptCap
  /\ r.at = "idle" => r = AtRest \/ Cause(r)

GrpcInv ==
  /\ rpc \in [Rpcs -> RpcStates]
  /\ IF conn.ok THEN /\ conn.policy \in RetryPolicies /\ conn.retryOn = conn.policy.codes
                     /\ \A c \in Rpcs : CallInv(rpc[c])
     ELSE \A c \in Rpcs : rpc[c] = AtRest

LEMMA AtRestIs ==
  /\ AtRest \in RpcStates /\ AtRest.at = "idle" /\ AtRest.attempt = 1 /\ AtRest.sent = 0
  /\ AtRest.retried = {} /\ AtRest.delay = 0 /\ AtRest.result = "OK"
  BY SMTT(30), DelayAssumption DEF AtRest, RpcStates, Places, Outcomes, Codes, Delays

LEMMA CapIs ==
  ASSUME GrpcInv, conn.ok
  PROVE  attemptCap \in Nat /\ attemptCap >= 1 /\ conn.retryOn \subseteq Codes
         /\ (conn.resilient => attemptCap = attempts(conn.policy))
<1>1. conn.policy.attempts \in Int /\ conn.policy.codes \subseteq Codes
  BY Zenon, PolicyAssumption DEF GrpcInv
<1> QED BY <1>1 DEF GrpcInv, attemptCap, attempts

LEMMA ConnPolicy ==
  ASSUME GrpcInv, conn.ok
  PROVE  /\ conn.policy \in RetryPolicies /\ conn.policy.attempts \in Int
         /\ conn.policy.max \in Int /\ 0 <= conn.policy.max /\ conn.policy.max < MaxDuration
BY Zenon, PolicyAssumption, DelayAssumption DEF GrpcInv

(* Backoff never exceeds the cap, and with a cap it neither panics nor     *)
(* returns zero without jitter.                                            *)
LEMMA BackoffWithin ==
  ASSUME NEW p \in RetryPolicies, NEW n \in 2..p.attempts, NEW d \in Backoff(p, n)
  PROVE  /\ d = -1 \/ d \in Delays
         /\ p.max > 0 => d # -1 /\ d <= p.max /\ (~p.jitter => d > 0)
<1> DEFINE g == grown(p, n)
           capped == IF p.max > 0 /\ g > p.max THEN p.max ELSE g
           delays == {IF x < 0 THEN p.max ELSE x : x \in Duration(capped)}
<1>1. /\ MaxDuration \in Nat /\ p.max \in Int /\ 0 <= p.max /\ p.max < MaxDuration
      /\ g \in Nat \ {0} /\ p.attempts \in Int /\ n \in Int /\ n >= 2
  BY DelayAssumption, PolicyAssumption
<1> HIDE DEF g
<1>2. capped \in Nat \ {0} /\ (p.max > 0 => capped <= p.max)
  BY <1>1
<1>3. d \in IF p.jitter THEN UNION {jitter(x) : x \in delays} ELSE delays
  BY <1>1 DEF Backoff, g
<1> HIDE DEF capped
<1>4. ASSUME NEW x \in delays
      PROVE  x \in 0..MaxDuration /\ (p.max > 0 => x <= p.max /\ x > 0)
  <2>1. PICK y \in Duration(capped) : x = IF y < 0 THEN p.max ELSE y
    BY Zenon, <1>4
  <2>2. y \in Int /\ y <= MaxDuration /\ (y < 0 \/ y = capped \/ y = MaxDuration)
        /\ (capped <= MaxDuration => y = capped)
    BY <1>1, <1>2, <2>1 DEF Duration
  <2> QED BY <1>1, <1>2, <2>1, <2>2
<1> HIDE DEF delays
<1>5. CASE ~p.jitter
  BY <1>3, <1>4, <1>5 DEF Delays
<1>6. CASE p.jitter
  <2>1. PICK x \in delays : d \in jitter(x)
    BY Zenon, <1>3, <1>6
  <2>2. x \in 0..MaxDuration /\ (p.max > 0 => x <= p.max /\ x > 0)
    BY Zenon, <1>4, <2>1
  <2> QED BY <1>1, <1>6, <2>1, <2>2 DEF jitter, Delays
<1> QED BY Zenon, <1>5, <1>6

LEMMA GrpcInvGives ==
  GrpcInv /\ Breaker!TypeOK => GrpcContract
<1> SUFFICES ASSUME GrpcInv, Breaker!TypeOK PROVE GrpcContract
  OBVIOUS
<1>1. OnlyTransientResent /\ CauseKept
  BY Zenon DEF GrpcInv, CallInv, Cause, OnlyTransientResent, CauseKept
<1>2. DelaysWithinCap
  BY Zenon DEF GrpcInv, CallInv, Wait, DelaysWithinCap
<1>3. GrpcTypeOK
  <2> SUFFICES ASSUME NEW c \in Rpcs
               PROVE  LET r == rpc[c]
                      IN /\ r.at \in {"idle", "loop", "call", "wire", "backoff"} /\ r.done \in BOOLEAN
                         /\ conn.ok => r.attempt \in 1..attemptCap /\ r.sent \in {r.attempt, r.attempt - 1}
                         /\ r.delay \in 0..MaxDuration
                         /\ {r.last, r.result} \subseteq Codes \cup {"ErrOpen", "panic"}
                         /\ r.retried \subseteq Codes
    BY Zenon DEF GrpcTypeOK
  <2>1. rpc[c] \in RpcStates
    BY Zenon DEF GrpcInv
  <2>2. /\ rpc[c].at \in Places /\ rpc[c].delay \in Delays /\ rpc[c].last \in Outcomes /\ rpc[c].attempt \in Nat
        /\ rpc[c].result \in Outcomes /\ rpc[c].retried \subseteq Codes
    BY Zenon, <2>1 DEF RpcStates
  <2>3. rpc[c].done \in BOOLEAN
    BY Zenon, <2>1 DEF RpcStates
  <2>4. conn.ok => rpc[c].attempt \in 1..attemptCap /\ rpc[c].sent \in {rpc[c].attempt, rpc[c].attempt - 1}
    BY <2>2, CapIs DEF GrpcInv, CallInv
  <2> QED BY Zenon, <2>2, <2>3, <2>4 DEF Places, Delays, Outcomes
<1> QED BY Zenon, <1>1, <1>2, <1>3 DEF GrpcContract

returned(r, res) == [r EXCEPT !.at = "idle", !.delay = 0, !.result = res]
backed(r, d, code) == [r EXCEPT !.at = "backoff", !.delay = d, !.retried = @ \cup {code}]
wired(r) == [r EXCEPT !.at = "wire", !.sent = @ + 1]
woken(r) == [r EXCEPT !.at = "loop", !.attempt = @ + 1, !.delay = 0]

LEMMA Returned ==
  ASSUME NEW r \in RpcStates, NEW res \in Outcomes
  PROVE  LET k == returned(r, res)
         IN /\ k \in RpcStates /\ k.at = "idle" /\ k.result = res /\ k.delay = 0 /\ k.attempt = r.attempt
            /\ k.sent = r.sent /\ k.last = r.last /\ k.retried = r.retried /\ k.done = r.done
<1> DEFINE p == "idle"
           k1 == [r EXCEPT !.at = p]
           k2 == [k1 EXCEPT !.delay = 0]
           k3 == [k2 EXCEPT !.result = res]
<1>1. p \in Places /\ p = "idle" /\ 0 \in Delays
  BY DelayAssumption DEF Places, Delays
<1> HIDE DEF p
<1>2. /\ k1 \in RpcStates /\ k1.at = p /\ k1.attempt = r.attempt
      /\ k1.sent = r.sent /\ k1.last = r.last /\ k1.retried = r.retried /\ k1.done = r.done
  BY Zenon, <1>1 DEF RpcStates
<1> HIDE DEF k1
<1>3. /\ k2 \in RpcStates /\ k2.at = p /\ k2.delay = 0 /\ k2.attempt = r.attempt
      /\ k2.sent = r.sent /\ k2.last = r.last /\ k2.retried = r.retried /\ k2.done = r.done
  BY Zenon, <1>1, <1>2 DEF RpcStates
<1> HIDE DEF k2
<1>4. /\ k3 \in RpcStates /\ k3.at = p /\ k3.result = res /\ k3.delay = 0 /\ k3.attempt = r.attempt
      /\ k3.sent = r.sent /\ k3.last = r.last /\ k3.retried = r.retried /\ k3.done = r.done
  BY Zenon, <1>3 DEF RpcStates
<1>5. returned(r, res) = k3
  BY Zenon DEF returned, k1, k2, k3, p
<1> HIDE DEF k3
<1> QED BY Zenon, <1>1, <1>4, <1>5

LEMMA Backed ==
  ASSUME NEW r \in RpcStates, NEW d \in Delays, NEW code \in Codes
  PROVE  LET k == backed(r, d, code)
         IN /\ k \in RpcStates /\ k.at = "backoff" /\ k.delay = d /\ k.result = r.result /\ k.attempt = r.attempt
            /\ k.sent = r.sent /\ k.retried = r.retried \cup {code}
<1> DEFINE p == "backoff"
           t == r.retried \cup {code}
           k1 == [r EXCEPT !.at = p]
           k2 == [k1 EXCEPT !.delay = d]
           k3 == [k2 EXCEPT !.retried = t]
<1>1. p \in Places /\ p = "backoff" /\ t \in SUBSET Codes /\ t = r.retried \cup {code}
  BY Zenon DEF Places, RpcStates
<1> HIDE DEF p, t
<1>2. /\ k1 \in RpcStates /\ k1.at = p /\ k1.delay = r.delay /\ k1.result = r.result
      /\ k1.attempt = r.attempt /\ k1.sent = r.sent /\ k1.retried = r.retried
  BY Zenon, <1>1 DEF RpcStates
<1> HIDE DEF k1
<1>3. /\ k2 \in RpcStates /\ k2.at = p /\ k2.delay = d /\ k2.result = r.result
      /\ k2.attempt = r.attempt /\ k2.sent = r.sent /\ k2.retried = r.retried
  BY Zenon, <1>2 DEF RpcStates
<1> HIDE DEF k2
<1>4. /\ k3 \in RpcStates /\ k3.at = p /\ k3.delay = d /\ k3.result = r.result
      /\ k3.attempt = r.attempt /\ k3.sent = r.sent /\ k3.retried = t
  BY Zenon, <1>1, <1>3 DEF RpcStates
<1>5. backed(r, d, code) = k3
  <2>1. k2.retried = r.retried
    BY Zenon, <1>3
  <2> QED BY Zenon, <2>1 DEF backed, k1, k2, k3, p, t
<1> HIDE DEF k3
<1> QED BY Zenon, <1>1, <1>4, <1>5


LEMMA Wired ==
  ASSUME NEW r \in RpcStates
  PROVE  LET k == wired(r)
         IN /\ k \in RpcStates /\ k.at = "wire" /\ k.delay = r.delay /\ k.result = r.result /\ k.attempt = r.attempt
            /\ k.sent = r.sent + 1 /\ k.retried = r.retried
<1> DEFINE p == "wire"
           n == r.sent + 1
           k1 == [r EXCEPT !.at = p]
           k2 == [k1 EXCEPT !.sent = n]
<1>1. p \in Places /\ p = "wire" /\ n \in Nat /\ n = r.sent + 1
  BY DEF Places, RpcStates
<1> HIDE DEF p, n
<1>2. /\ k1 \in RpcStates /\ k1.at = p /\ k1.delay = r.delay /\ k1.result = r.result
      /\ k1.attempt = r.attempt /\ k1.sent = r.sent /\ k1.retried = r.retried
  BY Zenon, <1>1 DEF RpcStates
<1> HIDE DEF k1
<1>3. /\ k2 \in RpcStates /\ k2.at = p /\ k2.delay = r.delay /\ k2.result = r.result
      /\ k2.attempt = r.attempt /\ k2.sent = n /\ k2.retried = r.retried
  BY Zenon, <1>1, <1>2 DEF RpcStates
<1>4. wired(r) = k2
  <2>1. k1.sent = r.sent
    BY Zenon, <1>2
  <2> QED BY Zenon, <2>1 DEF wired, k1, k2, p, n
<1> HIDE DEF k2
<1> QED BY Zenon, <1>1, <1>3, <1>4

LEMMA Woken ==
  ASSUME NEW r \in RpcStates
  PROVE  LET k == woken(r)
         IN /\ k \in RpcStates /\ k.at = "loop" /\ k.delay = 0 /\ k.result = r.result /\ k.attempt = r.attempt + 1
            /\ k.sent = r.sent /\ k.retried = r.retried
<1> DEFINE p == "loop"
           n == r.attempt + 1
           k1 == [r EXCEPT !.at = p]
           k2 == [k1 EXCEPT !.attempt = n]
           k3 == [k2 EXCEPT !.delay = 0]
<1>1. p \in Places /\ p = "loop" /\ n \in Nat /\ n = r.attempt + 1 /\ 0 \in Delays
  BY DelayAssumption DEF Places, RpcStates, Delays
<1> HIDE DEF p, n
<1>2. /\ k1 \in RpcStates /\ k1.at = p /\ k1.delay = r.delay /\ k1.result = r.result
      /\ k1.attempt = r.attempt /\ k1.sent = r.sent /\ k1.retried = r.retried
  BY Zenon, <1>1 DEF RpcStates
<1> HIDE DEF k1
<1>3. /\ k2 \in RpcStates /\ k2.at = p /\ k2.result = r.result /\ k2.attempt = n /\ k2.sent = r.sent /\ k2.retried = r.retried
  BY Zenon, <1>1, <1>2 DEF RpcStates
<1> HIDE DEF k2
<1>4. /\ k3 \in RpcStates /\ k3.at = p /\ k3.delay = 0 /\ k3.result = r.result /\ k3.attempt = n /\ k3.sent = r.sent /\ k3.retried = r.retried
  BY Zenon, <1>1, <1>3 DEF RpcStates
<1>5. woken(r) = k3
  <2>1. k1.attempt = r.attempt
    BY Zenon, <1>2
  <2> QED BY Zenon, <2>1 DEF woken, k1, k2, k3, p, n
<1> HIDE DEF k3
<1> QED BY Zenon, <1>1, <1>4, <1>5

LEMMA OneRpc ==
  ASSUME GrpcInv, conn.ok, UNCHANGED conn, NEW c \in Rpcs, NEW k \in RpcStates, CallInv(k),
         rpc' = [rpc EXCEPT ![c] = k]
  PROVE  GrpcInv'
<1>1. rpc' \in [Rpcs -> RpcStates]
  BY Zenon DEF GrpcInv
<1>2. ASSUME NEW w \in Rpcs PROVE CallInv(rpc'[w])
  BY Zenon DEF GrpcInv
<1>3. ASSUME NEW w \in Rpcs PROVE CallInv(rpc[w])'
  BY ZenonT(30), <1>2 DEF CallInv, Cause, Wait, attemptCap
<1> QED BY Zenon, <1>1, <1>3 DEF GrpcInv

(* A call that is under way is on a connection. *)
LEMMA UnderWay ==
  ASSUME GrpcInv, NEW c \in Rpcs, rpc[c].at # "idle"
  PROVE  /\ conn.ok /\ rpc[c] \in RpcStates /\ CallInv(rpc[c])
         /\ rpc[c].attempt \in Nat /\ rpc[c].sent \in Nat /\ attemptCap \in Nat /\ attemptCap >= 1
<1>1. conn.ok /\ rpc[c] \in RpcStates /\ CallInv(rpc[c])
  BY Zenon, AtRestIs DEF GrpcInv
<1> QED BY Zenon, <1>1, CapIs DEF RpcStates

(* What Retry does after an attempt *)
LEMMA OutcomeKeeps ==
  ASSUME GrpcInv, UNCHANGED conn, NEW c \in Rpcs, NEW code \in Codes \cup {"ErrOpen"}, afterAttempt(c, code),
         \/ rpc[c].at = "wire" /\ code \in Codes
         \/ rpc[c].at = "call" /\ code = "ErrOpen"
  PROVE  GrpcInv'
<1> DEFINE r == [rpc[c] EXCEPT !.last = code]
<1>1. /\ conn.ok /\ rpc[c] \in RpcStates /\ CallInv(rpc[c]) /\ rpc[c].attempt \in Nat /\ rpc[c].sent \in Nat
      /\ attemptCap \in Nat /\ attemptCap >= 1 /\ code \in Outcomes
  BY Zenon, UnderWay DEF Outcomes
<1>2. /\ r \in RpcStates /\ r.last = code /\ r.attempt = rpc[c].attempt /\ r.sent = rpc[c].sent
      /\ r.retried = rpc[c].retried /\ r.delay = rpc[c].delay /\ r.result = rpc[c].result
  BY Zenon, <1>1 DEF RpcStates
<1>3. conn.retryOn \subseteq Codes /\ (conn.resilient => attemptCap = attempts(conn.policy))
  BY Zenon, <1>1, CapIs
<1>4. /\ code = "ErrOpen" => r.sent = r.attempt - 1 /\ conn.breaker /\ code \notin Codes
      /\ code # "ErrOpen" => r.sent = r.attempt
      /\ r.attempt >= 1 /\ r.attempt <= attemptCap /\ r.sent <= attemptCap
      /\ r.retried \subseteq conn.retryOn \ {"OK"}
      /\ conn.policy.max > 0 => r.result # "panic" /\ 0 <= conn.policy.max
      /\ code # "panic" /\ r.sent \in {r.attempt, r.attempt - 1}
  BY Zenon, <1>1, <1>2, ConnPolicy DEF CallInv, Wait, Codes
<1>5. \/ (code = "OK" \/ exhausted(r) \/ ~retryable(code)) /\ return(c, r, code)
      \/ /\ ~(code = "OK" \/ exhausted(r) \/ ~retryable(code))
         /\ \E d \in Backoff(conn.policy, r.attempt + 1) :
              IF d = -1 THEN return(c, r, "panic")
              ELSE set(c, [r EXCEPT !.at = "backoff", !.delay = d, !.retried = @ \cup {code}])
  BY Zenon DEF afterAttempt
<1> HIDE DEF r
<1>6. ASSUME code = "OK" \/ exhausted(r) \/ ~retryable(code), return(c, r, code) PROVE GrpcInv'
  <2> DEFINE k == returned(r, code)
  <2>1. rpc' = [rpc EXCEPT ![c] = k]
    BY Zenon, <1>6 DEF return, set, returned
  <2>2. /\ k \in RpcStates /\ k.at = "idle" /\ k.result = code /\ k.delay = 0 /\ k.attempt = r.attempt
        /\ k.sent = r.sent /\ k.last = r.last /\ k.retried = r.retried
    BY Zenon, <1>1, <1>2, Returned
  <2> HIDE DEF k
  <2>3. conn.resilient /\ code = "transient" /\ "transient" \in conn.retryOn => r.attempt = attempts(conn.policy)
    BY Zenon, <1>3, <1>6 DEF exhausted, retryable
  <2>4. Cause(k)
    BY SMTT(30), <1>1, <1>2, <1>4, <2>2, <2>3 DEF Cause
  <2>5. CallInv(k)
    BY Zenon, <1>4, <2>2, <2>4 DEF CallInv, Wait
  <2> QED BY Zenon, <1>1, <2>1, <2>2, <2>5, OneRpc
<1>9. ASSUME ~(code = "OK" \/ exhausted(r) \/ ~retryable(code)), NEW d \in Backoff(conn.policy, r.attempt + 1)
      PROVE  /\ d = -1 \/ d \in Delays
             /\ conn.policy.max > 0 => d # -1 /\ d <= conn.policy.max /\ (~conn.policy.jitter => d > 0)
  <2>1. r.attempt < attemptCap
    BY <1>1, <1>2, <1>4, <1>9 DEF exhausted
  <2>2. conn.policy \in RetryPolicies /\ r.attempt + 1 \in 2..conn.policy.attempts
    BY <1>1, <1>2, <1>4, <2>1, ConnPolicy DEF attemptCap, attempts
  <2> QED BY Zenon, <1>9, <2>2, BackoffWithin
<1>7. ASSUME ~(code = "OK" \/ exhausted(r) \/ ~retryable(code)), NEW d \in Backoff(conn.policy, r.attempt + 1),
             d = -1, return(c, r, "panic")
      PROVE  GrpcInv'
  <2> DEFINE res == "panic"
             k == returned(r, res)
  <2>1. rpc' = [rpc EXCEPT ![c] = k]
    BY Zenon, <1>7 DEF return, set, returned
  <2>2. res \in Outcomes /\ res = "panic"
    BY Zenon DEF Outcomes
  <2> HIDE DEF res
  <2>3. /\ k \in RpcStates /\ k.at = "idle" /\ k.result = res /\ k.delay = 0 /\ k.attempt = r.attempt
        /\ k.sent = r.sent /\ k.last = r.last /\ k.retried = r.retried
    BY ZenonT(30), <1>2, <2>2, Returned
  <2> HIDE DEF k
  <2>4. Cause(k)
    BY Zenon, <2>2, <2>3 DEF Cause
  <2>6. ~(conn.policy.max > 0)
    BY Zenon, <1>7, <1>9
  <2>5. CallInv(k)
    BY Zenon, <1>4, <2>3, <2>4, <2>6 DEF CallInv, Wait
  <2> QED BY Zenon, <1>1, <2>1, <2>3, <2>5, OneRpc
<1>8. ASSUME ~(code = "OK" \/ exhausted(r) \/ ~retryable(code)), NEW d \in Backoff(conn.policy, r.attempt + 1),
             d # -1, set(c, [r EXCEPT !.at = "backoff", !.delay = d, !.retried = @ \cup {code}])
      PROVE  GrpcInv'
  <2> DEFINE k == backed(r, d, code)
  <2>1. rpc' = [rpc EXCEPT ![c] = k]
    BY Zenon, <1>8 DEF set, backed
  <2>2. code \in conn.retryOn /\ code # "OK" /\ code \in Codes /\ r.attempt # attemptCap
    BY Zenon, <1>3, <1>8 DEF retryable, exhausted
  <2>3. /\ d \in Delays
        /\ conn.policy.max > 0 => d <= conn.policy.max /\ (~conn.policy.jitter => d > 0)
    BY Zenon, <1>8, <1>9
  <2>4. /\ k \in RpcStates /\ k.at = "backoff" /\ k.delay = d /\ k.result = r.result /\ k.attempt = r.attempt
        /\ k.sent = r.sent /\ k.retried = r.retried \cup {code}
    BY SMTT(30), <1>2, <2>2, <2>3, Backed
  <2> HIDE DEF k
  <2>5. r.attempt < attemptCap
    BY SMTT(30), <1>1, <1>2, <1>4, <2>2
  <2>6. CallInv(k)
    BY Zenon, <1>4, <2>2, <2>3, <2>4, <2>5 DEF CallInv, Wait
  <2> QED BY Zenon, <1>1, <2>1, <2>4, <2>6, OneRpc
<1> QED BY Zenon, <1>5, <1>6, <1>7, <1>8


LEMMA InitGrpc == GrpcInit => GrpcInv
  BY AtRestIs DEF GrpcInit, GrpcInv, Undialed

LEMMA DialKeeps == ASSUME GrpcInv, Dial PROVE GrpcInv'
<1>1. conn = Undialed /\ UNCHANGED rpc /\ ~conn.ok
  BY Zenon DEF Dial, Undialed
<1>2. \A c \in Rpcs : rpc[c] = AtRest
  BY Zenon, <1>1 DEF GrpcInv
<1>3. ASSUME NEW p \in RetryPolicies, NEW x \in BOOLEAN, NEW y \in BOOLEAN,
             conn' = [ok |-> TRUE, resilient |-> x, breaker |-> y, policy |-> p, retryOn |-> p.codes]
      PROVE  GrpcInv'
  <2>1. conn'.ok /\ conn'.policy = p /\ conn'.retryOn = p.codes
    BY Zenon, <1>3
  <2>2. attemptCap' \in Nat /\ attemptCap' >= 1
    BY SMTT(30), <2>1, PolicyAssumption DEF attemptCap, attempts
  <2>3. \A c \in Rpcs : CallInv(rpc[c])'
    <3>1. conn'.policy.max \in Int /\ 0 <= conn'.policy.max
      BY Zenon, <2>1, DelayAssumption
    <3> QED BY SMTT(30), <1>1, <1>2, <2>2, <3>1, AtRestIs DEF CallInv, Wait
  <2> QED BY Zenon, <1>1, <2>1, <2>3 DEF GrpcInv
<1>4. CASE UNCHANGED conn
  BY Zenon, <1>1, <1>4 DEF GrpcInv
<1>5. \/ UNCHANGED conn
      \/ \E resilient, breaker \in BOOLEAN, p \in RetryPolicies :
           conn' = [ok |-> TRUE, resilient |-> resilient, breaker |-> resilient /\ breaker,
                    policy |-> p, retryOn |-> p.codes]
  BY ZenonT(30) DEF Dial
<1>6. ASSUME NEW x \in BOOLEAN, NEW y \in BOOLEAN PROVE (x /\ y) \in BOOLEAN
  BY Zenon
<1> QED BY Zenon, <1>3, <1>4, <1>5, <1>6

LEMMA InvokeKeeps == ASSUME GrpcInv, NEW c \in Rpcs, Invoke(c) PROVE GrpcInv'
<1> DEFINE p == IF conn.resilient THEN "loop" ELSE "wire"
           n == IF conn.resilient THEN 0 ELSE 1
           k1 == [AtRest EXCEPT !.at = p]
           k == [k1 EXCEPT !.sent = n]
<1>1. conn.ok /\ UNCHANGED conn /\ rpc' = [rpc EXCEPT ![c] = k]
  BY Zenon DEF Invoke, set
<1>2. /\ p \in Places /\ p \in {"loop", "wire"} /\ n \in Nat /\ n <= 1
      /\ p = "loop" => n = 0
      /\ p = "wire" => n = 1
  BY DEF Places
<1> HIDE DEF p, n
<1>3. k1 \in RpcStates /\ k1.at = p /\ k1.delay = 0 /\ k1.result = "OK" /\ k1.attempt = 1 /\ k1.retried = {}
  BY Zenon, <1>2, AtRestIs DEF RpcStates
<1> HIDE DEF k1
<1>4. k \in RpcStates /\ k.at = p /\ k.delay = 0 /\ k.result = "OK" /\ k.attempt = 1 /\ k.sent = n /\ k.retried = {}
  BY Zenon, <1>2, <1>3 DEF RpcStates
<1> HIDE DEF k
<1>5. CallInv(k)
  BY <1>1, <1>2, <1>4, CapIs, ConnPolicy DEF CallInv, Wait
<1> QED BY Zenon, <1>1, <1>4, <1>5, OneRpc

(* A call that ends with its context's error *)
LEMMA CancelledKeeps ==
  ASSUME GrpcInv, NEW c \in Rpcs, rpc[c].at # "idle", rpc[c].done, return(c, rpc[c], "ctx"), UNCHANGED conn
  PROVE  GrpcInv'
<1> DEFINE r == rpc[c]
           res == "ctx"
           k == returned(r, res)
<1>1. rpc' = [rpc EXCEPT ![c] = k]
  BY Zenon DEF return, set, returned
<1>2. /\ conn.ok /\ r \in RpcStates /\ CallInv(r) /\ r.attempt \in Nat /\ r.sent \in Nat
      /\ res \in Outcomes /\ res = "ctx"
  BY Zenon, UnderWay DEF Outcomes, Codes
<1> HIDE DEF res
<1>3. /\ k \in RpcStates /\ k.at = "idle" /\ k.result = res /\ k.delay = 0 /\ k.attempt = r.attempt
      /\ k.sent = r.sent /\ k.retried = r.retried /\ k.done = r.done
  BY ZenonT(30), <1>2, Returned
<1> HIDE DEF k
<1>4. Cause(k)
  BY Zenon, <1>2, <1>3 DEF Cause
<1>5. Wait(k)
  BY Zenon, <1>2, <1>3, ConnPolicy DEF Wait
<1>6. k.sent \in {k.attempt, k.attempt - 1}
  BY Zenon, <1>2, <1>3 DEF CallInv
<1>7. CallInv(k)
  BY Zenon, <1>2, <1>3, <1>4, <1>5, <1>6 DEF CallInv
<1> QED BY Zenon, <1>1, <1>2, <1>3, <1>7, OneRpc

(* A call whose attempt goes to the server *)
LEMMA SentKeeps ==
  ASSUME GrpcInv, NEW c \in Rpcs, rpc[c].at \in {"loop", "call"}, UNCHANGED conn,
         set(c, [rpc[c] EXCEPT !.at = "wire", !.sent = @ + 1])
  PROVE  GrpcInv'
<1> DEFINE r == rpc[c]
           k == wired(r)
<1>1. rpc' = [rpc EXCEPT ![c] = k]
  BY Zenon DEF set, wired
<1>2. conn.ok /\ r \in RpcStates /\ CallInv(r) /\ r.attempt \in Nat /\ r.sent \in Nat /\ attemptCap \in Nat
  BY Zenon, UnderWay
<1>3. /\ k \in RpcStates /\ k.at = "wire" /\ k.delay = r.delay /\ k.result = r.result /\ k.attempt = r.attempt /\ k.sent = r.sent + 1
      /\ k.retried = r.retried
  BY Zenon, <1>2, Wired
<1> HIDE DEF k
<1>4. CallInv(k)
  BY <1>2, <1>3 DEF CallInv, Wait
<1> QED BY Zenon, <1>1, <1>2, <1>3, <1>4, OneRpc

LEMMA LoopHeadKeeps == ASSUME GrpcInv, NEW c \in Rpcs, LoopHead(c) PROVE GrpcInv'
<1>1. rpc[c].at = "loop" /\ UNCHANGED conn
  BY Zenon DEF LoopHead
<1>2. CASE rpc[c].done
  BY Zenon, <1>1, <1>2, CancelledKeeps DEF LoopHead
<1>3. CASE ~rpc[c].done /\ ~conn.breaker
  BY Zenon, <1>1, <1>3, SentKeeps DEF LoopHead
<1>4. CASE ~rpc[c].done /\ conn.breaker
  <2> DEFINE r == rpc[c]
             p == "call"
             k == [r EXCEPT !.at = p]
  <2>1. rpc' = [rpc EXCEPT ![c] = k]
    BY Zenon, <1>4 DEF LoopHead, set
  <2>2. conn.ok /\ r \in RpcStates /\ CallInv(r) /\ p \in Places /\ p = "call"
    BY Zenon, <1>1, UnderWay DEF Places
  <2> HIDE DEF p
  <2>3. /\ k \in RpcStates /\ k.at = p /\ k.delay = r.delay /\ k.result = r.result
        /\ k.attempt = r.attempt /\ k.sent = r.sent /\ k.retried = r.retried
    BY Zenon, <2>2 DEF RpcStates
  <2> HIDE DEF k
  <2>4. CallInv(k)
    BY Zenon, <1>1, <1>4, <2>2, <2>3 DEF CallInv, Wait
  <2> QED BY Zenon, <1>1, <2>1, <2>2, <2>3, <2>4, OneRpc
<1> QED BY Zenon, <1>2, <1>3, <1>4

LEMMA WakeKeeps == ASSUME GrpcInv, NEW c \in Rpcs, Wake(c) PROVE GrpcInv'
<1> DEFINE r == rpc[c]
           k == woken(r)
<1>1. rpc' = [rpc EXCEPT ![c] = k] /\ r.at = "backoff" /\ UNCHANGED conn
  BY Zenon DEF Wake, set, woken
<1>2. conn.ok /\ r \in RpcStates /\ CallInv(r) /\ r.attempt \in Nat /\ r.sent \in Nat /\ attemptCap \in Nat
  BY Zenon, <1>1, UnderWay
<1>3. /\ k \in RpcStates /\ k.at = "loop" /\ k.delay = 0 /\ k.result = r.result /\ k.attempt = r.attempt + 1 /\ k.sent = r.sent
      /\ k.retried = r.retried
  BY Zenon, <1>2, Woken
<1> HIDE DEF k
<1>4. CallInv(k)
  BY SMTT(30), <1>1, <1>2, <1>3, ConnPolicy DEF CallInv, Wait
<1> QED BY Zenon, <1>1, <1>2, <1>3, <1>4, OneRpc

LEMMA CancelRpcKeeps == ASSUME GrpcInv, NEW c \in Rpcs, CancelRpc(c) PROVE GrpcInv'
<1> DEFINE r == rpc[c]
           t == TRUE
           k == [r EXCEPT !.done = t]
<1>1. rpc' = [rpc EXCEPT ![c] = k] /\ r.at # "idle" /\ UNCHANGED conn
  BY Zenon DEF CancelRpc, set
<1>2. conn.ok /\ r \in RpcStates /\ CallInv(r)
  BY Zenon, <1>1, UnderWay
<1>3. t \in BOOLEAN
  BY Zenon
<1> HIDE DEF t
<1>4. /\ k \in RpcStates /\ k.at = r.at /\ k.delay = r.delay /\ k.result = r.result /\ k.attempt = r.attempt /\ k.sent = r.sent /\ k.retried = r.retried
  BY Zenon, <1>2, <1>3 DEF RpcStates
<1> HIDE DEF k
<1>5. CallInv(k)
  BY Zenon, <1>1, <1>2, <1>4 DEF CallInv, Wait
<1> QED BY Zenon, <1>1, <1>2, <1>4, <1>5, OneRpc

LEMMA GrpcStepKeeps == GrpcInv /\ [GrpcNext]_grpcVars => GrpcInv'
<1> SUFFICES ASSUME GrpcInv, [GrpcNext]_grpcVars PROVE GrpcInv'
  OBVIOUS
<1>1. CASE Dial
  BY Zenon, <1>1, DialKeeps
<1>2. CASE UNCHANGED <<conn, rpc>>
  BY ZenonT(30), <1>2 DEF GrpcInv, CallInv, Cause, Wait, attemptCap
<1>3. CASE BreakerTick
  BY Zenon, <1>2, <1>3 DEF BreakerTick
<1>4. ASSUME NEW c \in Rpcs, Invoke(c) PROVE GrpcInv'
  BY Zenon, <1>4, InvokeKeeps
<1>5. ASSUME NEW c \in Rpcs, LoopHead(c) PROVE GrpcInv'
  BY ZenonT(30), <1>5, LoopHeadKeeps
<1>6. ASSUME NEW c \in Rpcs, Execute(c) PROVE GrpcInv'
  <2>1. rpc[c].at = "call" /\ UNCHANGED conn
    BY Zenon, <1>6 DEF Execute
  <2>2. CASE set(c, [rpc[c] EXCEPT !.at = "wire", !.sent = @ + 1])
    BY Zenon, <2>1, <2>2, SentKeeps
  <2>3. CASE afterAttempt(c, "ErrOpen")
    <3> DEFINE code == "ErrOpen"
    <3>1. code \in Codes \cup {"ErrOpen"} /\ afterAttempt(c, code) /\ code = "ErrOpen"
      BY Zenon, <2>3
    <3> HIDE DEF code
    <3> QED BY Zenon, <2>1, <3>1, OutcomeKeeps
  <2> QED BY Zenon, <1>6, <2>2, <2>3 DEF Execute
<1>7. ASSUME NEW c \in Rpcs, Respond(c) PROVE GrpcInv'
  <2>1. rpc[c].at = "wire" /\ UNCHANGED conn
    BY Zenon, <1>7 DEF Respond
  <2>2. PICK code \in Codes : afterAttempt(c, code)
    BY Zenon, <1>7 DEF Respond
  <2>3. code \in Codes \cup {"ErrOpen"}
    BY Zenon, <2>2
  <2> QED BY Zenon, <2>1, <2>2, <2>3, OutcomeKeeps
<1>8. ASSUME NEW c \in Rpcs, Wake(c) PROVE GrpcInv'
  BY ZenonT(30), <1>8, WakeKeeps
<1>9. ASSUME NEW c \in Rpcs, SleepCancelled(c) PROVE GrpcInv'
  BY Zenon, <1>9, CancelledKeeps DEF SleepCancelled
<1>10. ASSUME NEW c \in Rpcs, CancelRpc(c) PROVE GrpcInv'
  BY ZenonT(30), <1>10, CancelRpcKeeps
<1>11. CASE UNCHANGED grpcVars
  BY Zenon, <1>2, <1>11 DEF grpcVars
<1> QED BY Zenon, <1>1, <1>3, <1>4, <1>5, <1>6, <1>7, <1>8, <1>9, <1>10, <1>11 DEF GrpcNext

(***************************************************************************)
(* The gRPC connection uses its breaker as Execute allows: every step of   *)
(* the calls is a step of the circuit breaker or does not touch it, so     *)
(* what is proved of the breaker holds on a connection.                    *)
(***************************************************************************)
THEOREM GrpcUsesBreaker == GrpcSpec => Breaker!Spec
<1> DEFINE Flaky == bupstream = "flaky"
<1>1. GrpcInit => Breaker!Init /\ Flaky
  BY Zenon DEF GrpcInit, Breaker!Init
<1>2. Flaky /\ [GrpcNext]_grpcVars => Flaky' /\ [Breaker!Next]_(Breaker!vars)
  <2> SUFFICES ASSUME Flaky, [GrpcNext]_grpcVars
               PROVE  Flaky' /\ (Breaker!Next \/ UNCHANGED Breaker!vars)
    OBVIOUS
  <2>1. CASE UNCHANGED breakerOf
    BY Zenon, <2>1 DEF breakerOf, Breaker!vars, Breaker!breakerVars
  <2>2. CASE BreakerTick
    BY Zenon, <2>2 DEF BreakerTick, Breaker!Tick, Breaker!Next
  <2>3. ASSUME NEW c \in Rpcs, Breaker!Reject(c) \/ Breaker!Admit(c)
        PROVE  Flaky' /\ Breaker!Next
    BY Zenon, <2>3 DEF Breaker!Next, Breaker!Reject, Breaker!Admit
  <2>4. ASSUME NEW c \in Rpcs, NEW o \in {"nil", "err"}, Breaker!FinishWith(c, o)
        PROVE  Flaky' /\ Breaker!Next
    <3>1. Breaker!Finish(c) /\ Flaky'
      BY Zenon, <2>4 DEF Breaker!Finish, Breaker!Outcome, Breaker!FinishWith
    <3> QED BY Zenon, <3>1 DEF Breaker!Next
  <2>5. ASSUME NEW c \in Rpcs, Execute(c) PROVE Flaky' /\ Breaker!Next
    BY Zenon, <2>3, <2>5 DEF Execute
  <2>6. ASSUME NEW c \in Rpcs, Respond(c) PROVE UNCHANGED breakerOf \/ (Flaky' /\ Breaker!Next)
    <3>1. PICK code \in Codes :
            IF conn.breaker THEN Breaker!FinishWith(c, IF code = "OK" THEN "nil" ELSE "err")
            ELSE UNCHANGED breakerOf
      BY Zenon, <2>6 DEF Respond
    <3> DEFINE o == IF code = "OK" THEN "nil" ELSE "err"
    <3>2. o \in {"nil", "err"}
      OBVIOUS
    <3> HIDE DEF o
    <3>3. Breaker!FinishWith(c, o) \/ UNCHANGED breakerOf
      BY Zenon, <3>1 DEF o
    <3> QED BY Zenon, <2>4, <3>2, <3>3
  <2>7. ASSUME NEW c \in Rpcs,
               Invoke(c) \/ LoopHead(c) \/ Wake(c) \/ SleepCancelled(c) \/ CancelRpc(c)
        PROVE  UNCHANGED breakerOf
    BY Zenon, <2>7 DEF Invoke, LoopHead, Wake, SleepCancelled, CancelRpc
  <2>8. CASE Dial \/ UNCHANGED grpcVars
    BY Zenon, <2>1, <2>8 DEF Dial, grpcVars
  <2> QED BY Zenon, <2>1, <2>2, <2>5, <2>6, <2>7, <2>8 DEF GrpcNext
<1> QED BY <1>1, <1>2, PTL DEF GrpcSpec, Breaker!Spec

(* Every step of the breaker keeps its types. *)
LEMMA BreakerTyped ==
  Breaker!TypeOK /\ [Breaker!Next]_(Breaker!vars) => Breaker!TypeOK'
<1> SUFFICES ASSUME Breaker!TypeOK, [Breaker!Next]_(Breaker!vars) PROVE Breaker!TypeOK'
  OBVIOUS
<1> USE RpcBreakerAssumption DEF Breaker!TypeOK, Breaker!State
<1>1. CASE Breaker!Observe \/ \E c \in Rpcs : Breaker!Reject(c)
  BY Zenon, <1>1 DEF Breaker!Observe, Breaker!Reject, Breaker!refresh, Breaker!RefreshedState,
     Breaker!RefreshedProbe, Breaker!CooldownElapsed
<1>2. CASE Breaker!Tick \/ Breaker!Heal
  BY <1>2 DEF Breaker!Tick, Breaker!Heal, Breaker!breakerVars
<1>3. ASSUME NEW c \in Rpcs, Breaker!Admit(c) PROVE Breaker!TypeOK'
  BY Zenon, <1>3 DEF Breaker!Admit, Breaker!RefreshedState, Breaker!RefreshedProbe, Breaker!CooldownElapsed
<1>4. ASSUME NEW c \in Rpcs, NEW o, Breaker!FinishWith(c, o) PROVE Breaker!TypeOK'
  <2>1. /\ bpc' \in [Rpcs -> {"idle", "running"}] /\ badmitted' \in [Rpcs -> Breaker!State]
        /\ UNCHANGED bupstream
    BY Zenon, <1>4 DEF Breaker!FinishWith, Breaker!leave
  <2>2. bstreak' \in 0..RpcThreshold
    BY <1>4 DEF Breaker!FinishWith, Breaker!Saturate
  <2>3. Breaker!afterCall(o)
    BY Zenon, <1>4 DEF Breaker!FinishWith
  <2>4. bprobe' \in BOOLEAN
    BY Zenon, <2>3 DEF Breaker!afterCall
  <2>5. bstate' \in Breaker!State /\ bfailures' \in 0..RpcThreshold /\ bsince' \in 0..RpcCooldown
    BY <2>3 DEF Breaker!afterCall, Breaker!IsFailure, Breaker!trip, Breaker!reset, Breaker!Saturate,
       Breaker!ThresholdReached
  <2> QED BY Zenon, <2>1, <2>2, <2>4, <2>5
<1>5. ASSUME NEW c \in Rpcs, Breaker!Panic(c) PROVE Breaker!TypeOK'
  BY Zenon, <1>5 DEF Breaker!Panic
<1>6. CASE UNCHANGED Breaker!vars
  BY Zenon, <1>6 DEF Breaker!vars, Breaker!breakerVars
<1> QED BY Zenon, <1>1, <1>2, <1>3, <1>4, <1>5, <1>6 DEF Breaker!Next, Breaker!Finish

(***************************************************************************)
(* For every retry policy a service may configure, any number of           *)
(* goroutines and whatever they do to the breaker they share:              *)
(* UnaryClientInterceptor sends a request again only after a status the    *)
(* service chose to retry and never more often than Policy.MaxAttempts     *)
(* allows, what it returns is the cause, and with a MaxDelay no wait of    *)
(* Backoff is longer, however far the exponential has grown.               *)
(***************************************************************************)
THEOREM GrpcKept == GrpcSpec => []GrpcContract
<1>1. Breaker!Init => Breaker!TypeOK
  <2> SUFFICES ASSUME Breaker!Init PROVE Breaker!TypeOK
    OBVIOUS
  <2> USE DEF Breaker!Init, Breaker!NewCircuitBreaker, Breaker!State
  <2>1. bprobe \in BOOLEAN
    BY Zenon
  <2>2. /\ bstate \in Breaker!State /\ bfailures \in 0..RpcThreshold /\ bsince \in 0..RpcCooldown
        /\ bstreak \in 0..RpcThreshold /\ bupstream \in {"flaky", "healthy"}
    BY RpcBreakerAssumption
  <2>3. bpc \in [Rpcs -> {"idle", "running"}] /\ badmitted \in [Rpcs -> Breaker!State]
    OBVIOUS
  <2> QED BY Zenon, <2>1, <2>2, <2>3 DEF Breaker!TypeOK
<1>2. GrpcSpec => []Breaker!TypeOK
  BY <1>1, BreakerTyped, GrpcUsesBreaker, PTL DEF Breaker!Spec
<1> QED BY <1>2, InitGrpc, GrpcStepKeeps, GrpcInvGives, PTL DEF GrpcSpec

-----------------------------------------------------------------------------
(***************************************************************************)
(* The rate limiters                                                       *)
(***************************************************************************)

Slots == Limiters \X Keys
Stages == {"idle", "look", "make", "allow", "over"}
Requests == [at : Stages, key : Keys, limiter : Limiters, bucket : Nat]

(* What a bucket may have let through by now. *)
Quota == Burst + Refill * seconds

(* The tokens that a key has spent and those in its bucket add up to the   *)
(* burst at least, and to no more than what time has refilled; a refused   *)
(* key has spent the burst.                                                *)
SlotInv(s) ==
  /\ buckets[s] <= Len(tokens)
  /\ buckets[s] = 0 => allowed[s] = 0
  /\ buckets[s] # 0 => /\ allowed[s] + tokens[buckets[s]] <= Quota
                       /\ allowed[s] + tokens[buckets[s]] >= Burst
  /\ s \in denied => allowed[s] >= Burst

(* No two keys share a bucket. *)
RateData ==
  /\ seconds \in 0..MaxSeconds /\ tokens \in Seq(0..Burst)
  /\ buckets \in [Slots -> Nat] /\ allowed \in [Slots -> Nat] /\ denied \subseteq Slots
  /\ \A s \in Slots : SlotInv(s)
  /\ \A s, t \in Slots : buckets[s] # 0 /\ buckets[s] = buckets[t] => s = t

(* The requests arrive in order, and each makes at most one RateLimiter. *)
Arrived(n) ==
  /\ \A v \in Visits : visit[v].at # "idle" <=> v <= n
  /\ limits <= n + (IF limiterOf["limited"] = 1 THEN 2 ELSE 3)

Arrivals ==
  /\ star \in BOOLEAN /\ limits \in Nat /\ limits >= 2 /\ limiterOf \in [Paths -> 0..limits]
  /\ \E n \in 0..MaxVisits : Arrived(n)

(* A request that has found a bucket has that of its key. *)
VisitInv(r) ==
  /\ r.bucket <= Len(tokens)
  /\ r.at = "allow" => r.bucket # 0 /\ r.bucket = buckets[<<r.limiter, r.key>>]

RateInv ==
  /\ RateData /\ Arrivals
  /\ visit \in [Visits -> Requests] /\ \A v \in Visits : VisitInv(visit[v])

LEMMA LimitersAre == Limiters = 1..(3 + MaxVisits)
BY Zenon DEF Limiters

LEMMA QuotaIs == ASSUME RateInv PROVE Quota \in Nat /\ Quota >= Burst /\ seconds \in Nat
<1>1. seconds \in Nat
  BY RateAssumption DEF RateInv, RateData
<1>2. Refill * seconds \in Nat
  BY <1>1, RateAssumption
<1> QED BY <1>1, <1>2, RateAssumption DEF Quota

LEMMA LimitsWithin == ASSUME RateInv PROVE limits \in 2..(3 + MaxVisits)
<1>1. PICK n \in 0..MaxVisits : Arrived(n)
  BY Zenon DEF RateInv, Arrivals
<1> QED BY <1>1, RateAssumption DEF RateInv, Arrivals, Arrived

LEMMA BucketHolds ==
  ASSUME RateInv, NEW s \in Slots, buckets[s] # 0
  PROVE  /\ buckets[s] \in 1..Len(tokens) /\ tokens[buckets[s]] \in 0..Burst
         /\ tokens[buckets[s]] \in Nat /\ tokens[buckets[s]] <= Burst
<1>1. tokens \in Seq(0..Burst) /\ Len(tokens) \in Nat /\ buckets[s] \in Nat
  BY DEF RateInv, RateData
<1>2. buckets[s] <= Len(tokens)
  <2>1. SlotInv(s)
    BY Zenon DEF RateInv, RateData
  <2> QED BY Zenon, <2>1 DEF SlotInv
<1>3. buckets[s] \in 1..Len(tokens)
  BY <1>1, <1>2
<1>4. tokens[buckets[s]] \in 0..Burst
  BY <1>1, <1>3, RateAssumption
<1> QED BY <1>3, <1>4, RateAssumption

LEMMA RateInvGives == RateInv => RateContract
<1> SUFFICES ASSUME RateInv PROVE RateContract
  OBVIOUS
<1>1. star \in BOOLEAN
  BY Zenon DEF RateInv, Arrivals
<1>2. limiterOf \in [Paths -> 0..(3 + MaxVisits)]
  BY LimitersAre, LimitsWithin, RateAssumption DEF RateInv, Arrivals
<1>3. buckets \in [Limiters \X Keys -> 0..Len(tokens)]
  <2>1. \A s \in Slots : buckets[s] \in 0..Len(tokens)
    BY DEF RateInv, RateData, SlotInv
  <2> QED BY Zenon, <2>1 DEF RateInv, RateData, Slots
<1>4. visit \in [Visits -> [at : {"idle", "look", "make", "allow", "over"}, key : Keys,
                            limiter : Limiters, bucket : 0..Len(tokens)]]
  <2>1. ASSUME NEW v \in Visits
        PROVE  visit[v] \in [at : {"idle", "look", "make", "allow", "over"}, key : Keys,
                             limiter : Limiters, bucket : 0..Len(tokens)]
    <3>1. visit[v] \in Requests /\ visit[v].bucket <= Len(tokens)
      BY Zenon DEF RateInv, VisitInv
    <3>2. Len(tokens) \in Nat
      BY DEF RateInv, RateData
    <3> QED BY <3>1, <3>2 DEF Requests, Stages
  <2> QED BY Zenon, <2>1 DEF RateInv
<1>5. RateTypeOK
  BY Zenon, <1>1, <1>2, <1>3, <1>4, LimitersAre, LimitsWithin DEF RateInv, RateData, RateTypeOK
<1>6. \A s \in Slots : allowed[s] <= Quota
  <2> SUFFICES ASSUME NEW s \in Slots PROVE allowed[s] <= Quota
    OBVIOUS
  <2>1. allowed[s] \in Nat /\ SlotInv(s) /\ buckets[s] \in Nat
    BY Zenon DEF RateInv, RateData
  <2>2. CASE buckets[s] = 0
    BY <2>1, <2>2, QuotaIs DEF SlotInv
  <2>3. CASE buckets[s] # 0
    BY <2>1, <2>3, BucketHolds, QuotaIs DEF SlotInv
  <2> QED BY Zenon, <2>2, <2>3
<1>7. WithinRate
  BY Zenon, <1>6 DEF WithinRate, Quota, RateInv, RateData
<1>8. RefusedOnlyWhenSpent
  BY Zenon DEF RefusedOnlyWhenSpent, RateInv, RateData, SlotInv
<1> QED BY Zenon, <1>5, <1>7, <1>8 DEF RateContract

LEMMA IdleRequest == idle \in Requests /\ idle.at = "idle" /\ idle.bucket = 0 /\ [idle EXCEPT !.at = "over"] \in Requests
                     /\ [idle EXCEPT !.at = "over"].at = "over" /\ [idle EXCEPT !.at = "over"].bucket = 0
<1> DEFINE k == CHOOSE k \in Keys : TRUE
<1>1. k \in Keys
  <2>1. PICK u : u \in Visitors
    BY Zenon, RateAssumption
  <2>2. <<"ip", u>> \in Keys
    BY Zenon, <2>1 DEF Keys
  <2> QED BY Zenon, <2>2
<1>2. 1 \in Limiters
  BY LimitersAre, RateAssumption
<1>3. idle = [at |-> "idle", key |-> k, limiter |-> 1, bucket |-> 0]
  BY Zenon DEF idle
<1> HIDE DEF k
<1> QED BY Zenon, <1>1, <1>2, <1>3 DEF Requests, Stages

LEMMA InitRate == RateInit => RateInv
<1> SUFFICES ASSUME RateInit PROVE RateInv
  OBVIOUS
<1>1. RateData
  <2>1. /\ seconds \in 0..MaxSeconds /\ tokens \in Seq(0..Burst) /\ Len(tokens) = 0
        /\ buckets \in [Slots -> Nat] /\ allowed \in [Slots -> Nat] /\ denied = {}
        /\ \A s \in Slots : buckets[s] = 0 /\ allowed[s] = 0
    BY RateAssumption DEF RateInit, Slots
  <2> QED BY <2>1 DEF RateData, SlotInv
<1>2. Arrivals
  <2>1. star \in BOOLEAN
    BY Zenon DEF RateInit
  <2>2. Arrived(0)
    BY IdleRequest DEF RateInit, Arrived, Visits, Paths
  <2>3. limits \in Nat /\ limits >= 2 /\ limiterOf \in [Paths -> 0..limits]
    BY DEF RateInit
  <2> QED BY <2>1, <2>2, <2>3, RateAssumption DEF Arrivals
<1>3. visit \in [Visits -> Requests] /\ \A v \in Visits : VisitInv(visit[v])
  BY IdleRequest DEF RateInit, VisitInv
<1> QED BY Zenon, <1>1, <1>2, <1>3 DEF RateInv


(* A step of one request, after which no key has lost its bucket. *)
LEMMA OneVisit ==
  ASSUME RateInv, NEW v \in Visits, NEW r \in Requests, visit' = [visit EXCEPT ![v] = r],
         RateData', Arrivals', r.bucket <= Len(tokens'),
         r.at = "allow" => r.bucket # 0 /\ r.bucket = buckets'[<<r.limiter, r.key>>],
         Len(tokens') >= Len(tokens), \A s \in Slots : buckets[s] # 0 => buckets'[s] = buckets[s]
  PROVE  RateInv'
<1>1. ASSUME NEW w \in Visits PROVE VisitInv(visit[w])'
  <2>1. CASE w = v
    BY Zenon, <2>1 DEF RateInv, VisitInv
  <2>2. CASE w # v
    <3>1. visit'[w] = visit[w] /\ visit[w] \in Requests /\ VisitInv(visit[w])
      BY Zenon, <2>2 DEF RateInv
    <3>2. visit[w].bucket \in Nat /\ <<visit[w].limiter, visit[w].key>> \in Slots
      BY Zenon, <3>1 DEF Requests, Slots
    <3>3. Len(tokens) \in Nat /\ Len(tokens') \in Nat
      BY DEF RateInv, RateData
    <3> QED BY <3>1, <3>2, <3>3 DEF VisitInv
  <2> QED BY Zenon, <2>1, <2>2
<1>2. visit' \in [Visits -> Requests]
  BY Zenon DEF RateInv
<1> QED BY Zenon, <1>1, <1>2 DEF RateInv

(* The requests that have arrived stay so. *)
LEMMA SameArrivals ==
  ASSUME RateInv, NEW v \in Visits, NEW r \in Requests, visit' = [visit EXCEPT ![v] = r],
         UNCHANGED <<star, limiterOf, limits>>, visit[v].at # "idle", r.at # "idle"
  PROVE  Arrivals'
<1>1. star' \in BOOLEAN
  BY Zenon DEF RateInv, Arrivals
<1>2. PICK n \in 0..MaxVisits : Arrived(n)
  BY Zenon DEF RateInv, Arrivals
<1>3. Arrived(n)'
  BY Zenon, <1>2 DEF RateInv, Arrived
<1> QED BY Zenon, <1>1, <1>2, <1>3 DEF RateInv, Arrivals

stepped(r, b, at) == [r EXCEPT !.bucket = b, !.at = at]

LEMMA Stepped ==
  ASSUME NEW r \in Requests, NEW b \in Nat, NEW at \in Stages
  PROVE  LET k == stepped(r, b, at)
         IN k \in Requests /\ k.at = at /\ k.bucket = b /\ k.limiter = r.limiter /\ k.key = r.key
<1> DEFINE k1 == [r EXCEPT !.bucket = b]
           k2 == [k1 EXCEPT !.at = at]
<1>1. k1 \in Requests /\ k1.bucket = b /\ k1.limiter = r.limiter /\ k1.key = r.key
  BY Zenon DEF Requests
<1> HIDE DEF k1
<1>2. k2 \in Requests /\ k2.at = at /\ k2.bucket = b /\ k2.limiter = r.limiter /\ k2.key = r.key
  BY Zenon, <1>1 DEF Requests
<1>3. stepped(r, b, at) = k2
  BY Zenon DEF stepped, k1, k2
<1> HIDE DEF k2
<1> QED BY Zenon, <1>2, <1>3

LEMMA ArriveKeeps ==
  ASSUME RateInv, NEW v \in Visits, NEW p \in Paths, NEW key \in Keys, Arrive(v, p, key) PROVE RateInv'
<1> DEFINE its == limiterOf[p]
           it == IF its # 0 THEN its ELSE limits + 1
           r == [at |-> "look", key |-> key, limiter |-> it, bucket |-> 0]
<1>1. /\ visit[v].at = "idle" /\ (v > 1 => visit[v - 1].at # "idle")
      /\ visit' = [visit EXCEPT ![v] = r] /\ limits' = IF its # 0 THEN limits ELSE limits + 1
      /\ UNCHANGED <<star, limiterOf, buckets, tokens, seconds, allowed, denied>>
  BY Zenon DEF Arrive
<1>2. PICK n \in 0..MaxVisits : Arrived(n)
  BY Zenon DEF RateInv, Arrivals
<1>3. v = n + 1 /\ n \in Nat /\ n + 1 \in 0..MaxVisits
  BY <1>1, <1>2, RateAssumption DEF Arrived, Visits
<1>4. /\ limits \in Nat /\ limits >= 2 /\ its \in 0..limits /\ limits <= n + 3 /\ it \in 1..limits'
      /\ limits' \in Nat /\ limits <= limits' /\ limits' <= limits + 1
  BY <1>1, <1>2, <1>3 DEF RateInv, Arrivals, Arrived
<1>5. it \in Limiters
  BY <1>3, <1>4, LimitersAre, RateAssumption
<1>6. r \in Requests /\ r.at = "look" /\ r.bucket = 0
  BY Zenon, <1>5 DEF Requests, Stages
<1> HIDE DEF it, r
<1>7. Arrived(n + 1)'
  <2>1. ASSUME NEW w \in Visits PROVE visit'[w].at # "idle" <=> w <= n + 1
    BY <1>1, <1>2, <1>3, <1>6 DEF RateInv, Arrived, Visits
  <2>2. limits' <= (n + 1) + (IF limiterOf'["limited"] = 1 THEN 2 ELSE 3)
    BY <1>1, <1>2, <1>3, <1>4 DEF Arrived
  <2> QED BY Zenon, <2>1, <2>2 DEF Arrived
<1>8. star' \in BOOLEAN
  BY Zenon, <1>1 DEF RateInv, Arrivals
<1>9. limiterOf' \in [Paths -> 0..limits']
  BY <1>1, <1>4 DEF RateInv, Arrivals
<1>10. Arrivals'
  BY <1>3, <1>4, <1>7, <1>8, <1>9 DEF Arrivals
<1>11. RateData'
  BY Zenon, <1>1 DEF RateInv, RateData, SlotInv, Quota
<1>12. tokens' = tokens /\ buckets' = buckets /\ Len(tokens) \in Nat
  BY <1>1 DEF RateInv, RateData
<1>13. r.bucket <= Len(tokens')
  BY <1>6, <1>12
<1>14. /\ Len(tokens') >= Len(tokens) /\ \A s \in Slots : buckets[s] # 0 => buckets'[s] = buckets[s]
       /\ r.at # "allow"
  BY <1>6, <1>12
<1> QED BY Zenon, <1>1, <1>6, <1>10, <1>11, <1>13, <1>14, OneVisit

LEMMA SlotOf ==
  ASSUME RateInv, NEW v \in Visits
  PROVE  slot(v) \in Slots /\ visit[v] \in Requests /\ visit[v].bucket \in Nat /\ buckets[slot(v)] \in Nat
  BY ZenonT(30) DEF RateInv, RateData, slot, Requests, Slots

LEMMA LookKeeps == ASSUME RateInv, NEW v \in Visits, Look(v) PROVE RateInv'
<1> DEFINE b == buckets[slot(v)]
           at == IF b = 0 THEN "make" ELSE "allow"
           r == stepped(visit[v], b, at)
<1>1. /\ visit[v].at = "look" /\ visit' = [visit EXCEPT ![v] = r]
      /\ UNCHANGED <<star, limiterOf, buckets, tokens, seconds, limits, allowed, denied>>
  BY Zenon DEF Look, stepped
<1>2. at \in Stages /\ at # "idle" /\ (at = "allow" => b # 0) /\ b \in Nat /\ b <= Len(tokens)
  BY Zenon, SlotOf DEF Stages, RateInv, RateData, SlotInv
<1>3. b = buckets[<<visit[v].limiter, visit[v].key>>]
  BY Zenon DEF slot
<1> HIDE DEF b, at
<1>4. r \in Requests /\ r.at = at /\ r.bucket = b /\ r.limiter = visit[v].limiter /\ r.key = visit[v].key
  <2>1. visit[v] \in Requests
    BY Zenon, SlotOf
  <2> QED BY <1>2, <2>1, Stepped
<1> HIDE DEF r
<1>5. RateData'
  BY Zenon, <1>1 DEF RateInv, RateData, SlotInv, Quota
<1>8. tokens' = tokens /\ buckets' = buckets /\ Len(tokens) \in Nat
  BY <1>1 DEF RateInv, RateData
<1>6. /\ r.bucket <= Len(tokens')
      /\ r.at = "allow" => r.bucket # 0 /\ r.bucket = buckets'[<<r.limiter, r.key>>]
  BY Zenon, <1>2, <1>3, <1>4, <1>8
<1>7. Arrivals'
  BY Zenon, <1>1, <1>2, <1>4, SameArrivals
<1>9. Len(tokens') >= Len(tokens) /\ \A s \in Slots : buckets[s] # 0 => buckets'[s] = buckets[s]
  BY <1>8
<1> QED BY Zenon, <1>1, <1>4, <1>5, <1>6, <1>7, <1>9, OneVisit


LEMMA MakeKeeps == ASSUME RateInv, NEW v \in Visits, Make(v) PROVE RateInv'
<1> DEFINE mine == slot(v)
           b == buckets'[mine]
           at == "allow"
           r == stepped(visit[v], b, at)
<1>1. /\ visit[v].at = "make" /\ visit' = [visit EXCEPT ![v] = r]
      /\ UNCHANGED <<star, limiterOf, seconds, limits, allowed, denied>>
  BY Zenon DEF Make, stepped
<1>2. /\ mine \in Slots /\ mine = <<visit[v].limiter, visit[v].key>> /\ visit[v] \in Requests
      /\ at \in Stages /\ at = "allow"
  BY Zenon, SlotOf DEF slot, Stages
<1>3. tokens \in Seq(0..Burst) /\ Len(tokens) \in Nat /\ Burst \in Nat /\ Burst \in 0..Burst
  BY RateAssumption DEF RateInv, RateData
<1>4. /\ buckets \in [Slots -> Nat] /\ allowed \in [Slots -> Nat] /\ \A s \in Slots : SlotInv(s)
      /\ \A s, t \in Slots : buckets[s] # 0 /\ buckets[s] = buckets[t] => s = t
  BY Zenon DEF RateInv, RateData
<1>5. /\ RateData' /\ b \in Nat /\ b # 0 /\ b <= Len(tokens') /\ Len(tokens') >= Len(tokens)
      /\ \A s \in Slots : buckets[s] # 0 => buckets'[s] = buckets[s]
  <2>1. CASE buckets[mine] # 0
    <3>1. UNCHANGED <<buckets, tokens>>
      BY Zenon, <2>1 DEF Make
    <3>2. RateData'
      BY Zenon, <1>1, <3>1 DEF RateInv, RateData, SlotInv, Quota
    <3>3. buckets[mine] <= Len(tokens)
      BY Zenon, <1>2, <1>4 DEF SlotInv
    <3> QED BY <1>2, <1>3, <1>4, <2>1, <3>1, <3>2, <3>3
  <2>2. CASE buckets[mine] = 0
    <3>1. tokens' = Append(tokens, Burst) /\ buckets' = [buckets EXCEPT ![mine] = Len(tokens')]
      BY Zenon, <2>2 DEF Make
    <3>2. /\ tokens' \in Seq(0..Burst) /\ Len(tokens') = Len(tokens) + 1 /\ tokens'[Len(tokens) + 1] = Burst
          /\ \A i \in 1..Len(tokens) : tokens'[i] = tokens[i]
      BY <1>3, <3>1
    <3>3. /\ buckets' \in [Slots -> Nat] /\ b = Len(tokens) + 1
          /\ \A s \in Slots : s # mine => buckets'[s] = buckets[s]
      BY <1>2, <1>3, <1>4, <3>1, <3>2
    <3>4. \A s \in Slots : buckets[s] \in 0..Len(tokens)
      BY <1>3, <1>4 DEF SlotInv
    <3>5. ASSUME NEW s \in Slots PROVE SlotInv(s)'
      <4>1. Quota' = Quota /\ Quota \in Nat /\ Quota >= Burst /\ allowed' = allowed /\ denied' = denied /\ SlotInv(s)
        BY Zenon, <1>1, <1>4, QuotaIs DEF Quota
      <4>2. CASE s = mine
        <5>1. allowed[s] = 0 /\ buckets'[s] = Len(tokens) + 1
          BY Zenon, <2>2, <3>3, <4>1, <4>2 DEF SlotInv
        <5> QED BY SMTT(30), <1>3, <3>2, <4>1, <5>1 DEF SlotInv
      <4>3. CASE s # mine
        <5>1. buckets'[s] = buckets[s] /\ buckets[s] \in 0..Len(tokens)
          BY Zenon, <3>3, <3>4, <4>3
        <5>2. buckets[s] # 0 => tokens'[buckets[s]] = tokens[buckets[s]]
          BY <1>3, <3>2, <5>1
        <5> QED BY <1>3, <3>2, <4>1, <5>1, <5>2 DEF SlotInv
      <4> QED BY Zenon, <4>2, <4>3
    <3>6. ASSUME NEW s \in Slots, NEW t \in Slots, buckets'[s] # 0, buckets'[s] = buckets'[t] PROVE s = t
      <4>1. \A x \in Slots : buckets[x] # Len(tokens) + 1
        BY <1>3, <3>4
      <4>2. \A x \in Slots : x # mine => buckets'[x] # b
        BY Zenon, <3>3, <4>1
      <4>3. (s = mine /\ t = mine) \/ (s # mine /\ t # mine)
        BY Zenon, <3>6, <4>2
      <4> QED BY Zenon, <1>4, <3>3, <3>6, <4>3
    <3>7. RateData'
      BY Zenon, <1>1, <3>2, <3>3, <3>5, <3>6 DEF RateInv, RateData
    <3> QED BY <1>3, <2>2, <3>2, <3>3, <3>7
  <2> QED BY Zenon, <2>1, <2>2
<1>6. b = buckets'[<<visit[v].limiter, visit[v].key>>]
  BY Zenon, <1>2
<1> HIDE DEF b, at
<1>7. r \in Requests /\ r.at = at /\ r.bucket = b /\ r.limiter = visit[v].limiter /\ r.key = visit[v].key
  <2>1. visit[v] \in Requests /\ b \in Nat /\ at \in Stages
    BY Zenon, <1>2, <1>5
  <2> QED BY <2>1, Stepped
<1> HIDE DEF r
<1>8. /\ r.bucket <= Len(tokens')
      /\ r.at = "allow" => r.bucket # 0 /\ r.bucket = buckets'[<<r.limiter, r.key>>]
  BY Zenon, <1>5, <1>6, <1>7
<1>9. Arrivals'
  BY Zenon, <1>1, <1>2, <1>7, SameArrivals
<1> QED BY Zenon, <1>1, <1>5, <1>7, <1>8, <1>9, OneVisit

LEMMA AllowKeeps == ASSUME RateInv, NEW v \in Visits, Allow(v) PROVE RateInv'
<1> DEFINE b == visit[v].bucket
           mine == slot(v)
           r == [idle EXCEPT !.at = "over"]
<1>1. /\ visit[v].at = "allow" /\ visit' = [visit EXCEPT ![v] = r]
      /\ UNCHANGED <<star, limiterOf, buckets, seconds, limits>>
  BY Zenon DEF Allow
<1>2. r \in Requests /\ r.at = "over" /\ r.bucket = 0
  BY Zenon, IdleRequest
<1> HIDE DEF r
<1>3. mine \in Slots /\ b = buckets[mine] /\ b # 0
  BY Zenon, <1>1, SlotOf DEF RateInv, VisitInv, slot
<1>4. b \in 1..Len(tokens) /\ tokens[b] \in Nat /\ tokens[b] <= Burst /\ tokens[b] \in 0..Burst
  BY Zenon, <1>3, BucketHolds
<1>5. /\ tokens \in Seq(0..Burst) /\ Len(tokens) \in Nat /\ Burst \in Nat /\ allowed \in [Slots -> Nat]
      /\ buckets \in [Slots -> Nat] /\ denied \subseteq Slots /\ \A s \in Slots : SlotInv(s)
      /\ \A s, t \in Slots : buckets[s] # 0 /\ buckets[s] = buckets[t] => s = t
  BY RateAssumption DEF RateInv, RateData
<1>6. Quota' = Quota /\ Quota \in Nat
  BY Zenon, <1>1, QuotaIs DEF Quota
<1>7. RateData' /\ Len(tokens') = Len(tokens)
  <2>1. CASE tokens[b] > 0
    <3>1. /\ tokens' = [tokens EXCEPT ![b] = @ - 1]
          /\ allowed' = [allowed EXCEPT ![mine] = @ + 1] /\ UNCHANGED denied
      BY Zenon, <2>1 DEF Allow
    <3>2. /\ tokens' \in Seq(0..Burst) /\ Len(tokens') = Len(tokens) /\ tokens'[b] = tokens[b] - 1
          /\ \A i \in 1..Len(tokens) : i # b => tokens'[i] = tokens[i]
      BY <1>4, <1>5, <2>1, <3>1
    <3>3. allowed' \in [Slots -> Nat] /\ allowed'[mine] = allowed[mine] + 1
          /\ \A s \in Slots : s # mine => allowed'[s] = allowed[s]
      BY SMTT(30), <1>3, <1>5, <3>1
    <3>4. ASSUME NEW s \in Slots PROVE SlotInv(s)'
      <4>1. CASE s = mine
        <5>1. /\ allowed[s] + tokens[b] <= Quota /\ allowed[s] + tokens[b] >= Burst /\ allowed[s] \in Nat
              /\ s \in denied => allowed[s] >= Burst
          BY Zenon, <1>3, <1>5, <4>1 DEF SlotInv
        <5>2. buckets'[s] = b /\ allowed'[s] = allowed[s] + 1 /\ denied' = denied
          BY Zenon, <1>1, <1>3, <3>1, <3>3, <4>1
        <5>3. b <= Len(tokens') /\ b # 0
          BY <1>4, <3>2
        <5> HIDE DEF b, mine
        <5>4. allowed'[s] + tokens'[b] = allowed[s] + tokens[b] /\ allowed'[s] >= allowed[s]
          <6>1. tokens'[b] = tokens[b] - 1 /\ tokens[b] \in Nat /\ allowed[s] \in Nat
                /\ allowed'[s] = allowed[s] + 1
            BY Zenon, <1>4, <3>2, <5>1, <5>2
          <6> QED BY <6>1
        <5>5. /\ allowed'[s] + tokens'[b] <= Quota' /\ allowed'[s] + tokens'[b] >= Burst
          BY Zenon, <1>6, <5>1, <5>4
        <5>6. s \in denied' => allowed'[s] >= Burst
          <6>1. allowed'[s] \in Nat /\ Burst \in Nat
            BY SMTT(30), <1>5, <5>1, <5>2
          <6> QED BY <5>1, <5>2, <5>4, <6>1
        <5> QED BY Zenon, <5>2, <5>3, <5>5, <5>6 DEF SlotInv
      <4>2. CASE s # mine
        <5>1. buckets'[s] = buckets[s] /\ buckets[s] # b /\ allowed'[s] = allowed[s] /\ denied' = denied /\ SlotInv(s)
          BY ZenonT(30), <1>1, <1>3, <1>5, <3>1, <3>3, <4>2
        <5>2. buckets[s] # 0 => tokens'[buckets[s]] = tokens[buckets[s]]
          BY Zenon, <3>2, <5>1, BucketHolds
        <5> QED BY Zenon, <1>6, <3>2, <5>1, <5>2 DEF SlotInv
      <4> QED BY ZenonT(30), <4>1, <4>2
    <3> QED BY Zenon, <1>1, <1>5, <3>1, <3>2, <3>3, <3>4 DEF RateInv, RateData
  <2>2. CASE ~(tokens[b] > 0)
    <3>1. denied' = denied \cup {mine} /\ UNCHANGED <<tokens, allowed>>
      BY Zenon, <2>2 DEF Allow
    <3>2. ASSUME NEW s \in Slots PROVE SlotInv(s)'
      <4>1. allowed[mine] >= Burst
        <5>1. tokens[b] = 0 /\ allowed[mine] \in Nat /\ allowed[mine] + tokens[b] >= Burst
          BY <1>3, <1>4, <1>5, <2>2 DEF SlotInv
        <5> QED BY SMTT(30), <1>5, <5>1
      <4>2. SlotInv(s)
        BY Zenon, <1>5
      <4> QED BY Zenon, <1>1, <1>6, <3>1, <4>1, <4>2 DEF SlotInv
    <3> QED BY Zenon, <1>1, <1>3, <1>5, <3>1, <3>2 DEF RateInv, RateData
  <2> QED BY Zenon, <2>1, <2>2
<1>8. /\ r.bucket <= Len(tokens') /\ r.at # "allow" /\ Len(tokens') >= Len(tokens)
      /\ \A s \in Slots : buckets[s] # 0 => buckets'[s] = buckets[s]
  BY <1>1, <1>2, <1>5, <1>7
<1>9. Arrivals'
  BY Zenon, <1>1, <1>2, SameArrivals
<1> QED BY Zenon, <1>1, <1>2, <1>7, <1>8, <1>9, OneVisit


LEMMA IsSeq == ASSUME NEW S, NEW n \in Nat, NEW f \in [1..n -> S] PROVE f \in Seq(S) /\ Len(f) = n
<1>1. f \in Seq(S) /\ DOMAIN f = 1..n
  OBVIOUS
<1>2. DOMAIN f = 1..Len(f) /\ Len(f) \in Nat
  BY <1>1
<1>3. \A m, k \in Nat : 1..m = 1..k => m = k
  OBVIOUS
<1> QED BY Zenon, <1>1, <1>2, <1>3

LEMMA RefilledSum ==
  \A a, t, u, q, r, k \in Nat :
    u >= t /\ u <= t + r /\ a + t <= q /\ a + t >= k => a + u <= q + r /\ a + u >= k
OBVIOUS

LEMMA SecondKeeps == ASSUME RateInv, SecondPasses PROVE RateInv'
<1>1. /\ seconds \in Nat /\ seconds < MaxSeconds /\ seconds' = seconds + 1
      /\ tokens' = [b \in DOMAIN tokens |->
                       IF tokens[b] + Refill < Burst THEN tokens[b] + Refill ELSE Burst]
      /\ UNCHANGED <<star, limiterOf, buckets, visit, limits, allowed, denied>>
  BY Zenon, QuotaIs DEF SecondPasses
<1>2. /\ tokens \in Seq(0..Burst) /\ Len(tokens) \in Nat /\ DOMAIN tokens = 1..Len(tokens)
      /\ Burst \in Nat /\ Refill \in Nat /\ \A s \in Slots : SlotInv(s)
      /\ allowed \in [Slots -> Nat] /\ buckets \in [Slots -> Nat]
  BY RateAssumption DEF RateInv, RateData
<1>3. Quota' = Quota + Refill /\ Quota \in Nat /\ Quota >= Burst
  BY SMTT(30), <1>1, <1>2, QuotaIs DEF Quota
<1>4. \A b \in 1..Len(tokens) :
        /\ tokens[b] \in Nat /\ tokens'[b] \in 0..Burst
        /\ tokens'[b] >= tokens[b] /\ tokens'[b] <= tokens[b] + Refill
  <2> SUFFICES ASSUME NEW b \in 1..Len(tokens)
               PROVE  /\ tokens[b] \in Nat /\ tokens'[b] \in 0..Burst
                      /\ tokens'[b] >= tokens[b] /\ tokens'[b] <= tokens[b] + Refill
    OBVIOUS
  <2>1. /\ tokens[b] \in 0..Burst
        /\ tokens'[b] = IF tokens[b] + Refill < Burst THEN tokens[b] + Refill ELSE Burst
    BY <1>1, <1>2
  <2> QED BY <1>2, <2>1
<1>5. tokens' \in Seq(0..Burst) /\ Len(tokens') = Len(tokens)
  <2>1. tokens' \in [1..Len(tokens) -> 0..Burst]
    BY Zenon, <1>1, <1>2, <1>4
  <2> QED BY Zenon, <1>2, <2>1, IsSeq
<1>6. ASSUME NEW s \in Slots PROVE SlotInv(s)'
  <2>1. SlotInv(s) /\ allowed[s] \in Nat /\ buckets'[s] = buckets[s] /\ allowed'[s] = allowed[s] /\ denied' = denied
    BY Zenon, <1>1, <1>2
  <2>2. CASE buckets[s] = 0
    BY Zenon, <1>2, <1>5, <2>1, <2>2 DEF SlotInv
  <2>3. CASE buckets[s] # 0
    <3>1. buckets[s] \in 1..Len(tokens)
      BY Zenon, <2>3, BucketHolds
    <3> DEFINE b == buckets[s]
    <3>2. /\ tokens[b] \in Nat /\ tokens'[b] \in Nat /\ tokens'[b] >= tokens[b] /\ tokens'[b] <= tokens[b] + Refill
      BY SMTT(30), <1>2, <1>4, <3>1
    <3>3. allowed[s] + tokens[b] <= Quota /\ allowed[s] + tokens[b] >= Burst
      BY Zenon, <2>1, <2>3 DEF SlotInv
    <3>4. allowed[s] + tokens'[b] <= Quota' /\ allowed[s] + tokens'[b] >= Burst
      BY Zenon, <1>2, <1>3, <2>1, <3>2, <3>3, RefilledSum
    <3> QED BY Zenon, <1>5, <2>1, <2>3, <3>4 DEF SlotInv
  <2> QED BY Zenon, <2>2, <2>3
<1>7. RateData'
  <2>1. seconds' \in 0..MaxSeconds
    BY <1>1, RateAssumption
  <2> QED BY Zenon, <1>1, <1>5, <1>6, <2>1 DEF RateInv, RateData
<1>8. Arrivals'
  <2>1. star' \in BOOLEAN
    BY Zenon, <1>1 DEF RateInv, Arrivals
  <2> QED BY Zenon, <1>1, <2>1 DEF RateInv, Arrivals, Arrived
<1>9. visit' \in [Visits -> Requests] /\ \A v \in Visits : VisitInv(visit[v])'
  BY Zenon, <1>1, <1>5 DEF RateInv, VisitInv
<1> QED BY Zenon, <1>7, <1>8, <1>9 DEF RateInv

LEMMA SetKeeps == ASSUME RateInv, SetStar \/ SetLimit PROVE RateInv'
<1>1. UNCHANGED <<buckets, tokens, visit, seconds, allowed, denied>>
  BY Zenon DEF SetStar, SetLimit
<1>2. RateData' /\ visit' \in [Visits -> Requests] /\ \A v \in Visits : VisitInv(visit[v])'
  BY Zenon, <1>1 DEF RateInv, RateData, SlotInv, Quota, VisitInv
<1>3. PICK n \in 0..MaxVisits : Arrived(n)
  BY Zenon DEF RateInv, Arrivals
<1>4. /\ limits \in Nat /\ limits >= 2 /\ limiterOf \in [Paths -> 0..limits] /\ n \in Nat
      /\ "starred" \in Paths /\ "limited" \in Paths
  BY RateAssumption DEF RateInv, Arrivals, Paths
<1>5. star' \in BOOLEAN
  BY Zenon DEF RateInv, Arrivals, SetStar, SetLimit
<1>6. limits' \in Nat /\ limits' >= 2 /\ limiterOf' \in [Paths -> 0..limits']
  BY <1>4 DEF SetStar, SetLimit
<1>7. limits' <= n + (IF limiterOf'["limited"] = 1 THEN 2 ELSE 3)
  <2>1. limits <= n + (IF limiterOf["limited"] = 1 THEN 2 ELSE 3)
    BY Zenon, <1>3 DEF Arrived
  <2>2. CASE SetStar
    BY Zenon, <1>4, <2>1, <2>2 DEF SetStar
  <2>3. CASE SetLimit
    BY SMTT(30), <1>4, <2>1, <2>3 DEF SetLimit
  <2> QED BY Zenon, <2>2, <2>3
<1>8. Arrived(n)'
  BY Zenon, <1>1, <1>3, <1>7 DEF Arrived
<1>9. Arrivals'
  BY Zenon, <1>5, <1>6, <1>8 DEF Arrivals
<1> QED BY Zenon, <1>2, <1>9 DEF RateInv

LEMMA RateStepKeeps == RateInv /\ [RateNext]_rateVars => RateInv'
<1> SUFFICES ASSUME RateInv, [RateNext]_rateVars PROVE RateInv'
  OBVIOUS
<1>1. CASE SetStar \/ SetLimit
  BY Zenon, <1>1, SetKeeps
<1>2. CASE SecondPasses
  BY Zenon, <1>2, SecondKeeps
<1>3. ASSUME NEW v \in Visits, Look(v) \/ Make(v) \/ Allow(v) PROVE RateInv'
  BY Zenon, <1>3, LookKeeps, MakeKeeps, AllowKeeps
<1>4. ASSUME NEW v \in Visits, NEW p \in Paths, NEW perUser \in BOOLEAN, NEW authenticated \in BOOLEAN,
             NEW who \in Visitors, Arrive(v, p, getKey(perUser, authenticated, who))
      PROVE  RateInv'
  <2>1. getKey(perUser, authenticated, who) \in Keys
    BY Zenon DEF getKey, Keys
  <2> QED BY Zenon, <1>4, <2>1, ArriveKeeps
<1>5. CASE UNCHANGED rateVars
  BY Zenon, <1>5 DEF rateVars, RateInv, RateData, SlotInv, Quota, Arrivals, Arrived, VisitInv
<1> QED BY Zenon, <1>1, <1>2, <1>3, <1>4, <1>5 DEF RateNext

(***************************************************************************)
(* However many requests look for a key's bucket before it exists, in any  *)
(* number of keys, limiters, requests and seconds, the rate limiter lets   *)
(* at most the burst plus the refill through for a key, and refuses a      *)
(* request only when its own key has spent the burst (RateLimiter.Allow,   *)
(* getLimiter and EndpointRateLimiter.GetLimiter).                         *)
(***************************************************************************)
THEOREM RateKept == RateSpec => []RateContract
<1> QED BY InitRate, RateStepKeeps, RateInvGives, PTL DEF RateSpec

-----------------------------------------------------------------------------
(***************************************************************************)
(* CircuitBreaker                                                          *)
(***************************************************************************)

(***************************************************************************)
(* The inductive invariant: the types, and the agreement of the counter    *)
(* and the probe flag with the state.                                      *)
(***************************************************************************)
IInv == TypeOK /\ CountersAgree

LEMMA InitIInv == Init => IInv
<1> SUFFICES ASSUME Init PROVE IInv
  OBVIOUS
<1>1. probeInFlight \in BOOLEAN /\ ~probeInFlight
  BY Zenon DEF Init, NewCircuitBreaker
<1>2. /\ failures \in 0..FailureThreshold
      /\ sinceOpen \in 0..Cooldown
      /\ streak \in 0..FailureThreshold
      /\ failures < FailureThreshold
      /\ failures <= streak
  BY BreakerAssumption DEF Init, NewCircuitBreaker
<1>3. /\ pc \in [Calls -> {"idle", "running"}]
      /\ admittedIn \in [Calls -> State]
  BY Zenon DEF Init, State
<1> QED
  BY Zenon, <1>1, <1>2, <1>3 DEF Init, NewCircuitBreaker, IInv, TypeOK, CountersAgree, State

LEMMA NextIInv == IInv /\ [Next]_vars => IInv'
<1> SUFFICES ASSUME IInv, [Next]_vars PROVE IInv'
  OBVIOUS
<1> USE BreakerAssumption DEF IInv, TypeOK, CountersAgree, State
<1>1. CASE Observe
  BY Zenon, <1>1 DEF Observe, refresh, RefreshedState, RefreshedProbe, CooldownElapsed
<1>2. CASE Tick
  BY <1>2 DEF Tick
<1>3. CASE Heal
  BY Zenon, <1>3 DEF Heal, breakerVars
<1>4. ASSUME NEW c \in Calls, Admit(c) PROVE IInv'
  BY Zenon, <1>4 DEF Admit, Admits, RefreshedState, RefreshedProbe, CooldownElapsed
<1>5. ASSUME NEW c \in Calls, Reject(c) PROVE IInv'
  BY Zenon, <1>5 DEF Reject, refresh, RefreshedState, RefreshedProbe, CooldownElapsed
<1>6. ASSUME NEW c \in Calls, Finish(c) PROVE IInv'
  <2>1. PICK o \in Outcome :
          /\ afterCall(o)
          /\ streak' = IF o = "err" THEN Saturate(streak + 1) ELSE 0
    BY Zenon, <1>6 DEF Finish, FinishWith, leave, Outcome
  <2>2. /\ pc' \in [Calls -> {"idle", "running"}]
        /\ admittedIn' \in [Calls -> State]
        /\ UNCHANGED upstream
    BY Zenon, <1>6 DEF Finish, FinishWith, leave, State
  <2>3. CASE state = "halfOpen" /\ IsFailure(o)
    <3>1. ~probeInFlight' /\ probeInFlight' \in BOOLEAN
      BY Zenon, <2>1, <2>3 DEF afterCall
    <3>2. state' = "open" /\ sinceOpen' = 0 /\ failures' = failures
      BY Zenon, <2>1, <2>3 DEF afterCall, trip
    <3>3. streak' \in 0..FailureThreshold /\ streak' >= streak
      BY <2>1, <2>3 DEF IsFailure, Saturate
    <3> QED BY <2>2, <3>1, <3>2, <3>3
  <2>4. CASE state = "halfOpen" /\ ~IsFailure(o)
    <3>1. ~probeInFlight' /\ probeInFlight' \in BOOLEAN
      BY Zenon, <2>1, <2>4 DEF afterCall
    <3>2. state' = "closed" /\ sinceOpen' = sinceOpen /\ failures' = 0
      BY Zenon, <2>1, <2>4 DEF afterCall, reset
    <3>3. streak' = 0
      BY Zenon, <2>1, <2>4 DEF IsFailure
    <3> QED BY <2>2, <3>1, <3>2, <3>3
  <2>5. CASE state # "halfOpen" /\ IsFailure(o)
    BY <2>1, <2>2, <2>5 DEF afterCall, ThresholdReached, trip, IsFailure, Saturate
  <2>6. CASE state # "halfOpen" /\ ~IsFailure(o)
    BY <2>1, <2>2, <2>6 DEF afterCall, IsFailure, Saturate
  <2> QED BY Zenon, <2>3, <2>4, <2>5, <2>6
<1>7. ASSUME NEW c \in Calls, Panic(c) PROVE IInv'
  BY Zenon, <1>7 DEF Panic, leave, breakerVars
<1>8. CASE UNCHANGED vars
  BY Zenon, <1>8 DEF vars, breakerVars
<1> QED
  BY Zenon, <1>1, <1>2, <1>3, <1>4, <1>5, <1>6, <1>7, <1>8 DEF Next

(***************************************************************************)
(* Types, and: a closed breaker is below its threshold, a raised probe     *)
(* flag means half-open, the counter never exceeds the failures seen.      *)
(***************************************************************************)
THEOREM Invariance == Spec => [](TypeOK /\ CountersAgree)
<1>1. Spec => []IInv
  BY InitIInv, NextIInv, PTL DEF Spec
<1> QED BY Zenon, <1>1 DEF IInv

(***************************************************************************)
(* afterCall opens a closed breaker only on the FailureThreshold-th        *)
(* failure in a row.                                                       *)
(***************************************************************************)
THEOREM TripsOnlyOnStreak == Spec => TripNeedsStreak
<1>1. IInv /\ [Next]_vars
        => [state = "closed" /\ state' = "open" => streak' = FailureThreshold]_vars
  <2> SUFFICES ASSUME IInv, Next, state = "closed", state' = "open"
               PROVE  streak' = FailureThreshold
    BY Zenon DEF vars, breakerVars
  <2> USE BreakerAssumption DEF IInv, TypeOK, CountersAgree
  <2>1. PICK c \in Calls : Finish(c)
    BY Zenon DEF Next, Observe, Tick, Heal, Admit, Reject, Panic, leave, refresh,
           breakerVars, RefreshedState, CooldownElapsed
  <2>2. PICK o \in Outcome :
          /\ afterCall(o)
          /\ streak' = IF o = "err" THEN Saturate(streak + 1) ELSE 0
    BY Zenon, <2>1 DEF Finish, FinishWith, leave, Outcome
  <2> QED BY <2>2 DEF afterCall, ThresholdReached, IsFailure, trip, reset, Saturate
<1>2. Spec => []IInv
  BY InitIInv, NextIInv, PTL DEF Spec
<1> QED BY <1>1, <1>2, PTL DEF Spec, TripNeedsStreak

(***************************************************************************)
(* CircuitBreaker refines BreakerContract: every step of the breaker is a  *)
(* step of the gate or leaves the gate unchanged.                          *)
(***************************************************************************)
THEOREM Refinement == Spec => ImplementsContract
<1>1. Init => Contract!Init
  BY Zenon DEF Init, NewCircuitBreaker, Contract!Init, Gate, Running
<1>2. IInv /\ [Next]_vars => [Contract!Next]_(Contract!vars)
  <2> SUFFICES ASSUME IInv, [Next]_vars
               PROVE  Contract!Next \/ UNCHANGED Contract!vars
    OBVIOUS
  <2> USE DEF IInv, TypeOK, CountersAgree, State
  <2>1. ASSUME UNCHANGED pc, CooldownElapsed, refresh PROVE Contract!HalfOpen
    BY Zenon, <2>1 DEF refresh, RefreshedState, RefreshedProbe, CooldownElapsed,
                Contract!HalfOpen, Gate, Running
  <2>2. ASSUME UNCHANGED pc, ~CooldownElapsed, refresh PROVE UNCHANGED Contract!vars
    BY Zenon, <2>2 DEF refresh, RefreshedState, RefreshedProbe, Contract!vars, Gate, Running
  <2>3. CASE Observe
    BY Zenon, <2>1, <2>2, <2>3 DEF Observe, Contract!Next
  <2>4. CASE Tick \/ Heal \/ UNCHANGED vars
    BY <2>4 DEF Tick, Heal, vars, breakerVars, Contract!vars, Gate, Running
  <2>5. ASSUME NEW c \in Calls, Admit(c) PROVE Contract!Enter(c)
    <3>1. c \notin Running /\ Running' = Running \cup {c}
      BY Zenon, <2>5 DEF Admit, Running
    <3> QED
      BY Zenon, <3>1, <2>5 DEF Admit, Admits, RefreshedState, RefreshedProbe, CooldownElapsed,
                        Contract!Enter, Gate
  <2>6. ASSUME NEW c \in Calls, Reject(c)
        PROVE  Contract!HalfOpen \/ UNCHANGED Contract!vars
    BY Zenon, <2>1, <2>2, <2>6 DEF Reject
  <2>7. ASSUME NEW c \in Calls, Finish(c) PROVE Contract!Leave(c)
    <3>1. c \in Running /\ Running' = Running \ {c}
      BY Zenon, <2>7 DEF Finish, FinishWith, leave, Running
    <3>2. PICK o \in Outcome : afterCall(o)
      BY Zenon, <2>7 DEF Finish, FinishWith, leave, Outcome
    <3> QED
      BY Zenon, <3>1, <3>2 DEF afterCall, ThresholdReached, trip, reset, Contract!Leave, Gate
  <2>8. ASSUME NEW c \in Calls, Panic(c) PROVE Contract!Leave(c)
    <3>1. c \in Running /\ Running' = Running \ {c}
      BY Zenon, <2>8 DEF Panic, leave, Running
    <3> QED BY Zenon, <3>1, <2>8 DEF Panic, leave, breakerVars, Contract!Leave, Gate
  <2> QED
    BY Zenon, <2>3, <2>4, <2>5, <2>6, <2>7, <2>8 DEF Next, Contract!Next
<1>3. Spec => []IInv
  BY InitIInv, NextIInv, PTL DEF Spec
<1> QED BY <1>1, <1>2, <1>3, PTL DEF Spec, ImplementsContract, Contract!Spec
=============================================================================
