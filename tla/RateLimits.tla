----------------------------- MODULE RateLimits -----------------------------
(***************************************************************************)
(* The in-process rate limiting of middleware/ratelimit.go: a RateLimiter  *)
(* makes one token bucket per key on first use, RateLimitByEndpoint picks  *)
(* the RateLimiter of a path.  Requests look a bucket up under the read    *)
(* lock and create it under the write lock, so two of them can miss at the *)
(* same time; SetLimit replaces a RateLimiter under their feet.            *)
(***************************************************************************)
EXTENDS Naturals, Sequences

CONSTANTS
  MaxVisits,   \* bound: requests, numbered as they arrive
  Visitors,    \* users and addresses
  Burst,       \* BurstSize
  Refill,      \* RequestsPerSecond
  MaxSeconds   \* bound: seconds that pass

ASSUME RateAssumption ==
  /\ Burst \in Nat \ {0} /\ Refill \in Nat \ {0}
  /\ Visitors # {} /\ MaxVisits \in Nat /\ MaxSeconds \in Nat

Visits == 1..MaxVisits
Paths == {"limited", "starred", "unlisted"}

VARIABLES
  star,      \* whether SetLimit("*") was called, before the first request
  limiterOf, \* the RateLimiter of a path: a number, 0 for none
  buckets,   \* limiters: RateLimiter and key -> its bucket, 0 for none
  tokens,    \* the tokens of every bucket made so far
  visit,     \* a request: [at, key, limiter, bucket]
  seconds,
  limits,    \* the RateLimiters made so far, 2 of them at start-up
  allowed,   \* history: requests allowed, by RateLimiter and key
  denied     \* history: RateLimiter and key of the requests refused

rateVars == <<star, limiterOf, buckets, tokens, visit, seconds, limits, allowed, denied>>

Limiters == 1..(3 + MaxVisits)
Keys == {"user", "ip"} \X Visitors
idle == [at |-> "idle", key |-> CHOOSE k \in Keys : TRUE, limiter |-> 1, bucket |-> 0]

RateTypeOK ==
  /\ star \in BOOLEAN /\ limiterOf \in [Paths -> 0..(3 + MaxVisits)]
  /\ buckets \in [Limiters \X Keys -> 0..Len(tokens)]
  /\ tokens \in Seq(0..Burst)
  /\ visit \in [Visits -> [at : {"idle", "look", "make", "allow", "over"}, key : Keys,
                           limiter : Limiters, bucket : 0..Len(tokens)]]
  /\ seconds \in 0..MaxSeconds /\ limits \in 2..(3 + MaxVisits)

RateInit ==
  /\ star = FALSE
  /\ limiterOf = [p \in Paths |-> IF p = "limited" THEN 1 ELSE 0]
  /\ buckets = [b \in Limiters \X Keys |-> 0] /\ tokens = <<>>
  /\ visit = [v \in Visits |-> idle]
  /\ seconds = 0 /\ limits = 2
  /\ allowed = [b \in Limiters \X Keys |-> 0] /\ denied = {}
-----------------------------------------------------------------------------
(* SetLimit at start-up: the limiter of every path without one of its own. *)
SetStar ==
  /\ ~star /\ \A v \in Visits : visit[v].at = "idle"
  /\ star' = TRUE /\ limiterOf' = [limiterOf EXCEPT !["starred"] = 2]
  /\ UNCHANGED <<buckets, tokens, visit, seconds, limits, allowed, denied>>

(* SetLimit later on (bound: once): a new RateLimiter, with new buckets.   *)
SetLimit ==
  /\ limiterOf["limited"] = 1
  /\ limits' = limits + 1
  /\ limiterOf' = [limiterOf EXCEPT !["limited"] = limits + 1]
  /\ UNCHANGED <<star, buckets, tokens, visit, seconds, allowed, denied>>

(* getKey: the user with PerUser when the context has one, the address     *)
(* otherwise.                                                              *)
getKey(perUser, authenticated, who) == <<IF perUser /\ authenticated THEN "user" ELSE "ip", who>>

(* GetLimiter: the path's own, then "*", then a RateLimiter made from the  *)
(* defaults for this request alone.                                        *)
Arrive(v, p, key) ==
  /\ visit[v].at = "idle" /\ (v > 1 => visit[v - 1].at # "idle")
  /\ p = "unlisted" => ~star
  /\ p = "starred" => star
  /\ LET own == limiterOf[p]
         it == IF own # 0 THEN own ELSE limits + 1 IN
     /\ visit' = [visit EXCEPT ![v] = [at |-> "look", key |-> key, limiter |-> it, bucket |-> 0]]
     /\ limits' = IF own # 0 THEN limits ELSE limits + 1
  /\ UNCHANGED <<star, limiterOf, buckets, tokens, seconds, allowed, denied>>

slot(v) == <<visit[v].limiter, visit[v].key>>

(* getLimiter under the read lock                                          *)
Look(v) ==
  /\ visit[v].at = "look"
  /\ visit' = [visit EXCEPT ![v].bucket = buckets[slot(v)],
                            ![v].at = IF buckets[slot(v)] = 0 THEN "make" ELSE "allow"]
  /\ UNCHANGED <<star, limiterOf, buckets, tokens, seconds, limits, allowed, denied>>

(* Faulty variant: no second look under the write lock.                    *)
Make_unchecked(v) ==
  /\ visit[v].at = "make"
  /\ tokens' = Append(tokens, Burst)
  /\ buckets' = [buckets EXCEPT ![slot(v)] = Len(tokens')]
  /\ visit' = [visit EXCEPT ![v].bucket = Len(tokens'), ![v].at = "allow"]
  /\ UNCHANGED <<star, limiterOf, seconds, limits, allowed, denied>>

(* getLimiter under the write lock                                         *)
Make(v) ==
  /\ visit[v].at = "make"
  /\ IF buckets[slot(v)] # 0
     THEN UNCHANGED <<buckets, tokens>>
     ELSE /\ tokens' = Append(tokens, Burst)
          /\ buckets' = [buckets EXCEPT ![slot(v)] = Len(tokens')]
  /\ visit' = [visit EXCEPT ![v].bucket = buckets'[slot(v)], ![v].at = "allow"]
  /\ UNCHANGED <<star, limiterOf, seconds, limits, allowed, denied>>

(* Faulty variant: a request is refused at its bucket's last token.        *)
Allow_keepsOne(v) ==
  /\ visit[v].at = "allow"
  /\ LET b == visit[v].bucket IN
     IF tokens[b] > 1
     THEN /\ tokens' = [tokens EXCEPT ![b] = @ - 1]
          /\ allowed' = [allowed EXCEPT ![slot(v)] = @ + 1] /\ UNCHANGED denied
     ELSE denied' = denied \cup {slot(v)} /\ UNCHANGED <<tokens, allowed>>
  /\ visit' = [visit EXCEPT ![v] = [idle EXCEPT !.at = "over"]]
  /\ UNCHANGED <<star, limiterOf, buckets, seconds, limits>>

(* Limiter.Allow, then the handler or 429                                  *)
Allow(v) ==
  /\ visit[v].at = "allow"
  /\ LET b == visit[v].bucket IN
     IF tokens[b] > 0
     THEN /\ tokens' = [tokens EXCEPT ![b] = @ - 1]
          /\ allowed' = [allowed EXCEPT ![slot(v)] = @ + 1] /\ UNCHANGED denied
     ELSE denied' = denied \cup {slot(v)} /\ UNCHANGED <<tokens, allowed>>
  /\ visit' = [visit EXCEPT ![v] = [idle EXCEPT !.at = "over"]]
  /\ UNCHANGED <<star, limiterOf, buckets, seconds, limits>>

(* Faulty variant: tokens gather beyond the burst.                         *)
SecondPasses_uncapped ==
  /\ seconds < MaxSeconds /\ seconds' = seconds + 1
  /\ tokens' = [b \in DOMAIN tokens |-> tokens[b] + Refill]
  /\ UNCHANGED <<star, limiterOf, buckets, visit, limits, allowed, denied>>

(* rate.Limiter refills up to its burst.                                   *)
SecondPasses ==
  /\ seconds < MaxSeconds /\ seconds' = seconds + 1
  /\ tokens' = [b \in DOMAIN tokens |->
                  IF tokens[b] + Refill < Burst THEN tokens[b] + Refill ELSE Burst]
  /\ UNCHANGED <<star, limiterOf, buckets, visit, limits, allowed, denied>>

RateNext ==
  \/ SetStar \/ SetLimit \/ SecondPasses
  \/ \E v \in Visits :
       \/ Look(v) \/ Make(v) \/ Allow(v)
       \/ \E p \in Paths, perUser, authenticated \in BOOLEAN, who \in Visitors :
            Arrive(v, p, getKey(perUser, authenticated, who))

RateSpec == RateInit /\ [][RateNext]_rateVars
-----------------------------------------------------------------------------
(***************************************************************************)
(* A RateLimiter lets at most the burst plus what time has refilled        *)
(* through for a key, however many requests create the key's bucket at     *)
(* once.  (A path's limit starts afresh with SetLimit, and a path without  *)
(* a limit has none: GetLimiter makes it a RateLimiter per request.)       *)
(***************************************************************************)
WithinRate == \A b \in DOMAIN allowed : allowed[b] <= Burst + Refill * seconds

(***************************************************************************)
(* A request is refused only when its own key has spent the burst on the   *)
(* same RateLimiter: other keys and other paths never cost it a token.     *)
(***************************************************************************)
RefusedOnlyWhenSpent == \A b \in denied : allowed[b] >= Burst

(***************************************************************************)
(* What the rate limiter promises: neither more than the rate nor a        *)
(* refusal of a key that has not spent its burst.                          *)
(***************************************************************************)
RateContract ==
  /\ RateTypeOK
  /\ WithinRate
  /\ RefusedOnlyWhenSpent
=============================================================================
