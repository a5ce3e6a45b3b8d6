----------------------------- MODULE RedisLocks -----------------------------
(***************************************************************************)
(* redis.Mutex and redis.Allow over one Redis server.                      *)
(*                                                                         *)
(* A command may fail before the server runs it or, its reply lost, after; *)
(* the client sends a command whose reply it lost again, so what the       *)
(* caller then sees may also be the answer to the second execution.        *)
(***************************************************************************)
EXTENDS Naturals

CONSTANTS
  Clients,     \* holders of a Mutex for the same key; callers of Allow
  MaxTokens,   \* bound: calls of Lock
  Limit,       \* Allow's limit
  MaxHits      \* bound: calls of Allow in one window

ASSUME RedisAssumption ==
  MaxTokens \in Nat /\ Limit \in Nat \ {0} /\ MaxHits \in Nat /\ MaxHits > Limit

VARIABLES
  lockKey,     \* the token stored at the lock key, 0 when it does not exist
  token,       \* Mutex.token, 0 for ""
  drawn,       \* tokens drawn so far: every Lock draws a new one
  inside,      \* clients whose Lock returned true and that have not unlocked
  overstayed,  \* those of them whose lease has ended
  count,       \* the counter at the rate-limit key, 0 when it does not exist
  hasTTL,      \* whether that key expires
  arming,      \* callers between INCR and EXPIRE
  admitted,    \* history: calls admitted in this window
  hitFault     \* history: a failure between INCR and EXPIRE in this window

mutexVars == <<lockKey, token, drawn, inside, overstayed>>
limitVars == <<count, hasTTL, arming, admitted, hitFault>>
redisVars == <<mutexVars, limitVars>>

RedisTypeOK ==
  /\ lockKey \in 0..drawn /\ drawn \in 0..MaxTokens
  /\ token \in [Clients -> 0..drawn]
  /\ overstayed \subseteq inside /\ inside \subseteq Clients
  /\ count \in 0..MaxHits /\ hasTTL \in BOOLEAN
  /\ arming \subseteq Clients /\ \A c, d \in arming : c = d
  /\ admitted \in 0..MaxHits /\ hitFault \in BOOLEAN

RedisInit ==
  /\ lockKey = 0 /\ drawn = 0 /\ inside = {} /\ overstayed = {}
  /\ token = [c \in Clients |-> 0]
  /\ count = 0 /\ hasTTL = FALSE /\ arming = {} /\ admitted = 0 /\ hitFault = FALSE
-----------------------------------------------------------------------------
(* Mutex *)

(* SET NX with a new token: won; won but the reply was lost, so the caller *)
(* sees an error or, from the second execution, a key that exists; lost to *)
(* another holder; or not executed at all.                                 *)
MutexLock(c) ==
  /\ c \notin inside
  /\ drawn < MaxTokens
  /\ drawn' = drawn + 1
  /\ \/ /\ lockKey = 0
        /\ lockKey' = drawn + 1
        /\ \/ /\ token' = [token EXCEPT ![c] = drawn + 1]
              /\ inside' = inside \cup {c}
           \/ UNCHANGED <<token, inside>>
     \/ UNCHANGED <<lockKey, token, inside>>
  /\ UNCHANGED <<overstayed, limitVars>>

LeaseEnds ==
  /\ lockKey # 0
  /\ lockKey' = 0
  /\ overstayed' = overstayed \cup {c \in inside : token[c] = lockKey}
  /\ UNCHANGED <<token, drawn, inside, limitVars>>

(* Faulty variant: DEL without the comparison. *)
unlockScript_deletes(t) == lockKey' = 0

(* unlockScript deletes the key only when it holds the caller's token. *)
unlockScript(t) == lockKey' = IF lockKey = t THEN 0 ELSE lockKey

(* Without a token there is nothing to unlock.  After a failed call the    *)
(* token is kept, whether or not the script ran, and the caller may try    *)
(* again or go on without.                                                 *)
MutexUnlock(c) ==
  /\ token[c] # 0
  /\ \/ /\ unlockScript(token[c])
        /\ token' = [token EXCEPT ![c] = 0]
     \/ unlockScript(token[c]) /\ UNCHANGED token
     \/ UNCHANGED <<lockKey, token>>
  /\ inside' = inside \ {c}
  /\ overstayed' = overstayed \ {c}
  /\ UNCHANGED <<drawn, limitVars>>
-----------------------------------------------------------------------------
(* Allow *)

(* Faulty variant: the limit itself is let through once more. *)
admit_offByOne(n) == admitted' = IF n <= Limit + 1 THEN admitted + 1 ELSE admitted

admit(n) == admitted' = IF n <= Limit THEN admitted + 1 ELSE admitted

(* Faulty variant: the window is armed by its second call. *)
firstHit_second(n) == n = 2

(* Faulty variant: every call arms the window. *)
firstHit_always(n) == TRUE

firstHit(n) == n = 1

(* INCR.  The first call of a window goes on to EXPIRE.  A lost reply      *)
(* leaves a call counted that was not admitted, and when it was the first, *)
(* its window without an expiry.                                           *)
Hit(c) ==
  /\ c \notin arming
  /\ count < MaxHits
  /\ count' = count + 1
  /\ \/ /\ firstHit(count + 1)
        /\ arming' = arming \cup {c}
        /\ UNCHANGED <<admitted, hitFault>>
     \/ /\ ~firstHit(count + 1)
        /\ admit(count + 1)
        /\ UNCHANGED <<arming, hitFault>>
     \/ /\ hitFault' = (hitFault \/ firstHit(count + 1))
        /\ UNCHANGED <<arming, admitted>>
  /\ UNCHANGED <<hasTTL, mutexVars>>

(* EXPIRE: done and the call admitted; an error, executed or not; or the   *)
(* process died before it.                                                 *)
Arm(c) ==
  /\ c \in arming
  /\ arming' = arming \ {c}
  /\ \/ hasTTL' = TRUE /\ admit(1) /\ UNCHANGED hitFault
     \/ hasTTL' = TRUE /\ UNCHANGED <<admitted, hitFault>>
     \/ hitFault' = TRUE /\ UNCHANGED <<hasTTL, admitted>>
  /\ UNCHANGED <<count, mutexVars>>

WindowEnds ==
  /\ hasTTL
  /\ count' = 0 /\ hasTTL' = FALSE /\ admitted' = 0 /\ hitFault' = FALSE
  /\ UNCHANGED <<arming, mutexVars>>

MutexNext == LeaseEnds \/ \E c \in Clients : MutexLock(c) \/ MutexUnlock(c)

LimitNext == WindowEnds \/ \E c \in Clients : Hit(c) \/ Arm(c)

RedisNext == MutexNext \/ LimitNext

RedisSpec == RedisInit /\ [][RedisNext]_redisVars
-----------------------------------------------------------------------------
(***************************************************************************)
(* The lock excludes as long as leases last: of two clients in their       *)
(* critical section one has overstayed its lease.  It rests on Unlock      *)
(* never deleting a key that a later holder set (lines 16-18), also when   *)
(* Unlock is repeated with a token it kept after an error.                 *)
(***************************************************************************)
ExclusiveWhileLeased ==
  \A c, d \in inside \ overstayed : c = d

(***************************************************************************)
(* "at most limit calls per window per key", and it "fails closed, not     *)
(* open" (lines 9, 24): lost replies and crashes never admit more.         *)
(***************************************************************************)
AdmittedWithinLimit == admitted <= Limit

(***************************************************************************)
(* A window that nobody will end is the work of a failure at its first     *)
(* call: otherwise the key expires, or its first caller is about to arm    *)
(* it, however the other calls of the window interleave.                   *)
(***************************************************************************)
OpenEndedOnlyAfterFault == count > 0 => hasTTL \/ arming # {} \/ hitFault

(***************************************************************************)
(* What redis.Mutex and redis.Allow promise: exclusion while leases last,  *)
(* at most limit calls in a window, and windows that end unless a failure  *)
(* hit their first call.                                                   *)
(***************************************************************************)
RedisContract ==
  /\ RedisTypeOK
  /\ ExclusiveWhileLeased
  /\ AdmittedWithinLimit
  /\ OpenEndedOnlyAfterFault
=============================================================================
