------------------------------ MODULE LoadCache ------------------------------
(***************************************************************************)
(* The read-through helpers over one cache key: cache.GetOrLoad with its   *)
(* single flight, CacheHelper.GetOrFetch and GetJSONOrFetch, and           *)
(* redis.GetOrSet, on MemoryCache or on redis.NewCache; and the service    *)
(* that owns the data, which changes it and then deletes the key.          *)
(***************************************************************************)
EXTENDS Naturals

CONSTANTS
  Callers,      \* goroutines that read through the cache
  MaxVersion    \* bound: changes of the data

ASSUME CacheAssumption == MaxVersion \in Nat

VARIABLES
  impl,       \* "memory" or "redis"
  callTTL,    \* whether callers pass a positive ttl
  source,     \* the version of the data
  dirty,      \* the owner has changed the data and not yet deleted the key
  entry,      \* the entry of the key, {} or one record
  cpc,        \* where a caller is
  helper,     \* the helper it calls
  loaded,     \* the version its load read
  missed,     \* history: the key was deleted since its load read
  flight      \* loadGroup: the caller that runs the key's function, {} for none

cacheVars == <<impl, callTTL, source, dirty, entry, cpc, helper, loaded, missed, flight>>
setting == <<impl, callTTL>>

Helpers == {"GetOrLoad", "GetOrFetch", "GetJSONOrFetch", "GetOrSet"}
Entries == [version : 0..MaxVersion, ttl : {"live", "over", "none"}, raced : BOOLEAN]

CacheTypeOK ==
  /\ impl \in {"memory", "redis"} /\ callTTL \in BOOLEAN
  /\ source \in 0..MaxVersion /\ dirty \in BOOLEAN
  /\ entry \subseteq Entries /\ \A e, f \in entry : e = f
  /\ cpc \in [Callers -> {"idle", "get", "join", "recheck", "load", "set", "wait"}]
  /\ helper \in [Callers -> Helpers]
  /\ loaded \in [Callers -> 0..MaxVersion]
  /\ missed \subseteq Callers /\ flight \subseteq Callers
  /\ \A c, d \in flight : c = d

CacheInit ==
  /\ impl \in {"memory", "redis"}
  /\ callTTL \in BOOLEAN
  /\ source = 0 /\ dirty = FALSE
  /\ entry = {}
  /\ cpc = [c \in Callers |-> "idle"]
  /\ helper = [c \in Callers |-> "GetOrLoad"]
  /\ loaded = [c \in Callers |-> 0]
  /\ missed = {} /\ flight = {}
-----------------------------------------------------------------------------
(* The cache *)

(* What Get returns: nothing when there is no entry or it is over. *)
Visible == {e \in entry : e.ttl # "over"}

(* Get and Exists delete an entry they find over. *)
afterGet == Visible

(* Faulty variant: an entry without a ttl of its own never expires. *)
ttlOf_ignoresDefault == IF callTTL THEN "live" ELSE "none"

(* A ttl that is not positive means the default of redis.NewCache (one is  *)
(* configured), and no expiry for MemoryCache.                             *)
ttlOf == IF callTTL \/ impl = "redis" THEN "live" ELSE "none"

(* Faulty variant: the old entry of the key stays beside the new one. *)
Set_keepsOld(v, raced) == entry' = entry \cup {[version |-> v, ttl |-> ttlOf, raced |-> raced]}

Set(v, raced) == entry' = {[version |-> v, ttl |-> ttlOf, raced |-> raced]}

(* Redis drops an entry whose time is over, memory keeps it until Get. *)
EntryExpires ==
  /\ \E e \in entry : /\ e.ttl = "live"
                      /\ entry' = IF impl = "redis" THEN {} ELSE {[e EXCEPT !.ttl = "over"]}
  /\ UNCHANGED <<setting, source, dirty, cpc, helper, loaded, missed, flight>>

(* Faulty variant: only the expiry is deleted. *)
Delete_onlyTTL == {[e EXCEPT !.ttl = "none"] : e \in entry}

(* Delete, and Clear as far as one key sees it. *)
Delete == {}
-----------------------------------------------------------------------------
(* The owner of the data *)

Change ==
  /\ source < MaxVersion /\ ~dirty
  /\ source' = source + 1
  /\ dirty' = TRUE
  /\ UNCHANGED <<setting, entry, cpc, helper, loaded, missed, flight>>

Invalidate ==
  /\ dirty
  /\ dirty' = FALSE
  /\ entry' = Delete
  /\ missed' = {c \in Callers : cpc[c] = "set"}
  /\ UNCHANGED <<setting, source, cpc, helper, loaded, flight>>
-----------------------------------------------------------------------------
(* The helpers.  A caller that returns leaves nothing behind. *)

leave(C) ==
  /\ cpc' = [c \in Callers |-> IF c \in C THEN "idle" ELSE cpc[c]]
  /\ helper' = [c \in Callers |-> IF c \in C THEN "GetOrLoad" ELSE helper[c]]
  /\ loaded' = [c \in Callers |-> IF c \in C THEN 0 ELSE loaded[c]]
  /\ missed' = missed \ C

go(c, where) == cpc' = [cpc EXCEPT ![c] = where] /\ UNCHANGED <<helper, loaded, missed>>

Call(c) ==
  /\ cpc[c] = "idle"
  /\ cpc' = [cpc EXCEPT ![c] = "get"]
  /\ \E h \in Helpers : /\ h = "GetOrSet" => impl = "redis"
                        /\ helper' = [helper EXCEPT ![c] = h]
  /\ UNCHANGED <<setting, source, dirty, entry, loaded, missed, flight>>

(* The first Get: a hit returns.  A miss, or an error of Redis that only   *)
(* GetOrSet returns, goes on to load.                                      *)
Get(c) ==
  /\ cpc[c] = "get"
  /\ entry' = afterGet
  /\ \/ Visible # {} /\ leave({c})
     \/ /\ Visible = {} \/ (impl = "redis" /\ helper[c] # "GetOrSet")
        /\ go(c, IF helper[c] = "GetOrLoad" THEN "join" ELSE "load")
     \/ impl = "redis" /\ helper[c] = "GetOrSet" /\ leave({c})
  /\ UNCHANGED <<setting, source, dirty, flight>>

(* Faulty variant: every caller runs its own load. *)
Join_alone(c) ==
  /\ cpc[c] = "join"
  /\ flight' = {c}
  /\ go(c, "recheck")
  /\ UNCHANGED <<setting, source, dirty, entry>>

(* loadGroup.Do: run the function, or wait for the one that does. *)
Join(c) ==
  /\ cpc[c] = "join"
  /\ \/ flight = {} /\ flight' = {c} /\ go(c, "recheck")
     \/ flight # {} /\ UNCHANGED flight /\ go(c, "wait")
  /\ UNCHANGED <<setting, source, dirty, entry>>

(* Faulty variant: the flight is left open when the load fails. *)
land_onlyOnSuccess(c) == leave({c}) /\ UNCHANGED flight

(* The function is over: everybody who waits returns with the leader,      *)
(* error or not; without a flight only the caller does.                    *)
land(c) ==
  IF c \in flight
  THEN flight' = {} /\ leave({c} \cup {d \in Callers : cpc[d] = "wait"})
  ELSE flight' = flight /\ leave({c})

Recheck(c) ==
  /\ cpc[c] = "recheck"
  /\ entry' = afterGet
  /\ \/ Visible # {} /\ land(c)
     \/ (Visible = {} \/ impl = "redis") /\ go(c, "load") /\ UNCHANGED flight
  /\ UNCHANGED <<setting, source, dirty>>

(* The load reads the data, or fails: on its own, or because the context   *)
(* of the caller that runs it is cancelled.                                *)
Load(c) ==
  /\ cpc[c] = "load"
  /\ \/ /\ cpc' = [cpc EXCEPT ![c] = "set"]
        /\ loaded' = [loaded EXCEPT ![c] = source]
        /\ UNCHANGED <<helper, missed, flight>>
     \/ land(c)
  /\ UNCHANGED <<setting, source, dirty, entry>>

(* Set, or (Redis only) a Set that fails: GetJSONOrFetch and GetOrSet      *)
(* return its error, the others the value.                                 *)
Store(c) ==
  /\ cpc[c] = "set"
  /\ \/ Set(loaded[c], c \in missed)
     \/ impl = "redis" /\ UNCHANGED entry
  /\ land(c)
  /\ UNCHANGED <<setting, source, dirty>>
-----------------------------------------------------------------------------
CallStep(c) == Get(c) \/ Join(c) \/ Recheck(c) \/ Load(c) \/ Store(c)

CacheNext ==
  \/ \E c \in Callers : Call(c) \/ CallStep(c)
  \/ EntryExpires \/ Change \/ Invalidate

CacheSpec == CacheInit /\ [][CacheNext]_cacheVars
-----------------------------------------------------------------------------
(***************************************************************************)
(* GetOrLoad "runs load exactly once per in-flight key" (lines 15-16): no  *)
(* two of its callers are in the load at a time, and whoever waits waits   *)
(* for somebody.                                                           *)
(***************************************************************************)
OneLoadPerKey ==
  /\ \A c \in Callers : helper[c] = "GetOrLoad" /\ cpc[c] \in {"recheck", "load", "set"} => c \in flight
  /\ \A c \in Callers : cpc[c] = "wait" => flight \ {c} # {}
  /\ \A c \in flight : cpc[c] \in {"recheck", "load", "set"}

(***************************************************************************)
(* A deleted key comes back stale only by a race: what the cache shows     *)
(* after a change and its Delete is older than the data only when the load *)
(* that stored it had read before that Delete (line 33 stores without      *)
(* looking again).                                                         *)
(***************************************************************************)
StaleOnlyByRace ==
  ~dirty => \A e \in Visible : e.version = source \/ e.raced

(***************************************************************************)
(* Such an entry goes away: when entries have a ttl, the cache is in the   *)
(* end empty or shows the data, whatever loads were in flight at the last  *)
(* change.                                                                 *)
(***************************************************************************)
EventuallyFresh ==
  (callTTL \/ impl = "redis") => <>[](\A e \in Visible : e.version = source)

(***************************************************************************)
(* Every call of a helper returns, also one that waits for a leader whose  *)
(* load fails or whose context is cancelled.                               *)
(***************************************************************************)
CallsReturn == \A c \in Callers : cpc[c] # "idle" ~> cpc[c] = "idle"

(***************************************************************************)
(* What the read-through helpers promise: one load at a time, and stale    *)
(* values only by a race with a Delete.                                    *)
(***************************************************************************)
CacheContract ==
  /\ CacheTypeOK
  /\ OneLoadPerKey
  /\ StaleOnlyByRace
=============================================================================
