---------------------------- MODULE AppIdentity ----------------------------
(***************************************************************************)
(* Machine clients with an app id and a secret (auth/appid).  The          *)
(* middleware asks the controlplane by gRPC and caches what it confirms;   *)
(* every call carries a service token that one tokenSource fetches from    *)
(* Keycloak under its mutex.  Meanwhile credentials are revoked or expire, *)
(* tokens expire, and calls are slow, fail or time out.                    *)
(***************************************************************************)
EXTENDS Naturals

CONSTANTS
  AppCallers,   \* goroutines serving requests
  Apps,         \* credentials: pairs of an app id and its secret
  Expiring,     \* those whose principal has an expiry
  CredExpiry,   \* that expiry
  CacheTTL,     \* verifyCacheTTL
  Margin,       \* the 30 seconds before expiry in which a token is renewed
  FetchTimeout, \* client timeout of the token request
  CallTimeout,  \* callTimeout
  Lifetimes,    \* expires_in of the tokens Keycloak issues
  MaxTicks      \* bound: the clock

ASSUME TimingAssumption ==
  /\ {CacheTTL, Margin, FetchTimeout, CallTimeout, CredExpiry, MaxTicks} \subseteq Nat
  /\ FetchTimeout + CallTimeout < Margin
  /\ Expiring \subseteq Apps /\ "none" \notin Apps /\ Lifetimes \subseteq Nat

VARIABLES
  ticks,    \* time
  revoked,  \* credentials withdrawn at the controlplane
  cache,    \* Client.cache: {} or {[until, verified]} for each credential
  token,    \* tokenSource: [expires, real, life], 0 before the first
  fetcher,  \* who holds tokenSource.mu and waits for Keycloak
  job       \* what each caller does

appVars == <<ticks, revoked, cache, token, fetcher, job>>

free == [phase |-> "idle", app |-> "none", since |-> 0, token |-> 0, life |-> 0,
         verified |-> 0, status |-> 0]

AppInit ==
  /\ ticks = 0 /\ revoked = {} /\ cache = [a \in Apps |-> {}]
  /\ token = [expires |-> 0, real |-> 0, life |-> 0] /\ fetcher = {}
  /\ job = [c \in AppCallers |-> free]

valid(a) == a \notin revoked /\ (a \in Expiring => ticks < CredExpiry)

done(c, code, at) ==
  job' = [job EXCEPT ![c] = [free EXCEPT !.phase = "done", !.app = job[c].app,
                                         !.status = code, !.verified = at]]
-----------------------------------------------------------------------------
(* A cached entry that has not run out answers the request at once.        *)
Hit(c, a) ==
  /\ job[c].phase = "idle"
  /\ \E e \in cache[a] :
       /\ ticks < e.until
       /\ job' = [job EXCEPT ![c] = [free EXCEPT !.phase = "done", !.app = a,
                                                 !.status = 200, !.verified = e.verified]]
  /\ UNCHANGED <<ticks, revoked, cache, token, fetcher>>

Miss(c, a) ==
  /\ job[c].phase = "idle" /\ \A e \in cache[a] : ticks >= e.until
  /\ job' = [job EXCEPT ![c] = [free EXCEPT !.phase = "token", !.app = a]]
  /\ UNCHANGED <<ticks, revoked, cache, token, fetcher>>

(* CheckItemAccess, ResolveDelegation and GetItem do not look at the cache.*)
Lookup(c) ==
  /\ job[c].phase = "idle"
  /\ job' = [job EXCEPT ![c] = [free EXCEPT !.phase = "token"]]
  /\ UNCHANGED <<ticks, revoked, cache, token, fetcher>>

(* Faulty variant: the token is used up to the moment it runs out.         *)
fresh_noMargin == ticks < token.expires

(* A kept token is used while more than the margin is left.                *)
fresh == ticks + Margin < token.expires

(* authCtx with the token at hand: the call and its deadline start.        *)
UseToken(c) ==
  /\ job[c].phase = "token" /\ fetcher = {} /\ fresh
  /\ job' = [job EXCEPT ![c].phase = "rpc", ![c].since = ticks,
                        ![c].token = token.real, ![c].life = token.life]
  /\ UNCHANGED <<ticks, revoked, cache, token, fetcher>>

(* Faulty variant: the mutex is given up before the request.               *)
Fetch_unlocked(c) ==
  /\ job[c].phase = "token" /\ fetcher = {} /\ ~fresh
  /\ job' = [job EXCEPT ![c].phase = "fetch", ![c].since = ticks]
  /\ UNCHANGED <<ticks, revoked, cache, token, fetcher>>

(* The mutex is held through the request to Keycloak.                      *)
Fetch(c) ==
  /\ job[c].phase = "token" /\ fetcher = {} /\ ~fresh
  /\ fetcher' = {c} /\ job' = [job EXCEPT ![c].phase = "fetch", ![c].since = ticks]
  /\ UNCHANGED <<ticks, revoked, cache, token>>

(* Keycloak issued the token at some moment since; its life is counted     *)
(* from now.                                                               *)
Fetched(c) ==
  /\ job[c].phase = "fetch"
  /\ \E life \in Lifetimes, issued \in job[c].since..ticks :
       /\ token' = [expires |-> ticks + life, real |-> issued + life, life |-> life]
       /\ job' = [job EXCEPT ![c].phase = "rpc", ![c].since = ticks,
                             ![c].token = issued + life, ![c].life = life]
  /\ fetcher' = {}
  /\ UNCHANGED <<ticks, revoked, cache>>

(* A status other than 200, a bad body, a timeout; the old token stays.    *)
FetchFails(c) ==
  /\ job[c].phase = "fetch" /\ fetcher' = {} /\ done(c, 500, 0)
  /\ UNCHANGED <<ticks, revoked, cache, token>>

(* The controlplane looks at the token and the credential.                 *)
Decide(c) ==
  /\ job[c].phase = "rpc"
  /\ job' = [job EXCEPT ![c].phase = IF ticks >= job[c].token THEN "unauthenticated"
                                     ELSE IF job[c].app = "none" THEN "found"
                                     ELSE IF valid(job[c].app) THEN "confirmed" ELSE "rejected",
                        ![c].token = 0, ![c].verified = ticks]
  /\ UNCHANGED <<ticks, revoked, cache, token, fetcher>>

(* Faulty variant: the expiry of the principal is not looked at.           *)
ttlOf_fixed(a) == CacheTTL

ttlOf(a) ==
  IF a \in Expiring /\ CredExpiry < ticks + CacheTTL
  THEN IF CredExpiry > ticks THEN CredExpiry - ticks ELSE 0
  ELSE CacheTTL

(* The answer arrives; a confirmation is cached unless it has no time left.*)
Reply(c) ==
  /\ job[c].phase \in {"found", "confirmed", "rejected", "unauthenticated"}
  /\ LET a == job[c].app IN
     /\ cache' = IF job[c].phase = "confirmed" /\ ttlOf(a) > 0
                 THEN [cache EXCEPT ![a] = {[until |-> ticks + ttlOf(a),
                                             verified |-> job[c].verified]}]
                 ELSE cache
     /\ done(c, CASE job[c].phase \in {"found", "confirmed"} -> 200
                  [] job[c].phase = "rejected" -> 401
                  [] OTHER -> 500, job[c].verified)
  /\ UNCHANGED <<ticks, revoked, token, fetcher>>

RpcFails(c) ==
  /\ job[c].phase \in {"rpc", "found", "confirmed", "rejected"} /\ done(c, 500, 0)
  /\ UNCHANGED <<ticks, revoked, cache, token, fetcher>>

(* The request goes on to its handler, or is refused with 401 or 500.      *)
Leave(c) ==
  /\ job[c].phase = "done" /\ job' = [job EXCEPT ![c] = free]
  /\ UNCHANGED <<ticks, revoked, cache, token, fetcher>>

Revoke(a) ==
  /\ a \notin revoked /\ revoked' = revoked \cup {a}
  /\ UNCHANGED <<ticks, cache, token, fetcher, job>>

(* No request outlives its timeout; one that is done has left by then.     *)
AppTick ==
  /\ ticks < MaxTicks /\ ticks' = ticks + 1
  /\ \A c \in AppCallers :
       /\ job[c].phase # "done"
       /\ job[c].phase = "fetch" => ticks < job[c].since + FetchTimeout
       /\ job[c].phase \in {"rpc", "found", "confirmed", "rejected", "unauthenticated"}
            => ticks < job[c].since + CallTimeout
  /\ UNCHANGED <<revoked, cache, token, fetcher, job>>

AppNext ==
  \/ AppTick \/ \E a \in Apps : Revoke(a)
  \/ \E c \in AppCallers :
       \/ Lookup(c) \/ UseToken(c) \/ Fetch(c) \/ Fetched(c) \/ FetchFails(c) \/ Decide(c)
       \/ Reply(c) \/ RpcFails(c) \/ Leave(c) \/ \E a \in Apps : Hit(c, a) \/ Miss(c, a)

AppSpec == AppInit /\ [][AppNext]_appVars
-----------------------------------------------------------------------------
AppTypeOK ==
  /\ ticks \in 0..MaxTicks /\ revoked \subseteq Apps /\ \A c, d \in fetcher : c = d
  /\ \A c \in AppCallers : job[c].phase = "fetch" <=> c \in fetcher
  /\ \A a \in Apps : \A e, f \in cache[a] : e = f /\ e.verified < e.until
  /\ token.real <= token.expires /\ token.expires <= token.real + FetchTimeout

(***************************************************************************)
(* A confirmed identity goes stale in bounded time: a request is let in    *)
(* only on a confirmation at most CacheTTL and one call old, whatever      *)
(* order the answers come in; so a revoked credential works no longer than *)
(* that, and an expired one never from the cache.                          *)
(***************************************************************************)
StaleIdentityBounded ==
  /\ \A c \in AppCallers :
       job[c].phase = "done" /\ job[c].status = 200 /\ job[c].app \in Apps =>
         /\ ticks <= job[c].verified + CacheTTL + CallTimeout
         /\ job[c].app \in Expiring => ticks <= CredExpiry + CallTimeout
  /\ \A a \in Expiring : \A e \in cache[a] : e.until <= CredExpiry

(***************************************************************************)
(* The service token is still good when the controlplane looks at it,      *)
(* although its life is counted from the arrival of Keycloak's answer; it  *)
(* is not only when Keycloak's tokens live no longer than the slowest      *)
(* fetch and call together.                                                *)
(***************************************************************************)
TokenOutlivesCall ==
  \A c \in AppCallers :
    job[c].phase = "unauthenticated" => job[c].life <= FetchTimeout + CallTimeout

(***************************************************************************)
(* What package appid promises: identities go stale in bounded time, and   *)
(* tokens outlive the calls they are sent with.                            *)
(***************************************************************************)
AppContract ==
  /\ AppTypeOK
  /\ StaleIdentityBounded
  /\ TokenOutlivesCall
=============================================================================
