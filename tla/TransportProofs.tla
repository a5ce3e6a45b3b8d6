-------------------------- MODULE TransportProofs ---------------------------
(***************************************************************************)
(* How calls leave and enter a service, proved for any number of requests  *)
(* and handshakes: the retrying HTTP transport, for any policy and any     *)
(* breaker, the trust store behind mutual TLS, and the identities that     *)
(* services confirm with the controlplane.                                 *)
(***************************************************************************)
EXTENDS RetryTransport, TrustStore, AppIdentity, TLAPS

(* AppIdentity *)

Calling == {"rpc", "found", "confirmed", "rejected", "unauthenticated"}
Phases == Calling \cup {"idle", "token", "fetch", "done"}
Answers == {0, 200, 401, 500}
Jobs == [phase : Phases, app : Apps \cup {"none"}, since : Nat, token : Nat, life : Nat,
         verified : Nat, status : Answers]

(* A job is within the timeout of the request it has made; the token it    *)
(* sends outlives the call, or was issued at most one fetch ago; what was  *)
(* confirmed was valid at a moment of the call; and what is let in was     *)
(* confirmed lately.                                                       *)
JobInv(j) ==
  /\ j.phase = "fetch" => j.since <= ticks /\ ticks <= j.since + FetchTimeout
  /\ j.phase \in Calling => j.since <= ticks /\ ticks <= j.since + CallTimeout
  /\ j.phase = "rpc" => \/ j.since + CallTimeout < j.token
                        \/ j.since + j.life <= j.token + FetchTimeout
  /\ j.phase = "unauthenticated" => j.life <= FetchTimeout + CallTimeout
  /\ j.phase = "found" => j.app = "none"
  /\ j.phase = "confirmed" =>
       /\ j.app \in Apps /\ j.since <= j.verified /\ j.verified <= ticks
       /\ j.app \in Expiring => j.verified < CredExpiry
  /\ j.phase = "done" /\ j.status = 200 /\ j.app \in Apps =>
       /\ ticks <= j.verified + CacheTTL + CallTimeout
       /\ j.app \in Expiring => ticks <= CredExpiry + CallTimeout

Entries == [until : Nat, verified : Nat]

(* A cached confirmation runs out one time to live after the answer that   *)
(* brought it, and not after the credential.                               *)
EntryInv(a, e) ==
  /\ e.verified < e.until /\ e.until <= e.verified + CacheTTL + CallTimeout
  /\ a \in Expiring => e.until <= CredExpiry

CacheInv ==
  /\ cache \in [Apps -> SUBSET Entries]
  /\ \A a \in Apps : (cache[a] = {} \/ \E e \in Entries : cache[a] = {e}) /\ \A e \in cache[a] : EntryInv(a, e)

TokenInv ==
  /\ token \in [expires : Nat, real : Nat, life : Nat]
  /\ token.real <= token.expires /\ token.expires <= token.real + FetchTimeout

AppInv ==
  /\ ticks \in 0..MaxTicks /\ revoked \subseteq Apps
  /\ CacheInv /\ TokenInv
  /\ fetcher = {} \/ \E c \in AppCallers : fetcher = {c}
  /\ job \in [AppCallers -> Jobs]
  /\ \A c \in AppCallers : JobInv(job[c]) /\ (job[c].phase = "fetch" <=> c \in fetcher)

LEMMA AppInvGives == AppInv => AppContract
<1> SUFFICES ASSUME AppInv PROVE AppContract
  OBVIOUS
<1>1. (\A c, d \in fetcher : c = d) /\ \A a \in Apps : \A e, f \in cache[a] : e = f
  BY Zenon DEF AppInv, CacheInv
<1>2. AppTypeOK
  BY Zenon, <1>1 DEF AppInv, CacheInv, EntryInv, TokenInv, AppTypeOK
<1>3. StaleIdentityBounded
  BY ZenonT(30), TimingAssumption DEF AppInv, CacheInv, EntryInv, JobInv, StaleIdentityBounded
<1>4. TokenOutlivesCall
  BY Zenon DEF AppInv, JobInv, TokenOutlivesCall
<1> QED BY Zenon, <1>2, <1>3, <1>4 DEF AppContract

LEMMA AllPhases ==
  /\ "idle" \in Phases /\ "token" \in Phases /\ "fetch" \in Phases /\ "rpc" \in Phases /\ "found" \in Phases
  /\ "confirmed" \in Phases /\ "rejected" \in Phases /\ "unauthenticated" \in Phases /\ "done" \in Phases
  BY Zenon DEF Phases, Calling

LEMMA FreeJob ==
  /\ free \in Jobs /\ free.phase = "idle" /\ free.app = "none" /\ free.since = 0 /\ free.token = 0
  /\ free.life = 0 /\ free.verified = 0 /\ free.status = 0
  BY ZenonT(30) DEF free, Jobs, Phases, Answers

(* The jobs that the actions make of another. *)
movedOn(j, p, s) == [j EXCEPT !.phase = p, !.since = s]
asked(j, p, a) == [j EXCEPT !.phase = p, !.app = a]
withToken(j, t, l) == [j EXCEPT !.token = t, !.life = l]
decided(j, p, v) == [j EXCEPT !.phase = p, !.token = 0, !.verified = v]
answered(j, code, v) == [j EXCEPT !.status = code, !.verified = v]

LEMMA MovedOn ==
  ASSUME NEW j \in Jobs, NEW p \in Phases, NEW s \in Nat
  PROVE  LET k == movedOn(j, p, s)
         IN /\ k \in Jobs /\ k.phase = p /\ k.app = j.app /\ k.since = s /\ k.token = j.token
            /\ k.life = j.life /\ k.verified = j.verified /\ k.status = j.status
<1> DEFINE k1 == [j EXCEPT !.phase = p]
           k2 == [k1 EXCEPT !.since = s]
<1>1. /\ k1 \in Jobs /\ k1.phase = p /\ k1.app = j.app /\ k1.since = j.since /\ k1.token = j.token
      /\ k1.life = j.life /\ k1.verified = j.verified /\ k1.status = j.status
  BY Zenon DEF Jobs
<1> HIDE DEF k1
<1>2. /\ k2 \in Jobs /\ k2.phase = p /\ k2.app = j.app /\ k2.since = s /\ k2.token = j.token
      /\ k2.life = j.life /\ k2.verified = j.verified /\ k2.status = j.status
  BY Zenon, <1>1 DEF Jobs
<1>3. movedOn(j, p, s) = k2
  BY Zenon DEF movedOn, k1, k2
<1> HIDE DEF k2
<1> QED BY Zenon, <1>2, <1>3

LEMMA Asked ==
  ASSUME NEW j \in Jobs, NEW p \in Phases, NEW a \in Apps \cup {"none"}
  PROVE  LET k == asked(j, p, a)
         IN /\ k \in Jobs /\ k.phase = p /\ k.app = a /\ k.since = j.since /\ k.token = j.token
            /\ k.life = j.life /\ k.verified = j.verified /\ k.status = j.status
<1> DEFINE k1 == [j EXCEPT !.phase = p]
           k2 == [k1 EXCEPT !.app = a]
<1>1. /\ k1 \in Jobs /\ k1.phase = p /\ k1.app = j.app /\ k1.since = j.since /\ k1.token = j.token
      /\ k1.life = j.life /\ k1.verified = j.verified /\ k1.status = j.status
  BY Zenon DEF Jobs
<1> HIDE DEF k1
<1>2. /\ k2 \in Jobs /\ k2.phase = p /\ k2.app = a /\ k2.since = j.since /\ k2.token = j.token
      /\ k2.life = j.life /\ k2.verified = j.verified /\ k2.status = j.status
  BY Zenon, <1>1 DEF Jobs
<1>3. asked(j, p, a) = k2
  BY Zenon DEF asked, k1, k2
<1> HIDE DEF k2
<1> QED BY Zenon, <1>2, <1>3

LEMMA WithToken ==
  ASSUME NEW j \in Jobs, NEW t \in Nat, NEW l \in Nat
  PROVE  LET k == withToken(j, t, l)
         IN /\ k \in Jobs /\ k.phase = j.phase /\ k.app = j.app /\ k.since = j.since /\ k.token = t
            /\ k.life = l /\ k.verified = j.verified /\ k.status = j.status
<1> DEFINE k1 == [j EXCEPT !.token = t]
           k2 == [k1 EXCEPT !.life = l]
<1>1. /\ k1 \in Jobs /\ k1.phase = j.phase /\ k1.app = j.app /\ k1.since = j.since /\ k1.token = t
      /\ k1.life = j.life /\ k1.verified = j.verified /\ k1.status = j.status
  BY Zenon DEF Jobs
<1> HIDE DEF k1
<1>2. /\ k2 \in Jobs /\ k2.phase = j.phase /\ k2.app = j.app /\ k2.since = j.since /\ k2.token = t
      /\ k2.life = l /\ k2.verified = j.verified /\ k2.status = j.status
  BY Zenon, <1>1 DEF Jobs
<1>3. withToken(j, t, l) = k2
  BY Zenon DEF withToken, k1, k2
<1> HIDE DEF k2
<1> QED BY Zenon, <1>2, <1>3

LEMMA Decided ==
  ASSUME NEW j \in Jobs, NEW p \in Phases, NEW v \in Nat
  PROVE  LET k == decided(j, p, v)
         IN /\ k \in Jobs /\ k.phase = p /\ k.app = j.app /\ k.since = j.since /\ k.token = 0
            /\ k.life = j.life /\ k.verified = v /\ k.status = j.status
<1> DEFINE k1 == [j EXCEPT !.phase = p]
           k2 == [k1 EXCEPT !.token = 0]
           k3 == [k2 EXCEPT !.verified = v]
<1>1. /\ k1 \in Jobs /\ k1.phase = p /\ k1.app = j.app /\ k1.since = j.since /\ k1.token = j.token
      /\ k1.life = j.life /\ k1.verified = j.verified /\ k1.status = j.status
  BY ZenonT(30) DEF Jobs
<1> HIDE DEF k1
<1>2. /\ k2 \in Jobs /\ k2.phase = p /\ k2.app = j.app /\ k2.since = j.since /\ k2.token = 0
      /\ k2.life = j.life /\ k2.verified = j.verified /\ k2.status = j.status
  BY Zenon, <1>1 DEF Jobs
<1> HIDE DEF k2
<1>3. /\ k3 \in Jobs /\ k3.phase = p /\ k3.app = j.app /\ k3.since = j.since /\ k3.token = 0
      /\ k3.life = j.life /\ k3.verified = v /\ k3.status = j.status
  BY Zenon, <1>2 DEF Jobs
<1>4. decided(j, p, v) = k3
  BY Zenon DEF decided, k1, k2, k3
<1> HIDE DEF k3
<1> QED BY Zenon, <1>3, <1>4

LEMMA ReplyIs ==
  ASSUME NEW j \in Jobs, NEW code \in Answers, NEW v \in Nat
  PROVE  LET k == answered(j, code, v)
         IN /\ k \in Jobs /\ k.phase = j.phase /\ k.app = j.app /\ k.since = j.since /\ k.token = j.token
            /\ k.life = j.life /\ k.verified = v /\ k.status = code
<1> DEFINE k1 == [j EXCEPT !.status = code]
           k2 == [k1 EXCEPT !.verified = v]
<1>1. /\ k1 \in Jobs /\ k1.phase = j.phase /\ k1.app = j.app /\ k1.since = j.since /\ k1.token = j.token
      /\ k1.life = j.life /\ k1.verified = j.verified /\ k1.status = code
  BY Zenon DEF Jobs
<1> HIDE DEF k1
<1>2. /\ k2 \in Jobs /\ k2.phase = j.phase /\ k2.app = j.app /\ k2.since = j.since /\ k2.token = j.token
      /\ k2.life = j.life /\ k2.verified = v /\ k2.status = code
  BY Zenon, <1>1 DEF Jobs
<1>3. answered(j, code, v) = k2
  BY Zenon DEF answered, k1, k2
<1> HIDE DEF k2
<1> QED BY Zenon, <1>2, <1>3

LEMMA InitApp == AppInit => AppInv
<1> SUFFICES ASSUME AppInit PROVE AppInv
  OBVIOUS
<1>1. ticks \in 0..MaxTicks
  BY TimingAssumption DEF AppInit
<1>2. CacheInv
  BY Zenon DEF AppInit, CacheInv
<1>3. TokenInv
  BY TimingAssumption DEF AppInit, TokenInv
<1>4. \A c \in AppCallers : JobInv(job[c]) /\ (job[c].phase = "fetch" <=> c \in fetcher)
  BY Zenon, FreeJob DEF AppInit, JobInv, Calling
<1>5. job \in [AppCallers -> Jobs]
  BY Zenon, FreeJob DEF AppInit
<1> QED BY Zenon, <1>1, <1>2, <1>3, <1>4, <1>5 DEF AppInit, AppInv

(* A step of one caller, which may take or give up the token's mutex. *)
LEMMA OneJob ==
  ASSUME AppInv, NEW c \in AppCallers, NEW j \in Jobs, job' = [job EXCEPT ![c] = j],
         UNCHANGED <<ticks, revoked>>, CacheInv', TokenInv', JobInv(j),
         fetcher' = fetcher \/ fetcher' = {} \/ fetcher' = {c},
         \A d \in AppCallers \ {c} : d \in fetcher' <=> d \in fetcher,
         j.phase = "fetch" <=> c \in fetcher'
  PROVE  AppInv'
<1>1. ASSUME NEW d \in AppCallers PROVE JobInv(job[d])' /\ (job'[d].phase = "fetch" <=> d \in fetcher')
  <2>1. CASE d = c
    BY SMTT(30), <2>1 DEF AppInv, JobInv
  <2>2. CASE d # c
    BY Zenon, <2>2 DEF AppInv, JobInv
  <2> QED BY Zenon, <2>1, <2>2
<1>2. job' \in [AppCallers -> Jobs]
  BY Zenon DEF AppInv
<1>3. fetcher' = {} \/ \E d \in AppCallers : fetcher' = {d}
  BY Zenon DEF AppInv
<1> QED BY Zenon, <1>1, <1>2, <1>3 DEF AppInv

(* Steps that leave the cache, the token and the mutex alone. *)
LEMMA QuietJob ==
  ASSUME AppInv, NEW c \in AppCallers, NEW j \in Jobs, job' = [job EXCEPT ![c] = j],
         UNCHANGED <<ticks, revoked, cache, token, fetcher>>, JobInv(j),
         j.phase = "fetch" <=> job[c].phase = "fetch"
  PROVE  AppInv'
<1>1. CacheInv' /\ TokenInv'
  BY Zenon DEF AppInv, CacheInv, EntryInv, TokenInv
<1>2. j.phase = "fetch" <=> c \in fetcher'
  BY Zenon DEF AppInv
<1> QED BY Zenon, <1>1, <1>2, OneJob

LEMMA LookedUpKeeps ==
  ASSUME AppInv, NEW c \in AppCallers, NEW a \in Apps, Hit(c, a) \/ Miss(c, a) PROVE AppInv'
<1>1. CASE Hit(c, a)
  <2>1. PICK e \in cache[a] :
          /\ ticks < e.until
          /\ job' = [job EXCEPT ![c] = [free EXCEPT !.phase = "done", !.app = a,
                                                    !.status = 200, !.verified = e.verified]]
    BY Zenon, <1>1 DEF Hit
  <2>2. e \in Entries /\ EntryInv(a, e) /\ e.until \in Nat /\ e.verified \in Nat /\ ticks \in Nat
    BY TimingAssumption DEF AppInv, CacheInv, Entries
  <2> DEFINE p == "done"
             code == 200
             i == asked(free, p, a)
             j == answered(i, code, e.verified)
  <2>a. p \in Phases /\ p = "done" /\ code \in Answers
    BY Zenon, AllPhases DEF Answers
  <2>4. job' = [job EXCEPT ![c] = j]
    BY Zenon, <2>1 DEF asked, answered
  <2> HIDE DEF p, code
  <2>b. i \in Jobs /\ i.phase = p /\ i.app = a
    BY <2>a, FreeJob, Asked
  <2> HIDE DEF i
  <2>3. j \in Jobs /\ j.phase = p /\ j.app = a /\ j.verified = e.verified
    BY <2>2, <2>a, <2>b, ReplyIs
  <2> HIDE DEF j
  <2>5. JobInv(j)
    BY <2>1, <2>2, <2>3, <2>a, TimingAssumption DEF JobInv, EntryInv, Calling
  <2> QED BY Zenon, <1>1, <2>a, <2>3, <2>4, <2>5, QuietJob DEF Hit
<1>2. CASE Miss(c, a)
  <2> DEFINE j == asked(free, "token", a)
  <2>1. j \in Jobs /\ j.phase = "token"
    BY FreeJob, AllPhases, Asked
  <2>2. job' = [job EXCEPT ![c] = j]
    BY Zenon, <1>2 DEF Miss, asked
  <2> HIDE DEF j
  <2>3. JobInv(j)
    BY Zenon, <2>1 DEF JobInv, Calling
  <2> QED BY Zenon, <1>2, <2>1, <2>2, <2>3, QuietJob DEF Miss
<1> QED BY Zenon, <1>1, <1>2

LEMMA BareKeeps == ASSUME AppInv, NEW c \in AppCallers, Lookup(c) \/ Leave(c) PROVE AppInv'
<1>1. CASE Lookup(c)
  <2> DEFINE j == [free EXCEPT !.phase = "token"]
  <2>1. j \in Jobs /\ j.phase = "token" /\ job' = [job EXCEPT ![c] = j]
    BY Zenon, <1>1, FreeJob, AllPhases DEF free, Jobs, Lookup
  <2> HIDE DEF j
  <2> QED BY Zenon, <1>1, <2>1, QuietJob DEF Lookup, JobInv, Calling
<1>2. CASE Leave(c)
  BY Zenon, <1>2, FreeJob, QuietJob DEF Leave, JobInv, Calling
<1> QED BY Zenon, <1>1, <1>2

LEMMA UseTokenKeeps == ASSUME AppInv, NEW c \in AppCallers, UseToken(c) PROVE AppInv'
<1> DEFINE p == "rpc"
           i == movedOn(job[c], p, ticks)
           j == withToken(i, token.real, token.life)
<1>a. p \in Phases /\ p = "rpc"
  BY Zenon, AllPhases
<1>1. job[c] \in Jobs /\ ticks \in Nat /\ token.real \in Nat /\ token.life \in Nat /\ token.expires \in Nat
  BY TimingAssumption DEF AppInv, TokenInv
<1>2. job' = [job EXCEPT ![c] = j]
  BY Zenon DEF UseToken, movedOn, withToken
<1> HIDE DEF p
<1>b. i \in Jobs /\ i.phase = p /\ i.since = ticks
  <2>1. job[c] \in Jobs /\ p \in Phases /\ ticks \in Nat
    BY Zenon, <1>1, <1>a
  <2> QED BY Zenon, <2>1, MovedOn
<1> HIDE DEF i
<1>3. j \in Jobs /\ j.phase = p /\ j.since = ticks /\ j.token = token.real
  <2> DEFINE t == token.real
             l == token.life
  <2>1. t \in Nat /\ l \in Nat
    BY Zenon, <1>1
  <2> HIDE DEF t, l
  <2>2. LET k == withToken(i, t, l) IN k \in Jobs /\ k.phase = p /\ k.since = ticks /\ k.token = t
    BY Zenon, <1>b, <2>1, WithToken
  <2> QED BY Zenon, <2>2 DEF t, l
<1> HIDE DEF j
<1>4. JobInv(j)
  BY <1>1, <1>a, <1>3, TimingAssumption DEF UseToken, fresh, AppInv, TokenInv, JobInv
<1> QED BY Zenon, <1>a, <1>2, <1>3, <1>4, QuietJob DEF UseToken

LEMMA FetchKeeps == ASSUME AppInv, NEW c \in AppCallers, Fetch(c) PROVE AppInv'
<1> DEFINE p == "fetch"
           j == movedOn(job[c], p, ticks)
<1>a. p \in Phases /\ p = "fetch"
  BY Zenon, AllPhases
<1>1. job[c] \in Jobs /\ ticks \in Nat
  BY TimingAssumption DEF AppInv
<1>3. job' = [job EXCEPT ![c] = j] /\ fetcher' = {c} /\ fetcher = {} /\ UNCHANGED <<ticks, revoked, cache, token>>
  BY Zenon DEF Fetch, movedOn
<1> HIDE DEF p
<1>2. j \in Jobs /\ j.phase = p /\ j.since = ticks
  BY Zenon, <1>1, <1>a, MovedOn
<1> HIDE DEF j
<1>4. JobInv(j)
  BY <1>1, <1>a, <1>2, TimingAssumption DEF JobInv, Calling
<1>5. CacheInv' /\ TokenInv'
  BY Zenon, <1>3 DEF AppInv, CacheInv, EntryInv, TokenInv
<1> QED BY Zenon, <1>a, <1>2, <1>3, <1>4, <1>5, OneJob


LEMMA FetchedKeeps == ASSUME AppInv, NEW c \in AppCallers, Fetched(c) PROVE AppInv'
<1>1. PICK life \in Lifetimes, issued \in job[c].since..ticks :
        /\ token' = [expires |-> ticks + life, real |-> issued + life, life |-> life]
        /\ job' = [job EXCEPT ![c].phase = "rpc", ![c].since = ticks,
                              ![c].token = issued + life, ![c].life = life]
  BY Zenon DEF Fetched
<1>2. /\ job[c] \in Jobs /\ job[c].since \in Nat /\ ticks \in Nat /\ life \in Nat /\ issued \in Nat
      /\ issued + life \in Nat
  <2>1. job[c] \in Jobs /\ ticks \in Nat /\ life \in Nat
    BY TimingAssumption DEF AppInv
  <2>2. job[c].since \in Nat
    BY Zenon, <2>1 DEF Jobs
  <2> QED BY <2>1, <2>2
<1>3. /\ job[c].phase = "fetch" /\ ticks <= job[c].since + FetchTimeout /\ c \in fetcher
      /\ fetcher' = {} /\ UNCHANGED <<ticks, revoked, cache>>
  BY Zenon DEF Fetched, AppInv, JobInv
<1> DEFINE p == "rpc"
           i == movedOn(job[c], p, ticks)
           j == withToken(i, issued + life, life)
<1>a. p \in Phases /\ p = "rpc"
  BY Zenon, AllPhases
<1>5. job' = [job EXCEPT ![c] = j]
  BY Zenon, <1>1 DEF movedOn, withToken
<1> HIDE DEF p
<1>b. i \in Jobs /\ i.phase = p /\ i.since = ticks
  <2>1. job[c] \in Jobs /\ p \in Phases /\ ticks \in Nat
    BY Zenon, <1>2, <1>a
  <2> QED BY Zenon, <2>1, MovedOn
<1> HIDE DEF i
<1>4. j \in Jobs /\ j.phase = p /\ j.since = ticks /\ j.token = issued + life /\ j.life = life
  <2> DEFINE t == issued + life
             l == life
  <2>1. t \in Nat /\ l \in Nat
    BY Zenon, <1>2
  <2> HIDE DEF t, l
  <2>2. LET k == withToken(i, t, l) IN k \in Jobs /\ k.phase = p /\ k.since = ticks /\ k.token = t /\ k.life = l
    BY Zenon, <1>b, <2>1, WithToken
  <2> QED BY Zenon, <2>2 DEF t, l
<1> HIDE DEF j
<1>6. JobInv(j)
  BY SMTT(30), <1>2, <1>3, <1>4, <1>a, TimingAssumption DEF JobInv
<1>7. TokenInv'
  BY SMTT(30), <1>1, <1>2, <1>3, TimingAssumption DEF TokenInv
<1>8. CacheInv'
  BY Zenon, <1>3 DEF AppInv, CacheInv, EntryInv
<1>9. \A d \in AppCallers \ {c} : d \notin fetcher
  BY Zenon, <1>3 DEF AppInv
<1> QED BY Zenon, <1>a, <1>3, <1>4, <1>5, <1>6, <1>7, <1>8, <1>9, OneJob

(* The request ends with a status. *)
LEMMA DoneKeeps ==
  ASSUME AppInv, NEW c \in AppCallers, NEW code \in Answers, NEW at \in Nat, done(c, code, at),
         UNCHANGED <<ticks, revoked, token>>, CacheInv', fetcher' = fetcher \ {c},
         code = 200 /\ job[c].app \in Apps =>
           /\ ticks <= at + CacheTTL + CallTimeout
           /\ job[c].app \in Expiring => ticks <= CredExpiry + CallTimeout
  PROVE  AppInv'
<1> DEFINE p == "done"
           i == asked(free, p, job[c].app)
           j == answered(i, code, at)
<1>a. p \in Phases /\ p = "done"
  BY Zenon, AllPhases
<1>1. job[c].app \in Apps \cup {"none"}
  BY Zenon DEF AppInv, Jobs
<1>3. job' = [job EXCEPT ![c] = j]
  BY Zenon DEF done, asked, answered
<1> HIDE DEF p
<1>b. i \in Jobs /\ i.phase = p /\ i.app = job[c].app
  BY Zenon, <1>1, <1>a, FreeJob, Asked
<1> HIDE DEF i
<1>2. j \in Jobs /\ j.phase = p /\ j.app = job[c].app /\ j.status = code /\ j.verified = at
  BY Zenon, <1>b, ReplyIs
<1> HIDE DEF j
<1>4. JobInv(j)
  BY Zenon, <1>2, <1>a DEF JobInv, Calling
<1>5. TokenInv'
  BY Zenon DEF AppInv, TokenInv
<1>6. fetcher' = fetcher \/ fetcher' = {}
  BY Zenon DEF AppInv
<1> QED BY Zenon, <1>a, <1>2, <1>3, <1>4, <1>5, <1>6, OneJob

LEMMA FailsKeeps == ASSUME AppInv, NEW c \in AppCallers, FetchFails(c) \/ RpcFails(c) PROVE AppInv'
<1>1. done(c, 500, 0) /\ UNCHANGED <<ticks, revoked, cache, token>>
  BY Zenon DEF FetchFails, RpcFails
<1>2. fetcher' = fetcher \ {c}
  BY Zenon DEF FetchFails, RpcFails, AppInv
<1>3. CacheInv'
  BY ZenonT(30), <1>1 DEF AppInv, CacheInv, EntryInv
<1>4. 500 \in Answers
  BY Zenon DEF Answers
<1> QED BY SMTT(30), <1>1, <1>2, <1>3, <1>4, DoneKeeps

LEMMA DecideKeeps == ASSUME AppInv, NEW c \in AppCallers, Decide(c) PROVE AppInv'
<1>1. /\ job[c].phase = "rpc" /\ job[c] \in Jobs /\ ticks \in Nat /\ JobInv(job[c])
      /\ UNCHANGED <<ticks, revoked, cache, token, fetcher>>
  BY TimingAssumption DEF Decide, AppInv
<1>2. /\ job[c].token \in Nat /\ job[c].since \in Nat /\ job[c].life \in Nat /\ job[c].app \in Apps \cup {"none"}
  BY Zenon, <1>1 DEF Jobs
<1> DEFINE p == IF ticks >= job[c].token THEN "unauthenticated"
                ELSE IF job[c].app = "none" THEN "found"
                ELSE IF valid(job[c].app) THEN "confirmed" ELSE "rejected"
           j == decided(job[c], p, ticks)
<1>3. p \in Phases /\ p \in Calling /\ p # "rpc"
  BY Zenon DEF Phases, Calling
<1>4. /\ p = "unauthenticated" => ticks >= job[c].token
      /\ p = "found" => job[c].app = "none"
      /\ p = "confirmed" => job[c].app # "none" /\ valid(job[c].app)
  OBVIOUS
<1>5. job' = [job EXCEPT ![c] = j]
  BY Zenon DEF Decide, decided
<1> HIDE DEF p
<1>6. /\ j \in Jobs /\ j.phase = p /\ j.since = job[c].since /\ j.life = job[c].life
      /\ j.verified = ticks /\ j.app = job[c].app
  BY <1>1, <1>3, Decided
<1> HIDE DEF j
<1>7. JobInv(j)
  <2>1. job[c].since <= ticks /\ ticks <= job[c].since + CallTimeout
    BY Zenon, <1>1 DEF JobInv, Calling
  <2>2. p = "unauthenticated" => job[c].life <= FetchTimeout + CallTimeout
    BY SMTT(30), <1>1, <1>2, <1>4, <2>1, TimingAssumption DEF JobInv
  <2>3. p = "confirmed" => job[c].app \in Apps /\ (job[c].app \in Expiring => ticks < CredExpiry)
    BY Zenon, <1>2, <1>4 DEF valid
  <2>4. p # "fetch" /\ p # "done"
    BY Zenon, <1>3 DEF Calling
  <2>5. ticks <= ticks
    BY <1>1
  <2> QED BY Zenon, <1>1, <1>3, <1>4, <1>6, <2>1, <2>2, <2>3, <2>4, <2>5 DEF JobInv
<1> QED BY Zenon, <1>1, <1>3, <1>5, <1>6, <1>7, QuietJob DEF Calling

LEMMA ReplyKeeps == ASSUME AppInv, NEW c \in AppCallers, Reply(c) PROVE AppInv'
<1> DEFINE a == job[c].app
           code == CASE job[c].phase \in {"found", "confirmed"} -> 200
                     [] job[c].phase = "rejected" -> 401
                     [] OTHER -> 500
<1>1. /\ job[c].phase \in {"found", "confirmed", "rejected", "unauthenticated"}
      /\ job[c] \in Jobs /\ ticks \in Nat /\ JobInv(job[c])
      /\ UNCHANGED <<ticks, revoked, token, fetcher>>
  BY SMTT(30), TimingAssumption DEF Reply, AppInv
<1>2. job[c].verified \in Nat /\ job[c].since \in Nat
  BY Zenon, <1>1 DEF Jobs
<1>3. done(c, code, job[c].verified)
  BY Zenon DEF Reply
<1>4. code \in Answers /\ (code = 200 => job[c].phase \in {"found", "confirmed"})
  BY SMTT(30) DEF Answers
<1> HIDE DEF code
<1>5. ticks <= job[c].since + CallTimeout
  BY Zenon, <1>1 DEF JobInv, Calling
<1>6. CASE job[c].phase = "confirmed"
  <2>1. /\ a \in Apps /\ job[c].since <= job[c].verified /\ job[c].verified <= ticks
        /\ a \in Expiring => job[c].verified < CredExpiry
    BY Zenon, <1>1, <1>6 DEF JobInv
  <2>2. CacheInv'
    <3>1. CASE ttlOf(a) > 0
      <4> DEFINE e == [until |-> ticks + ttlOf(a), verified |-> job[c].verified]
      <4>1. cache' = [cache EXCEPT ![a] = {e}]
        BY Zenon, <1>6, <3>1 DEF Reply
      <4>2. /\ ttlOf(a) \in Nat /\ ttlOf(a) <= CacheTTL
            /\ a \in Expiring => ticks + ttlOf(a) <= CredExpiry
        BY SMTT(30), <1>1, <3>1, TimingAssumption DEF ttlOf
      <4>3. e \in Entries /\ e.until = ticks + ttlOf(a) /\ e.verified = job[c].verified
        BY SMTT(30), <1>1, <1>2, <4>2 DEF Entries
      <4> HIDE DEF e
      <4>4. EntryInv(a, e)
        BY SMTT(30), <1>1, <1>2, <1>5, <2>1, <3>1, <4>2, <4>3, TimingAssumption DEF EntryInv
      <4> QED BY Zenon, <2>1, <4>1, <4>3, <4>4 DEF AppInv, CacheInv, EntryInv
    <3>2. CASE ~(ttlOf(a) > 0)
      BY Zenon, <3>2 DEF Reply, AppInv, CacheInv, EntryInv
    <3> QED BY Zenon, <3>1, <3>2
  <2>3. fetcher' = fetcher \ {c}
    BY Zenon, <1>1, <1>6 DEF AppInv
  <2>4. /\ ticks <= job[c].verified + CacheTTL + CallTimeout
        /\ a \in Expiring => ticks <= CredExpiry + CallTimeout
    BY SMTT(30), <1>1, <1>2, <1>5, <2>1, TimingAssumption
  <2> QED BY Zenon, <1>1, <1>2, <1>3, <1>4, <2>2, <2>3, <2>4, DoneKeeps
<1>7. CASE job[c].phase # "confirmed"
  <2>1. CacheInv'
    BY Zenon, <1>7 DEF Reply, AppInv, CacheInv, EntryInv
  <2>2. fetcher' = fetcher \ {c}
    BY Zenon, <1>1 DEF AppInv
  <2>3. ~(code = 200 /\ a \in Apps)
    BY SMTT(30), <1>1, <1>4, <1>7, TimingAssumption DEF JobInv
  <2> QED BY Zenon, <1>1, <1>2, <1>3, <1>4, <2>1, <2>2, <2>3, DoneKeeps
<1> QED BY Zenon, <1>6, <1>7

LEMMA TickKeeps == ASSUME AppInv, AppTick PROVE AppInv'
<1>1. ticks \in Nat /\ ticks' = ticks + 1 /\ ticks' \in 0..MaxTicks /\ UNCHANGED <<revoked, cache, token, fetcher, job>>
  BY TimingAssumption DEF AppInv, AppTick
<1>2. CacheInv' /\ TokenInv'
  BY Zenon, <1>1 DEF AppInv, CacheInv, EntryInv, TokenInv
<1>3. ASSUME NEW c \in AppCallers PROVE JobInv(job[c])'
  <2>1. job[c] \in Jobs /\ job[c].since \in Nat /\ job[c].verified \in Nat /\ JobInv(job[c])
    BY Zenon DEF AppInv, Jobs
  <2>2. /\ job[c].phase # "done"
        /\ job[c].phase = "fetch" => ticks < job[c].since + FetchTimeout
        /\ job[c].phase \in Calling => ticks < job[c].since + CallTimeout
    BY Zenon DEF AppTick, Calling
  <2> QED BY SMTT(30), <1>1, <2>1, <2>2, TimingAssumption DEF JobInv
<1> QED BY Zenon, <1>1, <1>2, <1>3 DEF AppInv

LEMMA AppStepKeeps == AppInv /\ [AppNext]_appVars => AppInv'
<1>1. ASSUME AppInv, UNCHANGED appVars PROVE AppInv'
  <2>1. CacheInv' /\ TokenInv' /\ \A c \in AppCallers : JobInv(job[c])'
    BY Zenon, <1>1 DEF AppInv, CacheInv, EntryInv, TokenInv, JobInv, appVars
  <2> QED BY Zenon, <1>1, <2>1 DEF AppInv, appVars
<1>2. ASSUME AppInv, NEW a \in Apps, Revoke(a) PROVE AppInv'
  <2>1. CacheInv' /\ TokenInv' /\ \A c \in AppCallers : JobInv(job[c])'
    BY Zenon, <1>2 DEF AppInv, CacheInv, EntryInv, TokenInv, JobInv, Revoke
  <2> QED BY Zenon, <1>2, <2>1 DEF AppInv, Revoke
<1> QED BY Zenon, <1>1, <1>2, LookedUpKeeps, BareKeeps, UseTokenKeeps, FetchKeeps, FetchedKeeps, FailsKeeps, DecideKeeps,
           ReplyKeeps, TickKeeps DEF AppNext

(***************************************************************************)
(* Package appid, for any callers, credentials and lifetimes, if only the  *)
(* margin exceeds a fetch and a call: a request is let in on a             *)
(* confirmation at most one time to live and one call old, an expired      *)
(* credential never from the cache, and the service token is good when the *)
(* controlplane looks at it.                                               *)
(***************************************************************************)
THEOREM AppKept == AppSpec => []AppContract
  BY InitApp, AppStepKeeps, AppInvGives, PTL DEF AppSpec

-----------------------------------------------------------------------------
(***************************************************************************)
(* The trust store                                                         *)
(***************************************************************************)

Shakes == [at : {"chain", "verify", "accepted", "refused"}, cert : Certs, pool : SUBSET Anchors,
           seen : (SUBSET Snapshots) \ {{}}]

(* Some snapshot in force during the handshake chains the certificate, or  *)
(* does not list it, or both, or neither.                                  *)
Chained(k) == \E s \in k.seen : chains(s.anchors, k.cert)
Unlisted(k) == \E s \in k.seen : <<k.cert.issuer, k.cert.serial>> \notin s.crls
Trusted(k) == \E s \in k.seen : chains(s.anchors, k.cert) /\ <<k.cert.issuer, k.cert.serial>> \notin s.crls
Untrusted(k) ==
  \/ ~k.cert.parses \/ k.cert.serial \in Unwelcome
  \/ \E s \in k.seen : ~chains(s.anchors, k.cert) \/ <<k.cert.issuer, k.cert.serial>> \in s.crls

(* What a handshake k of a configuration of this kind has established: the *)
(* pool is of a snapshot it has seen, the present snapshot is one of those *)
(* it has seen while it runs, and it passed the steps before.              *)
HandshakeInv(k, kind) ==
  /\ k \in Shakes /\ kind # "none"
  /\ k.at \in {"chain", "verify"} => snap \in k.seen
  /\ kind = "server" =>
       /\ \E s \in k.seen : k.pool = s.anchors
       /\ k.at \in {"verify", "accepted"} => Chained(k)
       /\ k.at = "accepted" => Unlisted(k) /\ k.cert.serial \notin Unwelcome
       /\ k.at = "refused" => Untrusted(k)
  /\ kind = "client" =>
       /\ k.at # "chain"
       /\ k.at = "accepted" => Trusted(k)
       /\ k.at = "refused" => Untrusted(k)

TrustInv ==
  /\ snap \in Snapshots /\ swaps \in 0..MaxSwaps
  /\ config \in {"none", "server", "client", "named"} /\ roots \subseteq Anchors
  /\ DOMAIN shake = Handshakes /\ shake = [h \in Handshakes |-> shake[h]]
  /\ \A h \in Handshakes : shake[h] = Idle \/ HandshakeInv(shake[h], config)

LEMMA IdleIsApart == \A k \in Shakes : k # Idle
  BY DEF Shakes, Idle

LEMMA IdleAt == Idle.at = "idle"
  BY Zenon DEF Idle

LEMMA TrustInvGives == TrustInv => TrustContract
<1> SUFFICES ASSUME TrustInv PROVE TrustContract
  OBVIOUS
<1>1. TrustTypeOK
  BY Zenon DEF TrustInv, TrustTypeOK, HandshakeInv, Shakes
<1>2. ASSUME NEW kind \in {"server", "client"}, NEW at \in {"accepted", "refused"}, NEW k \in Settled(kind, at)
      PROVE  HandshakeInv(k, kind) /\ k.at = at
  <2>1. PICK h \in Handshakes : k = shake[h] /\ shake[h].at = at /\ config = kind
    BY Zenon, <1>2 DEF Settled
  <2> QED BY Zenon, <2>1, IdleAt DEF TrustInv
<1>3. AcceptedWasTrusted
  BY Zenon, <1>2 DEF AcceptedWasTrusted, HandshakeInv, Chained, Unlisted, Trusted
<1>4. SwapRefusesNobody
  BY Zenon, <1>2 DEF SwapRefusesNobody, HandshakeInv, Untrusted
<1> QED BY Zenon, <1>1, <1>3, <1>4 DEF TrustContract

LEMMA InitTrust == TrustInit => TrustInv
<1> SUFFICES ASSUME TrustInit PROVE TrustInv
  OBVIOUS
<1>1. snap \in Snapshots /\ swaps \in 0..MaxSwaps
  BY SwapAssumption DEF TrustInit, Snapshots
<1> QED BY Zenon, <1>1 DEF TrustInit, TrustInv

(* onCRL finds an entry of the peer's issuer and serial number. *)
LEMMA OnList ==
  ASSUME NEW s \in Snapshots, NEW cert
  PROVE  onCRL(cert, s.crls) <=> <<cert.issuer, cert.serial>> \in s.crls
  BY SMTT(30) DEF onCRL, Snapshots

(* A step of one handshake. *)
LEMMA OneHandshake ==
  ASSUME TrustInv, NEW h \in Handshakes, NEW k, shake' = [shake EXCEPT ![h] = k],
         UNCHANGED <<snap, swaps, config, roots>>, HandshakeInv(k, config)
  PROVE  TrustInv'
  BY SMTT(30) DEF TrustInv, HandshakeInv

LEMMA ReplaceKeeps == ASSUME TrustInv, Replace PROVE TrustInv'
<1>1. /\ swaps' = swaps + 1 /\ swaps < MaxSwaps /\ UNCHANGED <<config, roots>>
      /\ shake' = [h \in Handshakes |->
                     IF running(h) THEN [shake[h] EXCEPT !.seen = @ \cup {snap'}] ELSE shake[h]]
  BY Zenon DEF Replace
<1>2. snap' \in Snapshots
  <2>1. PICK a \in SUBSET Anchors, c \in {{}} \cup {{e} : e \in Issuers \X Revocable} :
          snap' = [anchors |-> a, crls |-> c]
    BY Zenon DEF Replace
  <2>2. c \subseteq Issuers \X SerialNos
    <3>1. CASE c = {}
      BY Zenon, <3>1
    <3>2. CASE c # {}
      <4>1. PICK e \in Issuers \X Revocable : c = {e}
        BY Zenon, <2>1, <3>2
      <4> QED BY Zenon, <4>1, SwapAssumption
    <3> QED BY Zenon, <3>1, <3>2
  <2> QED BY Zenon, <2>1, <2>2 DEF Snapshots
<1>3. swaps' \in 0..MaxSwaps
  BY <1>1, SwapAssumption DEF TrustInv
<1>4. \A h \in Handshakes : shake'[h] = Idle \/ HandshakeInv(shake[h], config)
  BY Zenon, <1>1, IdleAt DEF TrustInv, running
<1>5. ASSUME NEW h \in Handshakes, shake'[h] # Idle PROVE HandshakeInv(shake[h], config)'
  <2>1. HandshakeInv(shake[h], config) /\ shake[h] \in Shakes
    BY Zenon, <1>4, <1>5 DEF HandshakeInv
  <2>2. CASE running(h)
    <3> DEFINE k == [shake[h] EXCEPT !.seen = @ \cup {snap'}]
    <3>1. /\ k \in Shakes /\ k.at = shake[h].at /\ k.cert = shake[h].cert /\ k.pool = shake[h].pool
          /\ k.seen = shake[h].seen \cup {snap'}
      BY Zenon, <1>2, <2>1 DEF Shakes
    <3>2. shake'[h] = k /\ k.at \in {"chain", "verify"}
      BY Zenon, <1>1, <2>2, <3>1 DEF running
    <3> HIDE DEF k
    <3> QED BY Zenon, <1>1, <2>1, <3>1, <3>2 DEF HandshakeInv, Chained
  <2>3. CASE ~running(h)
    <3>1. shake'[h] = shake[h] /\ shake[h].at \notin {"chain", "verify"}
      BY Zenon, <1>1, <2>3 DEF running
    <3> QED BY Zenon, <1>1, <2>1, <3>1 DEF HandshakeInv, Chained, Unlisted, Trusted, Untrusted
  <2> QED BY Zenon, <2>2, <2>3
<1> QED BY Zenon, <1>1, <1>2, <1>3, <1>5 DEF TrustInv

LEMMA ConfigureKeeps ==
  ASSUME TrustInv, NEW kind \in {"server", "client", "named"}, Configure(kind) PROVE TrustInv'
<1>1. \A h \in Handshakes : shake[h] = Idle
  BY Zenon DEF TrustInv, HandshakeInv, Configure
<1> QED BY Zenon, <1>1 DEF TrustInv, Configure, Snapshots

LEMMA HelloKeeps == ASSUME TrustInv, NEW h \in Handshakes, Hello(h) PROVE TrustInv'
<1>1. PICK cert \in Certs :
        shake' = [shake EXCEPT ![h] =
          [at |-> IF config = "client" THEN "verify" ELSE "chain", cert |-> cert,
           pool |-> IF config = "server" THEN ClientCAs ELSE roots, seen |-> {snap}]]
  BY Zenon DEF Hello
<1> DEFINE k == [at |-> IF config = "client" THEN "verify" ELSE "chain", cert |-> cert,
                 pool |-> IF config = "server" THEN ClientCAs ELSE roots, seen |-> {snap}]
<1>2. k \in Shakes
  BY Zenon DEF TrustInv, Shakes, Snapshots, ClientCAs
<1>3. HandshakeInv(k, config)
  BY Zenon, <1>2 DEF Hello, HandshakeInv, ClientCAs
<1> HIDE DEF k
<1> QED BY Zenon, <1>1, <1>3, OneHandshake DEF Hello, k

(* The step of a handshake that runs, to another stage. *)
LEMMA StageKeeps ==
  ASSUME TrustInv, NEW h \in Handshakes, running(h), NEW at \in {"verify", "accepted", "refused"},
         shake' = [shake EXCEPT ![h].at = at], UNCHANGED <<snap, swaps, config, roots>>,
         config = "server" => /\ at \in {"verify", "accepted"} => Chained(shake[h])
                              /\ at = "accepted" => Unlisted(shake[h]) /\ shake[h].cert.serial \notin Unwelcome
                              /\ at = "refused" => Untrusted(shake[h]),
         config = "client" => /\ at = "accepted" => Trusted(shake[h])
                              /\ at = "refused" => Untrusted(shake[h])
  PROVE  TrustInv'
<1> DEFINE k == [shake[h] EXCEPT !.at = at]
<1>1. HandshakeInv(shake[h], config) /\ shake[h] \in Shakes
  BY Zenon, IdleAt DEF TrustInv, HandshakeInv, running
<1>2. /\ k \in Shakes /\ k.at = at /\ k.cert = shake[h].cert /\ k.pool = shake[h].pool
      /\ k.seen = shake[h].seen
  BY Zenon, <1>1 DEF Shakes
<1>3. shake' = [shake EXCEPT ![h] = k]
  OBVIOUS
<1> HIDE DEF k
<1>4. HandshakeInv(k, config)
  BY Zenon, <1>1, <1>2 DEF HandshakeInv, Chained, Unlisted, Trusted, Untrusted, running
<1> QED BY Zenon, <1>3, <1>4, OneHandshake

LEMMA BuildChainKeeps == ASSUME TrustInv, NEW h \in Handshakes, BuildChain(h) PROVE TrustInv'
<1> DEFINE ok == shake[h].cert.parses /\ chains(shake[h].pool, shake[h].cert)
<1>1. /\ shake[h].at = "chain" /\ running(h) /\ UNCHANGED <<snap, swaps, config, roots>>
      /\ HandshakeInv(shake[h], config)
  BY Zenon, IdleAt DEF BuildChain, running, TrustInv
<1>2. config = "server" => (ok => Chained(shake[h])) /\ (~ok => Untrusted(shake[h]))
  BY Zenon, <1>1 DEF HandshakeInv, Chained, Untrusted
<1>3. config # "client"
  BY Zenon, <1>1 DEF HandshakeInv
<1>4. PICK at \in {"verify", "accepted", "refused"} :
        /\ shake' = [shake EXCEPT ![h].at = at]
        /\ at = "verify" => ok /\ config = "server"
        /\ at = "accepted" => config # "server"
        /\ at = "refused" => ~ok
  BY Zenon DEF BuildChain, settle
<1> HIDE DEF ok
<1> QED BY Zenon, <1>1, <1>2, <1>3, <1>4, StageKeeps

LEMMA CheckPeerKeeps == ASSUME TrustInv, NEW h \in Handshakes, CheckPeer(h) PROVE TrustInv'
<1> DEFINE ok == VerifyPeer(shake[h].cert, config = "server", snap)
<1>1. /\ shake[h].at = "verify" /\ running(h) /\ UNCHANGED <<snap, swaps, config, roots>>
      /\ HandshakeInv(shake[h], config) /\ snap \in shake[h].seen
  BY Zenon, IdleAt DEF CheckPeer, running, TrustInv, HandshakeInv
<1>2. onCRL(shake[h].cert, snap.crls) <=> <<shake[h].cert.issuer, shake[h].cert.serial>> \in snap.crls
  BY Zenon, OnList DEF TrustInv
<1>3. CASE config = "server"
  <2>1. ok <=> <<shake[h].cert.issuer, shake[h].cert.serial>> \notin snap.crls /\ shake[h].cert.serial \notin Unwelcome
    BY Zenon, <1>2, <1>3 DEF VerifyPeer, welcome
  <2>2. Chained(shake[h])
    BY Zenon, <1>1, <1>3 DEF HandshakeInv
  <2>3. ok => Unlisted(shake[h]) /\ shake[h].cert.serial \notin Unwelcome
    BY Zenon, <1>1, <2>1 DEF Unlisted
  <2>4. ~ok => Untrusted(shake[h])
    BY Zenon, <1>1, <2>1 DEF Untrusted
  <2>5. shake' = [shake EXCEPT ![h].at = IF ok THEN "accepted" ELSE "refused"]
    BY Zenon DEF CheckPeer, settle
  <2> HIDE DEF ok
  <2> QED BY Zenon, <1>1, <1>3, <2>2, <2>3, <2>4, <2>5, StageKeeps
<1>4. CASE config # "server"
  <2>1. ok <=> shake[h].cert.parses /\ Verify(shake[h].cert, snap)
    BY Zenon, <1>4 DEF VerifyPeer
  <2>2. ok => Trusted(shake[h])
    BY Zenon, <1>1, <1>2, <2>1 DEF Verify, Trusted
  <2>3. ~ok => Untrusted(shake[h])
    <3>1. snap.anchors = {} => ~chains(snap.anchors, shake[h].cert)
      BY Zenon DEF chains
    <3> QED BY Zenon, <1>1, <1>2, <2>1, <3>1 DEF Verify, Untrusted, welcome
  <2>4. shake' = [shake EXCEPT ![h].at = IF ok THEN "accepted" ELSE "refused"]
    BY ZenonT(30) DEF CheckPeer, settle
  <2> HIDE DEF ok
  <2> QED BY Zenon, <1>1, <1>4, <2>2, <2>3, <2>4, StageKeeps
<1> QED BY Zenon, <1>3, <1>4

LEMMA TrustStepKeeps == TrustInv /\ [TrustNext]_trustVars => TrustInv'
<1>1. ASSUME TrustInv, UNCHANGED trustVars PROVE TrustInv'
  BY ZenonT(30), <1>1 DEF TrustInv, HandshakeInv, Chained, Unlisted, Trusted, Untrusted, trustVars
<1> QED BY Zenon, <1>1, ReplaceKeeps, ConfigureKeeps, HelloKeeps, BuildChainKeeps, CheckPeerKeeps
           DEF TrustNext, ServerConfig, ClientConfig

(***************************************************************************)
(* trust.Store under mtls, for any anchors and any handshakes: however     *)
(* Replace falls between a handshake's reading of the pool and of the      *)
(* revocation lists, whoever is accepted was anchored and not revoked in   *)
(* snapshots in force meanwhile, and a peer that all of them trust is      *)
(* accepted.                                                               *)
(***************************************************************************)
THEOREM TrustKept == TrustSpec => []TrustContract
  BY InitTrust, TrustStepKeeps, TrustInvGives, PTL DEF TrustSpec

-----------------------------------------------------------------------------
(***************************************************************************)
(* RetryTransport                                                          *)
(***************************************************************************)

(* How many attempts RoundTrip makes at most. *)
cap(r) == IF retryable[r] THEN policyAttempts ELSE 1

(* The breaker under the requests: it is well-formed, and runs exactly the *)
(* requests that are on the wire.                                          *)
BreakerInv ==
  /\ Breaker!TypeOK
  /\ upstream = "flaky"
  /\ \A r \in Calls : phase[r] = "wire" <=> pc[r] = "running"

(* Every round trip belongs to an attempt of its own, and a wait comes     *)
(* only before an attempt that is still allowed.                           *)
AttemptInv(r) ==
  /\ retryable[r] <=> req[r].method /\ req[r].body # "broken"
  /\ attempt[r] <= cap(r)
  /\ phase[r] = "backoff" => attempt[r] < cap(r)
  /\ phase[r] \in {"loop", "call"} => sends[r] < attempt[r]
  /\ phase[r] \in {"wire", "backoff"} => sends[r] <= attempt[r]
  /\ sends[r] <= cap(r)

(* A spent body meets an attempt only where it can be rewound, or where it *)
(* could not be read in the first place.                                   *)
BodyInv(r) ==
  /\ getBody[r] <=> req[r].body = "getBody" \/ (req[r].method /\ req[r].body = "stream")
  /\ req[r].body = "none" => body[r] = "none"
  /\ phase[r] = "loop" /\ body[r] = "spent" => getBody[r] \/ req[r].body = "broken"
  /\ phase[r] = "call" /\ body[r] = "spent" => req[r].body = "broken"
  /\ short[r] => req[r].body = "broken"

(* A response is open exactly when it was returned. *)
ResponseInv(r) ==
  /\ phase[r] # "done" => result[r] = "none"
  /\ open[r] = IF result[r] = "resp" THEN 1 ELSE 0

(* A round trip after cancellation was past the check of the context. *)
CancelInv(r) ==
  /\ phase[r] = "call" \/ (phase[r] # "done" /\ ~ctxDone[r]) => lateSends[r] = 0
  /\ lateSends[r] <= 1

RequestInv(r) == AttemptInv(r) /\ BodyInv(r) /\ ResponseInv(r) /\ CancelInv(r)

LocalTypeOK ==
  /\ phase \in [Calls -> {"done", "loop", "call", "wire", "backoff"}]
  /\ req \in [Calls -> [method : BOOLEAN, body : BodyKind]]
  /\ retryable \in [Calls -> BOOLEAN]
  /\ attempt \in [Calls -> Nat \ {0}]
  /\ body \in [Calls -> {"none", "full", "spent"}]
  /\ getBody \in [Calls -> BOOLEAN]
  /\ ctxDone \in [Calls -> BOOLEAN]
  /\ open \in [Calls -> Nat]
  /\ result \in [Calls -> {"none", "resp", "err", "ErrOpen", "ctxErr"}]
  /\ sends \in [Calls -> Nat]
  /\ lateSends \in [Calls -> Nat]
  /\ short \in [Calls -> BOOLEAN]

(***************************************************************************)
(* The inductive invariant.                                                *)
(***************************************************************************)
IInv == BreakerInv /\ LocalTypeOK /\ \A r \in Calls : RequestInv(r)

LEMMA PolicyAttempts == policyAttempts \in Nat \ {0}
BY TransportAssumption DEF policyAttempts

LEMMA StrictlyBelow == ASSUME NEW a \in Nat, NEW b \in Nat, a <= b, a # b PROVE a < b
OBVIOUS

LEMMA Below == ASSUME NEW a \in Nat, NEW b \in Nat, a < b PROVE a <= b
OBVIOUS

LEMMA InitIInv == Init => IInv
<1> SUFFICES ASSUME Init PROVE IInv
  OBVIOUS
<1>1. BreakerInv
  <2>1. probeInFlight \in BOOLEAN
    BY Zenon DEF Init, Breaker!Init, Breaker!NewCircuitBreaker
  <2> QED
    BY <2>1, TransportAssumption DEF Init, BreakerInv, Breaker!Init, Breaker!NewCircuitBreaker,
       Breaker!TypeOK, Breaker!State
<1>2. LocalTypeOK
  BY DEF Init, LocalTypeOK, BodyKind
<1>3. ASSUME NEW r \in Calls PROVE RequestInv(r)
  BY <1>2, PolicyAttempts DEF Init, RequestInv, AttemptInv, BodyInv, ResponseInv, CancelInv, cap
<1> QED BY Zenon, <1>1, <1>2, <1>3 DEF IInv

-----------------------------------------------------------------------------
(* What the three breaker steps a request takes do to the breaker.         *)

LEMMA BreakerReject ==
  ASSUME NEW r \in Calls, Breaker!TypeOK, Breaker!Reject(r)
  PROVE  Breaker!TypeOK' /\ pc[r] = "idle" /\ UNCHANGED <<pc, upstream>>
BY Zenon DEF Breaker!TypeOK, Breaker!State, Breaker!Reject, Breaker!refresh, Breaker!RefreshedState,
       Breaker!RefreshedProbe, Breaker!CooldownElapsed

LEMMA BreakerAdmit ==
  ASSUME NEW r \in Calls, Breaker!TypeOK, Breaker!Admit(r)
  PROVE  Breaker!TypeOK' /\ pc' = [pc EXCEPT ![r] = "running"] /\ UNCHANGED upstream
BY Zenon DEF Breaker!TypeOK, Breaker!State, Breaker!Admit, Breaker!RefreshedState,
       Breaker!RefreshedProbe, Breaker!CooldownElapsed

LEMMA BreakerFinish ==
  ASSUME NEW r \in Calls, NEW o \in {"nil", "err"}, Breaker!TypeOK, Breaker!FinishWith(r, o)
  PROVE  Breaker!TypeOK' /\ pc' = [pc EXCEPT ![r] = "idle"] /\ UNCHANGED upstream
<1> USE TransportAssumption DEF Breaker!TypeOK, Breaker!State
<1>1. /\ pc' = [pc EXCEPT ![r] = "idle"]
      /\ pc' \in [Calls -> {"idle", "running"}]
      /\ admittedIn' \in [Calls -> Breaker!State]
      /\ UNCHANGED upstream
  BY Zenon DEF Breaker!FinishWith, Breaker!leave
<1>2. streak' \in 0..FailureThreshold
  BY DEF Breaker!FinishWith, Breaker!Saturate
<1>3. Breaker!afterCall(o)
  BY Zenon DEF Breaker!FinishWith
<1>4. probeInFlight' \in BOOLEAN
  BY Zenon, <1>3 DEF Breaker!afterCall
<1>5. state' \in Breaker!State /\ failures' \in 0..FailureThreshold /\ sinceOpen' \in 0..Cooldown
  BY <1>3 DEF Breaker!afterCall, Breaker!IsFailure, Breaker!trip, Breaker!reset, Breaker!Saturate,
     Breaker!ThresholdReached
<1> QED BY Zenon, <1>1, <1>2, <1>4, <1>5

(* A step of one request leaves the others as they are. *)
SameFor(q) ==
  /\ phase'[q] = phase[q] /\ req'[q] = req[q] /\ retryable'[q] = retryable[q]
  /\ attempt'[q] = attempt[q] /\ body'[q] = body[q] /\ getBody'[q] = getBody[q]
  /\ ctxDone'[q] = ctxDone[q] /\ open'[q] = open[q] /\ result'[q] = result[q]
  /\ sends'[q] = sends[q] /\ lateSends'[q] = lateSends[q] /\ short'[q] = short[q]

LEMMA OneRequest ==
  ASSUME IInv, NEW r \in Calls, BreakerInv', LocalTypeOK', RequestInv(r)',
         \A q \in Calls \ {r} : SameFor(q)
  PROVE  IInv'
<1>1. ASSUME NEW q \in Calls \ {r} PROVE RequestInv(q)'
  <2>1. SameFor(q) /\ RequestInv(q)
    BY Zenon DEF IInv
  <2> QED
    BY <2>1 DEF SameFor, RequestInv, AttemptInv, BodyInv, ResponseInv, CancelInv, cap
<1> QED BY Zenon, <1>1 DEF IInv

LEMMA NextIInv == IInv /\ [Next]_vars => IInv'
<1> SUFFICES ASSUME IInv, [Next]_vars PROVE IInv'
  OBVIOUS
<1> USE TransportAssumption, PolicyAttempts
<1>1. ASSUME NEW r \in Calls, Start(r) PROVE IInv'
  <2> USE <1>1 DEF Start, needsBuffer, StaysRetryable, breaker, BodyKind
  <2>1. LocalTypeOK' /\ \A q \in Calls \ {r} : SameFor(q)
    BY DEF IInv, LocalTypeOK, SameFor
  <2>2. BreakerInv'
    BY <2>1 DEF IInv, BreakerInv, Breaker!TypeOK, LocalTypeOK, SameFor
  <2>3. RequestInv(r)'
    <3> PICK m \in BOOLEAN, kind \in Bodies :
          /\ req' = [req EXCEPT ![r] = [method |-> m, body |-> kind]]
          /\ retryable' = [retryable EXCEPT ![r] = StaysRetryable(m, kind)]
          /\ getBody' = [getBody EXCEPT ![r] =
               kind = "getBody" \/ (needsBuffer(m, kind) /\ kind = "stream")]
          /\ body' = [body EXCEPT ![r] =
               CASE kind = "none" -> "none"
                 [] needsBuffer(m, kind) /\ kind = "broken" -> "spent"
                 [] OTHER -> "full"]
      BY Zenon
    <3>a. /\ req'[r].method = m /\ req'[r].body = kind
          /\ retryable'[r] <=> m /\ kind # "broken"
          /\ getBody'[r] <=> kind = "getBody" \/ (m /\ kind = "stream")
          /\ kind = "none" => body'[r] = "none"
          /\ body'[r] = "spent" => kind = "broken"
      BY ZenonT(30) DEF IInv, LocalTypeOK
    <3>b. attempt'[r] = 1 /\ sends'[r] = 0 /\ phase'[r] = "loop" /\ ~short'[r]
      BY DEF IInv, LocalTypeOK
    <3>1. AttemptInv(r)'
      BY <3>a, <3>b DEF AttemptInv, cap
    <3>2. BodyInv(r)'
      BY Zenon, <3>a, <3>b DEF BodyInv
    <3>3. ResponseInv(r)'
      BY DEF IInv, LocalTypeOK, RequestInv, ResponseInv
    <3>4. CancelInv(r)'
      BY DEF IInv, LocalTypeOK, RequestInv, CancelInv
    <3> QED BY Zenon, <3>1, <3>2, <3>3, <3>4 DEF RequestInv
  <2> QED BY Zenon, <2>1, <2>2, <2>3, OneRequest
<1>2. ASSUME NEW r \in Calls, LoopCancelled(r) PROVE IInv'
  <2> USE <1>2 DEF LoopCancelled, return, breaker, local, history
  <2>1. LocalTypeOK' /\ \A q \in Calls \ {r} : SameFor(q)
    BY DEF IInv, LocalTypeOK, SameFor
  <2>2. BreakerInv'
    BY <2>1 DEF IInv, BreakerInv, Breaker!TypeOK, LocalTypeOK, SameFor
  <2>3. RequestInv(r)'
    <3>1. AttemptInv(r)'
      BY DEF IInv, LocalTypeOK, RequestInv, AttemptInv, cap
    <3>2. BodyInv(r)'
      BY Zenon DEF IInv, LocalTypeOK, RequestInv, AttemptInv, BodyInv, cap
    <3>3. ResponseInv(r)'
      BY Zenon DEF IInv, LocalTypeOK, RequestInv, ResponseInv
    <3>4. CancelInv(r)'
      BY Zenon DEF IInv, LocalTypeOK, RequestInv, CancelInv
    <3> QED BY Zenon, <3>1, <3>2, <3>3, <3>4 DEF RequestInv
  <2> QED BY Zenon, <2>1, <2>2, <2>3, OneRequest
<1>3. ASSUME NEW r \in Calls, ResetBodyFails(r) PROVE IInv'
  <2> USE <1>3 DEF ResetBodyFails, return, breaker, local, history
  <2>1. LocalTypeOK' /\ \A q \in Calls \ {r} : SameFor(q)
    BY DEF IInv, LocalTypeOK, SameFor
  <2>2. BreakerInv'
    BY <2>1 DEF IInv, BreakerInv, Breaker!TypeOK, LocalTypeOK, SameFor
  <2>3. RequestInv(r)'
    <3>1. AttemptInv(r)'
      BY DEF IInv, LocalTypeOK, RequestInv, AttemptInv, cap
    <3>2. BodyInv(r)'
      BY Zenon DEF IInv, LocalTypeOK, RequestInv, AttemptInv, BodyInv, cap
    <3>3. ResponseInv(r)'
      BY DEF IInv, LocalTypeOK, RequestInv, ResponseInv
    <3>4. CancelInv(r)'
      BY Zenon DEF IInv, LocalTypeOK, RequestInv, CancelInv
    <3> QED BY Zenon, <3>1, <3>2, <3>3, <3>4 DEF RequestInv
  <2> QED BY Zenon, <2>1, <2>2, <2>3, OneRequest
<1>4. ASSUME NEW r \in Calls, LoopHead(r) PROVE IInv'
  <2> USE <1>4 DEF LoopHead, breaker, local, history
  <2>1. LocalTypeOK' /\ \A q \in Calls \ {r} : SameFor(q)
    BY Zenon DEF IInv, LocalTypeOK, SameFor
  <2>2. BreakerInv'
    BY <2>1 DEF IInv, BreakerInv, Breaker!TypeOK, LocalTypeOK, SameFor
  <2>3. RequestInv(r)'
    <3>1. AttemptInv(r)'
      BY Zenon DEF IInv, LocalTypeOK, RequestInv, AttemptInv, cap
    <3>2. BodyInv(r)'
      BY Zenon DEF IInv, LocalTypeOK, RequestInv, AttemptInv, BodyInv, cap
    <3>3. ResponseInv(r)'
      BY Zenon DEF IInv, LocalTypeOK, RequestInv, ResponseInv
    <3>4. CancelInv(r)'
      BY Zenon DEF IInv, LocalTypeOK, RequestInv, CancelInv
    <3> QED BY Zenon, <3>1, <3>2, <3>3, <3>4 DEF RequestInv
  <2> QED BY Zenon, <2>1, <2>2, <2>3, OneRequest
<1>5. ASSUME NEW r \in Calls, Refused(r) PROVE IInv'
  <2> USE <1>5 DEF Refused, local, history
  <2>1. Breaker!TypeOK' /\ pc[r] = "idle" /\ UNCHANGED <<pc, upstream>>
    BY Zenon, BreakerReject DEF IInv, BreakerInv
  <2>2. CASE LastAttempt(r) /\ return(r, "ErrOpen")
    <3> USE <2>2 DEF return, LastAttempt
    <3>1. LocalTypeOK' /\ \A q \in Calls \ {r} : SameFor(q)
      BY DEF IInv, LocalTypeOK, SameFor
    <3>2. BreakerInv'
      BY <2>1, <3>1 DEF IInv, BreakerInv, Breaker!TypeOK, LocalTypeOK, SameFor
    <3>3. AttemptInv(r)'
      BY DEF IInv, LocalTypeOK, RequestInv, AttemptInv, cap
    <3>4. BodyInv(r)' /\ ResponseInv(r)' /\ CancelInv(r)'
      BY SMTT(30) DEF IInv, LocalTypeOK, RequestInv, BodyInv, ResponseInv, CancelInv
    <3> QED BY Zenon, <3>1, <3>2, <3>3, <3>4, OneRequest DEF RequestInv
  <2>3. CASE ~LastAttempt(r) /\ backOff(r)
    <3> USE <2>3 DEF backOff, LastAttempt
    <3>1. LocalTypeOK' /\ \A q \in Calls \ {r} : SameFor(q)
      BY Zenon DEF IInv, LocalTypeOK, SameFor
    <3>2. BreakerInv'
      BY SMTT(30), <2>1, <3>1 DEF IInv, BreakerInv, Breaker!TypeOK, LocalTypeOK, SameFor
    <3>3. AttemptInv(r)'
      <4>1. attempt[r] \in Nat /\ sends[r] \in Nat /\ cap(r) \in Nat /\ attempt[r] <= cap(r)
        BY Zenon, PolicyAttempts DEF IInv, LocalTypeOK, RequestInv, AttemptInv, cap
      <4>2. attempt[r] # cap(r)
        BY Zenon DEF cap
      <4>3. attempt[r] < cap(r) /\ sends[r] <= attempt[r]
        <5>1. sends[r] < attempt[r]
          BY Zenon DEF IInv, RequestInv, AttemptInv
        <5> QED BY Zenon, <4>1, <4>2, <5>1, StrictlyBelow, Below
      <4>4. phase'[r] = "backoff" /\ cap(r)' = cap(r)
        BY Zenon DEF IInv, LocalTypeOK, cap
      <4> QED
        BY Zenon, <4>1, <4>3, <4>4 DEF IInv, RequestInv, AttemptInv
    <3>4. BodyInv(r)' /\ ResponseInv(r)' /\ CancelInv(r)'
      BY Zenon DEF IInv, LocalTypeOK, RequestInv, BodyInv, ResponseInv, CancelInv
    <3> QED BY Zenon, <3>1, <3>2, <3>3, <3>4, OneRequest DEF RequestInv
  <2> QED BY Zenon, <2>2, <2>3 DEF failed
<1>6. ASSUME NEW r \in Calls, Send(r) PROVE IInv'
  <2> USE <1>6 DEF Send, local
  <2>1. LocalTypeOK' /\ \A q \in Calls \ {r} : SameFor(q)
    BY DEF IInv, LocalTypeOK, SameFor
  <2>2. BreakerInv'
    <3>1. Breaker!TypeOK' /\ pc' = [pc EXCEPT ![r] = "running"] /\ UNCHANGED upstream
      BY Zenon, BreakerAdmit DEF IInv, BreakerInv
    <3> QED BY <2>1, <3>1 DEF IInv, BreakerInv, Breaker!TypeOK, LocalTypeOK, SameFor
  <2>3. RequestInv(r)'
    <3>1. AttemptInv(r)'
      BY DEF IInv, LocalTypeOK, RequestInv, AttemptInv, cap
    <3>2. BodyInv(r)'
      BY Zenon DEF IInv, LocalTypeOK, RequestInv, AttemptInv, BodyInv, cap
    <3>3. ResponseInv(r)'
      BY Zenon DEF IInv, LocalTypeOK, RequestInv, ResponseInv
    <3>4. CancelInv(r)'
      BY DEF IInv, LocalTypeOK, RequestInv, CancelInv
    <3> QED BY Zenon, <3>1, <3>2, <3>3, <3>4 DEF RequestInv
  <2> QED BY Zenon, <2>1, <2>2, <2>3, OneRequest
<1>7. ASSUME NEW r \in Calls, Answered(r) PROVE IInv'
  <2> USE <1>7 DEF Answered, return, local, history
  <2>1. LocalTypeOK' /\ \A q \in Calls \ {r} : SameFor(q)
    BY DEF IInv, LocalTypeOK, SameFor
  <2>2. BreakerInv'
    <3>1. Breaker!TypeOK' /\ pc' = [pc EXCEPT ![r] = "idle"] /\ UNCHANGED upstream
      BY Zenon, BreakerFinish DEF IInv, BreakerInv
    <3> QED BY <2>1, <3>1 DEF IInv, BreakerInv, Breaker!TypeOK, LocalTypeOK, SameFor
  <2>3. RequestInv(r)'
    <3>1. AttemptInv(r)'
      BY DEF IInv, LocalTypeOK, RequestInv, AttemptInv, cap
    <3>2. BodyInv(r)'
      BY ZenonT(30) DEF IInv, LocalTypeOK, RequestInv, AttemptInv, BodyInv, cap
    <3>3. ResponseInv(r)'
      BY SMTT(30) DEF IInv, LocalTypeOK, RequestInv, ResponseInv
    <3>4. CancelInv(r)'
      BY Zenon DEF IInv, LocalTypeOK, RequestInv, CancelInv
    <3> QED BY Zenon, <3>1, <3>2, <3>3, <3>4 DEF RequestInv
  <2> QED BY Zenon, <2>1, <2>2, <2>3, OneRequest
<1>8. ASSUME NEW r \in Calls, RetryableStatus(r) PROVE IInv'
  <2> USE <1>8 DEF RetryableStatus, local, history
  <2>1. Breaker!TypeOK' /\ pc' = [pc EXCEPT ![r] = "idle"] /\ UNCHANGED upstream
    BY Zenon, BreakerFinish DEF IInv, BreakerInv
  <2>2. CASE LastAttempt(r) /\ open' = [open EXCEPT ![r] = @ + 1] /\ return(r, "resp")
    <3> USE <2>2 DEF return, LastAttempt, drain
    <3>1. LocalTypeOK' /\ \A q \in Calls \ {r} : SameFor(q)
      BY SMTT(30) DEF IInv, LocalTypeOK, SameFor
    <3>2. BreakerInv'
      BY SMTT(30), <2>1, <3>1 DEF IInv, BreakerInv, Breaker!TypeOK, LocalTypeOK, SameFor
    <3>3. AttemptInv(r)'
      BY SMTT(30) DEF IInv, LocalTypeOK, RequestInv, AttemptInv, cap
    <3>4. BodyInv(r)' /\ ResponseInv(r)' /\ CancelInv(r)'
      BY SMTT(30) DEF IInv, LocalTypeOK, RequestInv, BodyInv, ResponseInv, CancelInv
    <3> QED BY Zenon, <3>1, <3>2, <3>3, <3>4, OneRequest DEF RequestInv
  <2>3. CASE ~LastAttempt(r) /\ open' = [open EXCEPT ![r] = drain(@ + 1)] /\ backOff(r)
    <3> USE <2>3 DEF backOff, LastAttempt, drain
    <3>1. LocalTypeOK' /\ \A q \in Calls \ {r} : SameFor(q)
      BY SMTT(30) DEF IInv, LocalTypeOK, SameFor
    <3>2. BreakerInv'
      BY SMTT(30), <2>1, <3>1 DEF IInv, BreakerInv, Breaker!TypeOK, LocalTypeOK, SameFor
    <3>3. AttemptInv(r)'
      <4>1. attempt[r] \in Nat /\ sends[r] \in Nat /\ cap(r) \in Nat /\ attempt[r] <= cap(r)
        BY Zenon, PolicyAttempts DEF IInv, LocalTypeOK, RequestInv, AttemptInv, cap
      <4>2. attempt[r] # cap(r)
        BY Zenon DEF cap
      <4>3. attempt[r] < cap(r) /\ sends[r] <= attempt[r]
        BY Zenon, <4>1, <4>2, StrictlyBelow DEF IInv, RequestInv, AttemptInv
      <4>4. phase'[r] = "backoff" /\ cap(r)' = cap(r)
        BY Zenon DEF IInv, LocalTypeOK, cap
      <4> QED
        BY Zenon, <4>1, <4>3, <4>4 DEF IInv, RequestInv, AttemptInv
    <3>4. BodyInv(r)' /\ ResponseInv(r)' /\ CancelInv(r)'
      BY DEF IInv, LocalTypeOK, RequestInv, BodyInv, ResponseInv, CancelInv
    <3> QED BY Zenon, <3>1, <3>2, <3>3, <3>4, OneRequest DEF RequestInv
  <2> QED BY Zenon, <2>2, <2>3
<1>9. ASSUME NEW r \in Calls, TransportError(r) PROVE IInv'
  <2> USE <1>9 DEF TransportError, local, history
  <2>1. Breaker!TypeOK' /\ pc' = [pc EXCEPT ![r] = "idle"] /\ UNCHANGED upstream
    BY Zenon, BreakerFinish DEF IInv, BreakerInv
  <2>2. CASE LastAttempt(r) /\ return(r, "err")
    <3> USE <2>2 DEF return, LastAttempt
    <3>1. LocalTypeOK' /\ \A q \in Calls \ {r} : SameFor(q)
      BY SMTT(30) DEF IInv, LocalTypeOK, SameFor
    <3>2. BreakerInv'
      BY SMTT(30), <2>1, <3>1 DEF IInv, BreakerInv, Breaker!TypeOK, LocalTypeOK, SameFor
    <3>3. AttemptInv(r)'
      BY SMTT(30) DEF IInv, LocalTypeOK, RequestInv, AttemptInv, cap
    <3>4. BodyInv(r)' /\ ResponseInv(r)' /\ CancelInv(r)'
      BY SMTT(30) DEF IInv, LocalTypeOK, RequestInv, BodyInv, ResponseInv, CancelInv
    <3> QED BY Zenon, <3>1, <3>2, <3>3, <3>4, OneRequest DEF RequestInv
  <2>3. CASE ~LastAttempt(r) /\ backOff(r)
    <3> USE <2>3 DEF backOff, LastAttempt
    <3>1. LocalTypeOK' /\ \A q \in Calls \ {r} : SameFor(q)
      BY Zenon DEF IInv, LocalTypeOK, SameFor
    <3>2. BreakerInv'
      BY SMTT(30), <2>1, <3>1 DEF IInv, BreakerInv, Breaker!TypeOK, LocalTypeOK, SameFor
    <3>3. AttemptInv(r)'
      <4>1. attempt[r] \in Nat /\ sends[r] \in Nat /\ cap(r) \in Nat /\ attempt[r] <= cap(r)
        BY Zenon, PolicyAttempts DEF IInv, LocalTypeOK, RequestInv, AttemptInv, cap
      <4>2. attempt[r] # cap(r)
        BY Zenon DEF cap
      <4>3. attempt[r] < cap(r) /\ sends[r] <= attempt[r]
        BY Zenon, <4>1, <4>2, StrictlyBelow DEF IInv, RequestInv, AttemptInv
      <4>4. phase'[r] = "backoff" /\ cap(r)' = cap(r)
        BY Zenon DEF IInv, LocalTypeOK, cap
      <4> QED
        BY Zenon, <4>1, <4>3, <4>4 DEF IInv, RequestInv, AttemptInv
    <3>4. BodyInv(r)' /\ ResponseInv(r)' /\ CancelInv(r)'
      BY Zenon DEF IInv, LocalTypeOK, RequestInv, BodyInv, ResponseInv, CancelInv
    <3> QED BY Zenon, <3>1, <3>2, <3>3, <3>4, OneRequest DEF RequestInv
  <2> QED BY Zenon, <2>2, <2>3 DEF failed
<1>10. ASSUME NEW r \in Calls, Wake(r) PROVE IInv'
  <2> USE <1>10 DEF Wake, breaker, local, history
  <2>1. LocalTypeOK' /\ \A q \in Calls \ {r} : SameFor(q)
    BY SMTT(30) DEF IInv, LocalTypeOK, SameFor
  <2>2. BreakerInv'
    BY <2>1 DEF IInv, BreakerInv, Breaker!TypeOK, LocalTypeOK, SameFor
  <2>3. RequestInv(r)'
    <3>1. AttemptInv(r)'
      BY SMTT(30) DEF IInv, LocalTypeOK, RequestInv, AttemptInv, cap
    <3>2. BodyInv(r)'
      <4>1. req[r].body \in BodyKind /\ retryable[r]
        BY DEF IInv, LocalTypeOK, RequestInv, AttemptInv, cap
      <4> QED
        BY Zenon, <4>1 DEF IInv, LocalTypeOK, RequestInv, AttemptInv, BodyInv, BodyKind
    <3>3. ResponseInv(r)'
      BY Zenon DEF IInv, LocalTypeOK, RequestInv, ResponseInv
    <3>4. CancelInv(r)'
      BY Zenon DEF IInv, LocalTypeOK, RequestInv, CancelInv
    <3> QED BY Zenon, <3>1, <3>2, <3>3, <3>4 DEF RequestInv
  <2> QED BY Zenon, <2>1, <2>2, <2>3, OneRequest
<1>11. ASSUME NEW r \in Calls, SleepCancelled(r) PROVE IInv'
  <2> USE <1>11 DEF SleepCancelled, return, breaker, local, history
  <2>1. LocalTypeOK' /\ \A q \in Calls \ {r} : SameFor(q)
    BY SMTT(30) DEF IInv, LocalTypeOK, SameFor
  <2>2. BreakerInv'
    BY <2>1 DEF IInv, BreakerInv, Breaker!TypeOK, LocalTypeOK, SameFor
  <2>3. RequestInv(r)'
    <3>1. AttemptInv(r)'
      BY SMTT(30) DEF IInv, LocalTypeOK, RequestInv, AttemptInv, cap
    <3>2. BodyInv(r)'
      BY ZenonT(30) DEF IInv, LocalTypeOK, RequestInv, AttemptInv, BodyInv, cap
    <3>3. ResponseInv(r)'
      BY Zenon DEF IInv, LocalTypeOK, RequestInv, ResponseInv
    <3>4. CancelInv(r)'
      BY Zenon DEF IInv, LocalTypeOK, RequestInv, CancelInv
    <3> QED BY Zenon, <3>1, <3>2, <3>3, <3>4 DEF RequestInv
  <2> QED BY Zenon, <2>1, <2>2, <2>3, OneRequest
<1>12. ASSUME NEW r \in Calls, Cancel(r) PROVE IInv'
  <2> USE <1>12 DEF Cancel, breaker, local, history
  <2>1. LocalTypeOK' /\ \A q \in Calls \ {r} : SameFor(q)
    BY Zenon DEF IInv, LocalTypeOK, SameFor
  <2>2. BreakerInv'
    BY Zenon, <2>1 DEF IInv, BreakerInv, Breaker!TypeOK, LocalTypeOK, SameFor
  <2>3. RequestInv(r)'
    <3>1. AttemptInv(r)'
      BY Zenon DEF IInv, LocalTypeOK, RequestInv, AttemptInv, cap
    <3>2. BodyInv(r)'
      BY Zenon DEF IInv, LocalTypeOK, RequestInv, AttemptInv, BodyInv, cap
    <3>3. ResponseInv(r)'
      BY Zenon DEF IInv, LocalTypeOK, RequestInv, ResponseInv
    <3>4. CancelInv(r)'
      BY Zenon DEF IInv, LocalTypeOK, RequestInv, CancelInv
    <3> QED BY Zenon, <3>1, <3>2, <3>3, <3>4 DEF RequestInv
  <2> QED BY Zenon, <2>1, <2>2, <2>3, OneRequest
<1>13. CASE Tick \/ UNCHANGED vars
  <2>1. UNCHANGED <<phase, req, retryable, attempt, body, getBody, ctxDone, open, result, sends, lateSends, short, pc, upstream>>
    BY Zenon, <1>13 DEF Tick, vars, breaker, local, history, Breaker!Tick
  <2>2. BreakerInv'
    BY <1>13, <2>1 DEF IInv, BreakerInv, Breaker!TypeOK, Breaker!State, Tick, vars, breaker, Breaker!Tick
  <2> QED
    BY <2>1, <2>2 DEF IInv, LocalTypeOK, RequestInv, AttemptInv, BodyInv, ResponseInv, CancelInv, cap
<1> QED
  BY Zenon, <1>1, <1>2, <1>3, <1>4, <1>5, <1>6, <1>7, <1>8, <1>9, <1>10, <1>11, <1>12, <1>13 DEF Next, Step

LEMMA TransportIInv == Spec => []IInv
BY InitIInv, NextIInv, PTL DEF Spec

(***************************************************************************)
(* RoundTrip keeps its contract for every request, whatever the others do  *)
(* to the shared breaker: it is sent as often as its method and policy     *)
(* allow, with its whole body each time, at most once after cancellation,  *)
(* and only a returned response stays open.                                *)
(***************************************************************************)
THEOREM RoundTripKept == Spec => []RoundTripContract
<1>1. IInv => RoundTripContract
  <2> SUFFICES ASSUME IInv PROVE RoundTripContract
    OBVIOUS
  <2> USE PolicyAttempts
  <2>1. ASSUME NEW r \in Calls
        PROVE  /\ attempt[r] \in 1..policyAttempts
               /\ open[r] \in 0..policyAttempts
               /\ sends[r] \in 0..policyAttempts
               /\ lateSends[r] \in 0..policyAttempts
    <3>1. cap(r) \in 1..policyAttempts
      BY DEF cap
    <3>2. attempt[r] \in Nat \ {0} /\ sends[r] \in Nat /\ lateSends[r] \in Nat
      BY Zenon DEF IInv, LocalTypeOK
    <3>3. attempt[r] <= cap(r) /\ sends[r] <= cap(r) /\ lateSends[r] <= 1
      BY Zenon DEF IInv, RequestInv, AttemptInv, CancelInv
    <3>4. open[r] = 0 \/ open[r] = 1
      BY Zenon DEF IInv, RequestInv, ResponseInv
    <3> QED BY <3>1, <3>2, <3>3, <3>4
  <2>2. TypeOK
    BY Zenon, <2>1 DEF IInv, BreakerInv, LocalTypeOK, TypeOK
  <2>3. SendsBounded
    BY Zenon DEF IInv, RequestInv, AttemptInv, cap, SendsBounded
  <2>4. BodyReplayed /\ NoResponseLeak /\ CancelStopsRetries
    BY Zenon DEF IInv, RequestInv, BodyInv, ResponseInv, CancelInv,
           BodyReplayed, NoResponseLeak, CancelStopsRetries
  <2> QED BY Zenon, <2>2, <2>3, <2>4 DEF RoundTripContract
<1> QED BY <1>1, TransportIInv, PTL

(***************************************************************************)
(* The transport uses its breaker as Execute allows: every step of the     *)
(* round trips is a step of the circuit breaker or does not touch it, so   *)
(* what is proved of the breaker holds under the transport.                *)
(***************************************************************************)
THEOREM UsesBreaker == Spec => Breaker!Spec
<1>1. Init => Breaker!Init
  BY Zenon DEF Init
<1>2. IInv /\ [Next]_vars => [Breaker!Next]_(Breaker!vars)
  <2> SUFFICES ASSUME IInv, [Next]_vars
               PROVE  Breaker!Next \/ UNCHANGED Breaker!vars
    OBVIOUS
  <2>1. CASE UNCHANGED breaker
    BY Zenon, <2>1 DEF breaker, Breaker!vars, Breaker!breakerVars
  <2>2. CASE Tick
    BY Zenon, <2>2 DEF Tick, Breaker!Next
  <2>3. ASSUME NEW r \in Calls, Breaker!Reject(r) \/ Breaker!Admit(r) PROVE Breaker!Next
    BY Zenon, <2>3 DEF Breaker!Next
  <2>4. ASSUME NEW r \in Calls, NEW o \in {"nil", "err"}, Breaker!FinishWith(r, o)
        PROVE  Breaker!Next
    <3>1. Breaker!Finish(r)
      BY Zenon, <2>4 DEF IInv, BreakerInv, Breaker!Finish, Breaker!Outcome
    <3> QED BY Zenon, <3>1 DEF Breaker!Next
  <2>5. ASSUME NEW r \in Calls, Refused(r) \/ Send(r) PROVE Breaker!Next
    BY Zenon, <2>3, <2>5 DEF Refused, Send
  <2>6. ASSUME NEW r \in Calls, Answered(r) \/ RetryableStatus(r) \/ TransportError(r)
        PROVE  Breaker!Next
    BY Zenon, <2>4, <2>6 DEF Answered, RetryableStatus, TransportError
  <2>7. ASSUME NEW r \in Calls,
               \/ Start(r) \/ LoopCancelled(r) \/ ResetBodyFails(r) \/ LoopHead(r)
               \/ Wake(r) \/ SleepCancelled(r) \/ Cancel(r)
        PROVE  UNCHANGED breaker
    BY Zenon, <2>7 DEF Start, LoopCancelled, ResetBodyFails, LoopHead, Wake, SleepCancelled, Cancel
  <2>8. CASE UNCHANGED vars
    BY Zenon, <2>1, <2>8 DEF vars
  <2> QED
    BY Zenon, <2>1, <2>2, <2>5, <2>6, <2>7, <2>8 DEF Next, Step
<1> QED BY <1>1, <1>2, TransportIInv, PTL DEF Spec, Breaker!Spec
=============================================================================
