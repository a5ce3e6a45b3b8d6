---------------------------- MODULE HealthProbes ----------------------------
(***************************************************************************)
(* health.Handler: Health and Ready ask the registered checkers one after  *)
(* the other, in the order of a map, while dependencies go down and come   *)
(* back and the probe's own deadline may pass.  Checkers that only look    *)
(* at a connection (RabbitMQ) do not notice the deadline.                  *)
(***************************************************************************)
EXTENDS Naturals, FiniteSets

CONSTANTS
  Pinged,      \* dependencies whose checker makes a call with the context
  Watched,     \* dependencies whose checker reads a connection's state
  Own,         \* dependencies with a Checker of the service's own
  Grouped,     \* the dependencies behind a MultiChecker
  MaxChanges   \* bound: changes of the dependencies during a probe

ASSUME GroupAssumption ==
  /\ Grouped \subseteq Pinged \cup Watched \cup Own
  /\ Pinged \cap Watched = {} /\ Pinged \cap Own = {} /\ Watched \cap Own = {}
  /\ IsFiniteSet(Pinged \cup Watched \cup Own) /\ MaxChanges \in Nat

VARIABLES
  dependency,  \* "up", "slow" (an own checker may call this degraded), "down"
  probe,       \* "none", "health", "ready", "live"
  todo,        \* checkers not yet asked: a dependency, or {} for the group
  expired,     \* the probe's context has timed out
  overall,     \* HealthStatus.Status, or ready as healthy / unhealthy
  answer,      \* the status code sent, 0 while the probe runs
  seen,        \* history: the statuses of this probe, with their number
  wasUp,       \* history: dependencies that worked at some time in the probe
  changes

healthVars == <<dependency, probe, todo, expired, overall, answer, seen, wasUp, changes>>

Deps == Pinged \cup Watched \cup Own
Statuses == {"healthy", "degraded", "unhealthy"}
Checkers == {{d} : d \in Deps \ Grouped} \cup (IF Grouped = {} THEN {} ELSE {Grouped})

HealthTypeOK ==
  /\ dependency \in [Deps -> {"up", "slow", "down"}]
  /\ probe \in {"none", "health", "ready", "live"} /\ todo \subseteq Checkers
  /\ expired \in BOOLEAN /\ overall \in Statuses /\ answer \in {0, 200, 503}
  /\ seen \subseteq (1..Cardinality(Checkers)) \X Statuses
  /\ Cardinality(seen) = IF probe \in {"none", "live"} THEN 0 ELSE Cardinality(Checkers \ todo)
  /\ wasUp \subseteq Deps /\ changes \in 0..MaxChanges

HealthInit ==
  /\ dependency = [d \in Deps |-> "up"]
  /\ probe = "none" /\ todo = {} /\ expired = FALSE /\ overall = "healthy" /\ answer = 0
  /\ seen = {} /\ wasUp = {} /\ changes = 0
-----------------------------------------------------------------------------
Changes(d) ==
  /\ changes < MaxChanges /\ changes' = changes + 1
  /\ \E s \in {"up", "slow", "down"} \ {dependency[d]} :
       /\ dependency' = [dependency EXCEPT ![d] = s]
       /\ wasUp' = IF probe # "none" /\ s # "down" THEN wasUp \cup {d} ELSE wasUp
  /\ UNCHANGED <<probe, todo, expired, overall, answer, seen>>

Start(p) ==
  /\ probe = "none"
  /\ probe' = p /\ todo' = IF p = "live" THEN {} ELSE Checkers
  /\ expired' = FALSE /\ overall' = "healthy" /\ answer' = 0 /\ seen' = {}
  /\ wasUp' = {d \in Deps : dependency[d] # "down"}
  /\ UNCHANGED <<dependency, changes>>

Deadline ==
  /\ probe \in {"health", "ready"} /\ answer = 0 /\ ~expired
  /\ expired' = TRUE
  /\ UNCHANGED <<dependency, probe, todo, overall, answer, seen, wasUp, changes>>

healthyIf(ok) == {IF ok THEN "healthy" ELSE "unhealthy"}

(* A checker that calls its dependency with the probe's context: the pools,*)
(* Redis, any Pinger and a CustomChecker.                                  *)
ping(d) == healthyIf(dependency[d] # "down" /\ ~expired)

(* RabbitMQChecker asks the client for its connection's state.             *)
look(d) == healthyIf(dependency[d] # "down")

(* Any other Checker may also answer degraded.                             *)
own(d) ==
  CASE dependency[d] = "up" -> {"healthy"}
    [] dependency[d] = "slow" -> {"healthy", "degraded"}
    [] dependency[d] = "down" -> {"unhealthy"}

check(d) == IF d \in Pinged THEN ping(d) ELSE IF d \in Watched THEN look(d) ELSE own(d)

(* MultiChecker: the first of its checkers that is not healthy makes it    *)
(* unhealthy.                                                              *)
Multi(G) ==
  {IF \A d \in G : f[d] = "healthy" THEN "healthy" ELSE "unhealthy" :
     f \in {g \in [G -> Statuses] : \A d \in G : g[d] \in check(d)}}

Check(c) == IF c = Grouped THEN Multi(c) ELSE UNION {check(d) : d \in c}

(* Faulty variant: every checker's status replaces the one before.         *)
aggregate_lastWins(before, status) == status

(* Health's loop: a status that is not healthy replaces the one before, so *)
(* a degraded dependency checked after an unhealthy one hides it; Ready's: *)
(* anything that is not healthy is not ready.                              *)
aggregate(before, status) ==
  IF probe = "ready" THEN IF status = "healthy" THEN before ELSE "unhealthy"
  ELSE IF status = "healthy" THEN before ELSE status

Ask(c) ==
  /\ probe \in {"health", "ready"} /\ c \in todo
  /\ todo' = todo \ {c}
  /\ \E s \in Check(c) : /\ overall' = aggregate(overall, s)
                         /\ seen' = seen \cup {<<Cardinality(Checkers \ todo) + 1, s>>}
  /\ UNCHANGED <<dependency, probe, expired, answer, wasUp, changes>>

Answer ==
  /\ probe # "none" /\ todo = {} /\ answer = 0
  /\ answer' = IF overall = "unhealthy" THEN 503 ELSE 200
  /\ UNCHANGED <<dependency, probe, todo, expired, overall, seen, wasUp, changes>>

(* Faulty variant: the statuses of a probe stay for the next one.          *)
Over_keepsStatus ==
  /\ probe # "none" /\ answer # 0
  /\ probe' = "none" /\ todo' = {} /\ expired' = FALSE
  /\ UNCHANGED <<dependency, overall, answer, seen, wasUp, changes>>

Over ==
  /\ probe # "none" /\ answer # 0
  /\ probe' = "none" /\ todo' = {} /\ expired' = FALSE /\ overall' = "healthy" /\ answer' = 0
  /\ seen' = {} /\ wasUp' = {}
  /\ UNCHANGED <<dependency, changes>>

HealthNext ==
  \/ Deadline \/ Answer \/ Over
  \/ \E p \in {"health", "ready", "live"} : Start(p)
  \/ \E d \in Deps : Changes(d)
  \/ \E c \in Checkers : Ask(c)

HealthSpec == HealthInit /\ [][HealthNext]_healthVars
-----------------------------------------------------------------------------
found == {s[2] : s \in seen}

(***************************************************************************)
(* A service that reports ready has met every dependency in working order  *)
(* at some time in the probe, and in time; one that does not has met one   *)
(* that was not healthy or ran out of time.                                *)
(***************************************************************************)
ReadyIsEarned ==
  probe = "ready" /\ answer # 0 =>
    /\ answer = 200 <=> found \subseteq {"healthy"}
    /\ answer = 200 => wasUp = Deps

(***************************************************************************)
(* Health says unhealthy, with 503, when the last checker that was not     *)
(* healthy was unhealthy, and never when none was: an unhealthy dependency *)
(* is hidden only by a degraded one that happened to be asked after it.    *)
(***************************************************************************)
UnhealthyShows ==
  probe = "health" /\ answer # 0 =>
    /\ answer = 503 => "unhealthy" \in found
    /\ answer = 200 /\ "unhealthy" \in found =>
         \E i, j \in 1..Cardinality(Checkers) :
           i < j /\ <<i, "unhealthy">> \in seen /\ <<j, "degraded">> \in seen

(***************************************************************************)
(* What the health endpoints promise: ready is earned, and an unhealthy    *)
(* dependency shows.                                                       *)
(***************************************************************************)
HealthContract ==
  /\ HealthTypeOK
  /\ ReadyIsEarned
  /\ UnhealthyShows
=============================================================================
