---------------------------- MODULE Coordination ----------------------------
(***************************************************************************)
(* The components that coordinate through a shared server: the scheduler   *)
(* (PostgreSQL), the mutex, rate limiter and caches (Redis), the client of *)
(* RabbitMQ, and the server that drains its requests at the end.  They do  *)
(* not share state, so a behaviour follows one of them, chosen at the      *)
(* start, and the others stand still.                                      *)
(***************************************************************************)
EXTENDS Scheduler, RedisLocks, LoadCache, RabbitClient, Draining

CONSTANTS r1, r2, j1, j2   \* the replicas and jobs of the registrations below

VARIABLE subject   \* the component this behaviour follows

coordinationVars == <<subject, schedulerVars, redisVars, cacheVars, rabbitVars, drainVars>>

(***************************************************************************)
(* Two replicas of one singleton job; two singleton jobs of one replica; a *)
(* singleton beside a job without WithSingleton.                           *)
(***************************************************************************)
SmallRegistrations ==
  LET job(r, j, s) == [replica |-> r, job |-> j, singleton |-> s]
  IN {<<job(r1, j1, TRUE), job(r2, j1, TRUE)>>,
      <<job(r1, j1, TRUE), job(r1, j2, TRUE)>>,
      <<job(r1, j1, FALSE), job(r1, j2, TRUE)>>}

Init ==
  /\ SchedulerInit /\ RedisInit /\ CacheInit /\ RabbitInit /\ DrainInit
  /\ \/ subject = "scheduler" /\ impl = "memory" /\ callTTL
     \/ subject = "cache" /\ reg = <<[replica |-> r1, job |-> j1, singleton |-> TRUE],
                                     [replica |-> r2, job |-> j1, singleton |-> TRUE]>>
     \/ /\ subject \in {"mutex", "limit", "rabbit", "drain"}
        /\ impl = "memory" /\ callTTL
        /\ reg = <<[replica |-> r1, job |-> j1, singleton |-> TRUE],
                   [replica |-> r2, job |-> j1, singleton |-> TRUE]>>

OfScheduler(A) ==
  /\ subject = "scheduler" /\ A
  /\ UNCHANGED <<subject, redisVars, cacheVars, rabbitVars, drainVars>>
OfRedis(A, part) ==
  /\ subject = part /\ A
  /\ UNCHANGED <<subject, schedulerVars, cacheVars, rabbitVars, drainVars>>
OfCache(A) ==
  /\ subject = "cache" /\ A
  /\ UNCHANGED <<subject, schedulerVars, redisVars, rabbitVars, drainVars>>
OfRabbit(A) ==
  /\ subject = "rabbit" /\ A
  /\ UNCHANGED <<subject, schedulerVars, redisVars, cacheVars, drainVars>>
OfDrain(A) ==
  /\ subject = "drain" /\ A
  /\ UNCHANGED <<subject, schedulerVars, redisVars, cacheVars, rabbitVars>>

Next ==
  \/ OfScheduler(SchedulerNext) \/ OfRedis(MutexNext, "mutex") \/ OfRedis(LimitNext, "limit")
  \/ OfCache(CacheNext) \/ OfRabbit(RabbitNext) \/ OfDrain(DrainNext)

CoordinationSpec == Init /\ [][Next]_coordinationVars

(***************************************************************************)
(* Goroutines run, timers fire, jobs, loads and handlers return, a pool    *)
(* serves its waiters in turn, and an owner that changed data deletes the  *)
(* key.  Go's select picks among ready cases at random, hence the strong   *)
(* fairness of ctx.Done().  Ticks, kicks, calls and failures may or may    *)
(* not happen.                                                             *)
(***************************************************************************)
FairSpec ==
  /\ CoordinationSpec
  /\ \A l \in Loops : /\ SF_coordinationVars(OfScheduler(Proceed(l)))
                      /\ SF_coordinationVars(OfScheduler(Done(l)))
  /\ \A c \in Callers : WF_coordinationVars(OfCache(CallStep(c)))
  /\ WF_coordinationVars(OfCache(Invalidate))
  /\ WF_coordinationVars(OfCache(EntryExpires))
  /\ WF_coordinationVars(OfRabbit(Reconnect))
  /\ WF_coordinationVars(OfDrain(Wind))

(***************************************************************************)
(* Whatever was asked to happen happens: a kick starts a run, runs end and *)
(* a stopped runner returns, a stale cache entry goes away and every       *)
(* caller is answered, a dropped connection comes back, and a signal ends  *)
(* the process.                                                            *)
(***************************************************************************)
Progress ==
  /\ KickStartsRun
  /\ StopReturns
  /\ RunsEnd
  /\ EventuallyFresh
  /\ CallsReturn
  /\ ConnectionReturns
  /\ SignalEnds
=============================================================================
