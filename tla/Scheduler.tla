----------------------------- MODULE Scheduler -----------------------------
(***************************************************************************)
(* scheduler.Runner on several replicas, with WithSingleton: run loops,    *)
(* kicks, and the session-level advisory lock that a run takes on a        *)
(* connection of its replica's pool and keeps while the job runs.          *)
(*                                                                         *)
(* As PostgreSQL and pgxpool are used: an advisory lock belongs to a       *)
(* session, may be taken several times by it, and ends with it; Release    *)
(* replaces a connection whose session has ended.                          *)
(***************************************************************************)
EXTENDS Naturals, FiniteSets

CONSTANTS
  Replicas,   \* processes that share the database
  Jobs,       \* job names
  Timed,      \* jobs with a Timeout
  Loops,      \* the goroutines that Start runs, on all replicas
  KickLoops,  \* those whose job somebody kicks
  Registrations, \* the jobs these may stand for, as Register left them
  PoolSize,   \* connections in the pool of a replica
  MaxFaults   \* bound: sessions lost and unlocks that fail

ASSUME SchedulerAssumption ==
  /\ Timed \subseteq Jobs /\ KickLoops \subseteq Loops
  /\ Registrations \subseteq
       [Loops -> [replica : Replicas, job : Jobs, singleton : BOOLEAN]]
  /\ PoolSize \in Nat \ {0} /\ MaxFaults \in Nat

Conns == Replicas \X (1..PoolSize)
PoolOf(r) == {r} \X (1..PoolSize)

VARIABLES
  reg,        \* the job of a loop
  at,         \* where the goroutine of a loop is
  kick,       \* loops whose kick channel holds a token
  owed,       \* history: kicked, and no run has started since
  stopping,   \* replicas whose context is cancelled
  expired,    \* loops whose run context has timed out
  lockConn,   \* the connection tryAdvisoryLock acquired, {} for none
  jobConn,    \* the connection the job itself acquired, {} for none
  lost,       \* checked-out connections whose session has ended
  depth,      \* how often a session holds the lock of a job
  leaked,     \* history: sessions on which an unlock failed
  faults      \* faults so far

schedulerVars == <<reg, at, kick, owed, stopping, expired, lockConn, jobConn,
                   lost, depth, leaked, faults>>
pools == <<lockConn, jobConn, lost, depth, leaked, faults>>
requests == <<kick, owed, stopping>>

SchedulerTypeOK ==
  /\ reg \in Registrations
  /\ at \in [Loops -> {"jitter", "runOnce", "tryLock", "job", "jobWaits",
                       "jobQueries", "unlock", "select", "stopped"}]
  /\ kick \subseteq Loops /\ owed \subseteq Loops /\ expired \subseteq Loops
  /\ stopping \subseteq Replicas
  /\ lockConn \in [Loops -> SUBSET Conns] /\ jobConn \in [Loops -> SUBSET Conns]
  /\ lost \subseteq Conns /\ leaked \subseteq Conns
  /\ depth \in [Jobs -> [Conns -> Nat]]
  /\ faults \in 0..MaxFaults

(* Register has run for every job: a duplicate name or a period that is    *)
(* not positive has panicked, so a name has one loop.                      *)
Register == /\ reg \in Registrations
            /\ \A k, l \in Loops :
                 reg[k].replica = reg[l].replica /\ reg[k].job = reg[l].job => k = l

(* Start has started the goroutines. *)
SchedulerInit ==
  /\ Register
  /\ at = [l \in Loops |-> "jitter"]
  /\ kick = {} /\ owed = {} /\ stopping = {} /\ expired = {}
  /\ lockConn = [l \in Loops |-> {}] /\ jobConn = [l \in Loops |-> {}]
  /\ lost = {} /\ leaked = {}
  /\ depth = [j \in Jobs |-> [c \in Conns |-> 0]]
  /\ faults = 0
-----------------------------------------------------------------------------
(* The pool and the lock *)

CheckedOut == UNION {lockConn[l] \cup jobConn[l] : l \in Loops}

Idle(r) == PoolOf(r) \ CheckedOut

(* Idle connections are interchangeable, but for the locks left on them. *)
Offered(r) == {c \in Idle(r) : \A d \in Idle(r) : d[2] < c[2] => (d \in leaked) # (c \in leaked)}

LockFreeFor(j, c) == \A d \in Conns \ {c} : depth[j][d] = 0

ctxDone(l) == reg[l].replica \in stopping \/ l \in expired

(* A session ends: its locks are gone.  The pool replaces an idle          *)
(* connection, whoever uses a busy one goes on without knowing.            *)
SessionEnds(c) ==
  /\ faults < MaxFaults
  /\ c \notin lost
  /\ c \in CheckedOut \/ \E j \in Jobs : depth[j][c] > 0
  /\ faults' = faults + 1
  /\ depth' = [j \in Jobs |-> [depth[j] EXCEPT ![c] = 0]]
  /\ leaked' = leaked \ {c}
  /\ lost' = IF c \in CheckedOut THEN lost \cup {c} ELSE lost
  /\ UNCHANGED <<reg, at, requests, expired, lockConn, jobConn>>
-----------------------------------------------------------------------------
(* Kicks and stop *)

(* Faulty variant: a kick that comes during a run is dropped. *)
Kick_onlyIdle(l) ==
  /\ reg[l].replica \notin stopping
  /\ kick' = IF at[l] = "select" THEN kick \cup {l} ELSE kick
  /\ owed' = owed \cup {l}
  /\ UNCHANGED <<reg, at, stopping, expired, pools>>

(* The send does not block: a token that is there stands for both kicks. *)
(* (After the context is cancelled a kick changes nothing that matters.)   *)
Kick(l) ==
  /\ reg[l].replica \notin stopping
  /\ kick' = kick \cup {l}
  /\ owed' = owed \cup {l}
  /\ UNCHANGED <<reg, at, stopping, expired, pools>>

CancelStart(r) ==
  /\ r \notin stopping
  /\ stopping' = stopping \cup {r}
  /\ UNCHANGED <<reg, at, kick, owed, expired, pools>>
-----------------------------------------------------------------------------
(* runLoop *)

begin(l) == at' = [at EXCEPT ![l] = "runOnce"] /\ owed' = owed \ {l}

(* The initial jitter is over, or the context is done first. *)
JitterOver(l) ==
  /\ at[l] = "jitter"
  /\ \/ begin(l)
     \/ ctxDone(l) /\ at' = [at EXCEPT ![l] = "stopped"] /\ UNCHANGED owed
  /\ UNCHANGED <<reg, kick, stopping, expired, pools>>

Tick(l) ==
  /\ at[l] = "select"
  /\ begin(l)
  /\ UNCHANGED <<reg, kick, stopping, expired, pools>>

Kicked(l) ==
  /\ at[l] = "select"
  /\ l \in kick
  /\ kick' = kick \ {l}
  /\ begin(l)
  /\ UNCHANGED <<reg, stopping, expired, pools>>

(* Faulty variant: the context is looked at only after a kick. *)
Done_afterKick(l) ==
  /\ at[l] = "select"
  /\ reg[l].replica \in stopping /\ l \in kick
  /\ at' = [at EXCEPT ![l] = "stopped"]
  /\ UNCHANGED <<reg, requests, expired, pools>>

Done(l) ==
  /\ at[l] = "select"
  /\ reg[l].replica \in stopping
  /\ at' = [at EXCEPT ![l] = "stopped"]
  /\ UNCHANGED <<reg, requests, expired, pools>>
-----------------------------------------------------------------------------
(* runOnce *)

(* The run's own timeout, at the places that look at the context. *)
TimesOut(l) ==
  /\ reg[l].job \in Timed
  /\ at[l] \in {"runOnce", "tryLock", "jobWaits"}
  /\ expired' = expired \cup {l}
  /\ UNCHANGED <<reg, at, requests, pools>>

(* The run is over; a later one has a context of its own. *)
return(l) ==
  /\ at' = [at EXCEPT ![l] = "select"]
  /\ expired' = expired \ {l}

release(l, slot) ==
  /\ slot' = [slot EXCEPT ![l] = {}]
  /\ lost' = lost \ slot[l]

(* A job that is no singleton runs at once; a singleton needs a connection *)
(* first, and waits for one until its context is done.                     *)
Acquire(l) ==
  /\ at[l] = "runOnce"
  /\ \/ /\ ~reg[l].singleton
        /\ at' = [at EXCEPT ![l] = "job"]
        /\ UNCHANGED <<expired, lockConn>>
     \/ /\ reg[l].singleton /\ ~ctxDone(l)
        /\ \E c \in Offered(reg[l].replica) : lockConn' = [lockConn EXCEPT ![l] = @ \cup {c}]
        /\ at' = [at EXCEPT ![l] = "tryLock"]
        /\ UNCHANGED expired
     \/ /\ reg[l].singleton /\ ctxDone(l)
        /\ return(l)
        /\ UNCHANGED lockConn
  /\ UNCHANGED <<reg, requests, jobConn, lost, depth, leaked, faults>>

(* Faulty variant: the connection is kept when another session holds it. *)
TryLock_keepsConn(l) ==
  /\ at[l] = "tryLock"
  /\ \E c \in lockConn[l] :
       \/ /\ c \notin lost /\ LockFreeFor(reg[l].job, c)
          /\ depth' = [depth EXCEPT ![reg[l].job][c] = @ + 1]
          /\ at' = [at EXCEPT ![l] = "job"]
          /\ UNCHANGED <<expired, lockConn, lost>>
       \/ /\ ~LockFreeFor(reg[l].job, c)
          /\ return(l)
          /\ UNCHANGED <<depth, lockConn, lost>>
  /\ UNCHANGED <<reg, requests, jobConn, leaked, faults>>

(* Faulty variant: acquired is not looked at. *)
TryLock_ignoresAnswer(l) ==
  /\ at[l] = "tryLock"
  /\ \E c \in lockConn[l] :
       depth' = IF LockFreeFor(reg[l].job, c) THEN [depth EXCEPT ![reg[l].job][c] = @ + 1] ELSE depth
  /\ at' = [at EXCEPT ![l] = "job"]
  /\ UNCHANGED <<reg, requests, expired, lockConn, jobConn, lost, leaked, faults>>

(* pg_try_advisory_lock: acquired; held by another session (skip); or the  *)
(* query fails, on a dead session or because the context is done, which    *)
(* closes the connection and with it the session.                          *)
TryLock(l) ==
  /\ at[l] = "tryLock"
  /\ \E c \in lockConn[l] :
       \/ /\ c \notin lost /\ LockFreeFor(reg[l].job, c)
          /\ depth' = [depth EXCEPT ![reg[l].job][c] = @ + 1]
          /\ at' = [at EXCEPT ![l] = "job"]
          /\ UNCHANGED <<expired, lockConn, lost, leaked>>
       \/ /\ c \notin lost /\ ~LockFreeFor(reg[l].job, c)
          /\ return(l) /\ release(l, lockConn)
          /\ UNCHANGED <<depth, leaked>>
       \/ /\ c \in lost \/ ctxDone(l)
          /\ depth' = [j \in Jobs |-> [depth[j] EXCEPT ![c] = 0]]
          /\ leaked' = leaked \ {c}
          /\ return(l) /\ release(l, lockConn)
  /\ UNCHANGED <<reg, requests, jobConn, faults>>

(* external: a job that queries the database takes a connection of the     *)
(* same pool, waiting for one until its context is done.                   *)
JobQueries(l) ==
  /\ \/ at[l] = "job" /\ at' = [at EXCEPT ![l] = "jobWaits"] /\ UNCHANGED jobConn
     \/ /\ at[l] = "jobWaits" /\ ~ctxDone(l)
        /\ \E c \in Offered(reg[l].replica) : jobConn' = [jobConn EXCEPT ![l] = {c}]
        /\ at' = [at EXCEPT ![l] = "jobQueries"]
  /\ UNCHANGED <<reg, requests, expired, lockConn, lost, depth, leaked, faults>>

(* The job returns, fails or panics (runProtected makes that a failure). *)
JobEnds(l) ==
  /\ \/ at[l] \in {"job", "jobQueries"}
     \/ at[l] = "jobWaits" /\ ctxDone(l)
  /\ release(l, jobConn)
  /\ IF reg[l].singleton
     THEN at' = [at EXCEPT ![l] = "unlock"] /\ UNCHANGED expired
     ELSE return(l)
  /\ UNCHANGED <<reg, requests, lockConn, depth, leaked, faults>>

(* Faulty variant: the connection goes back to the pool without an unlock. *)
Unlock_onlyReleases(l) ==
  /\ at[l] = "unlock"
  /\ return(l) /\ release(l, lockConn)
  /\ UNCHANGED <<reg, requests, jobConn, depth, leaked, faults>>

(* pg_advisory_unlock under a context of its own.  Its error is ignored:   *)
(* the session is dead, or (a fault) it lives on and still holds the lock. *)
Unlock(l) ==
  /\ at[l] = "unlock"
  /\ \E c \in lockConn[l] :
       \/ /\ c \notin lost
          /\ depth' = [depth EXCEPT ![reg[l].job][c] = @ - 1]
          /\ UNCHANGED <<leaked, faults>>
       \/ /\ c \notin lost /\ faults < MaxFaults
          /\ faults' = faults + 1
          /\ leaked' = leaked \cup {c}
          /\ UNCHANGED depth
       \/ /\ c \in lost
          /\ UNCHANGED <<depth, leaked, faults>>
  /\ return(l) /\ release(l, lockConn)
  /\ UNCHANGED <<reg, requests, jobConn>>
-----------------------------------------------------------------------------
Proceed(l) ==
  \/ JitterOver(l) \/ Kicked(l)
  \/ Acquire(l) \/ TryLock(l) \/ JobEnds(l) \/ JobQueries(l) \/ Unlock(l)

SchedulerNext ==
  \/ \E r \in Replicas : CancelStart(r)
  \/ \E l \in KickLoops : Kick(l)
  \/ \E l \in Loops : Tick(l) \/ Done(l) \/ TimesOut(l) \/ Proceed(l)
  \/ \E c \in Conns : SessionEnds(c)

SchedulerSpec == SchedulerInit /\ [][SchedulerNext]_schedulerVars
-----------------------------------------------------------------------------
InJob(l) == at[l] \in {"job", "jobWaits", "jobQueries"}

(***************************************************************************)
(* WithSingleton: the job of one name runs on two replicas at a time only  *)
(* when the session under one of the runs has ended (runner.go line 145:   *)
(* the run is not told), also after an unlock that failed.                 *)
(***************************************************************************)
OverlapOnlyAfterSessionLoss ==
  \A k, l \in Loops :
    k # l /\ reg[k].job = reg[l].job /\ reg[k].singleton /\ reg[l].singleton /\ InJob(k) /\ InJob(l)
      => (lockConn[k] \cup lockConn[l]) \cap lost # {}

(***************************************************************************)
(* A loop between two runs holds no connection, whichever path runOnce and *)
(* tryAdvisoryLock returned on, and no connection is checked out twice.    *)
(***************************************************************************)
ConnectionsReturned ==
  /\ \A l \in Loops : at[l] \in {"select", "stopped"} => lockConn[l] \cup jobConn[l] = {}
  /\ \A k, l \in Loops : k # l => (lockConn[k] \cup jobConn[k]) \cap (lockConn[l] \cup jobConn[l]) = {}
  /\ \A l \in Loops : lockConn[l] \cap jobConn[l] = {}

(***************************************************************************)
(* A job is skipped only because of a run in progress or because of an     *)
(* unlock that failed: nobody else's session holds its lock.               *)
(***************************************************************************)
LockHasReason ==
  \A j \in Jobs, c \in Conns : depth[j][c] > 0
    => c \in leaked \/ \E l \in Loops : reg[l].job = j /\ c \in lockConn[l] /\ at[l] # "tryLock"

(* One connection per singleton job is not enough when jobs query. *)
Roomy(r) == Cardinality({l \in Loops : reg[l].replica = r /\ reg[l].singleton}) < PoolSize

(***************************************************************************)
(* Kick "requests an immediate out-of-cycle run" (line 72): after a kick a *)
(* run starts, although kicks coalesce and ticks compete, or the runner    *)
(* stops (or the pool has no room for the job, see RunsEnd).               *)
(***************************************************************************)
KickStartsRun ==
  \A l \in KickLoops : (l \in owed /\ Roomy(reg[l].replica))
                      ~> (l \notin owed \/ reg[l].replica \in stopping)

(***************************************************************************)
(* Start "waits for all in-flight runs to finish before returning": every  *)
(* loop of a cancelled runner ends, whatever its job waits for.            *)
(***************************************************************************)
StopReturns ==
  \A l \in Loops : (reg[l].replica \in stopping) ~> at[l] = "stopped"

(***************************************************************************)
(* Locks and jobs share the pool: as long as it has a connection more than *)
(* there are singleton jobs, every run ends, also without a Timeout.       *)
(***************************************************************************)
RunsEnd ==
  \A l \in Loops : (at[l] = "runOnce" /\ Roomy(reg[l].replica)) ~> at[l] \in {"select", "stopped"}

(***************************************************************************)
(* What scheduler.Runner promises with WithSingleton: a job runs on one    *)
(* replica at a time unless a session was lost, and connections and locks  *)
(* are given back.                                                         *)
(***************************************************************************)
SchedulerContract ==
  /\ SchedulerTypeOK
  /\ OverlapOnlyAfterSessionLoss
  /\ ConnectionsReturned
  /\ LockHasReason
=============================================================================
