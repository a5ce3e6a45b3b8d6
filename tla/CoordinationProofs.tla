------------------------- MODULE CoordinationProofs -------------------------
(***************************************************************************)
(* The components that coordinate goroutines and replicas, each proved for *)
(* every value of its constants.                                           *)
(***************************************************************************)
EXTENDS Scheduler, RedisLocks, LoadCache, RabbitClient, TLAPS

(***************************************************************************)
(* scheduler.Runner with WithSingleton                                     *)
(***************************************************************************)

Checked == {"job", "jobWaits", "jobQueries", "unlock"}

(* Which connections a loop has, by where it is. *)
HoldInv ==
  /\ \A l \in Loops :
       /\ \A c, d \in lockConn[l] : c = d
       /\ lockConn[l] # {} => reg[l].singleton /\ at[l] \in Checked \cup {"tryLock"}
       /\ jobConn[l] # {} => at[l] = "jobQueries"
       /\ lockConn[l] \cap jobConn[l] = {}
       /\ at[l] \in Checked /\ reg[l].singleton => lockConn[l] # {}
  /\ \A k, l \in Loops : k # l => (lockConn[k] \cup jobConn[k]) \cap (lockConn[l] \cup jobConn[l]) = {}

(* One session holds the lock of a job, more than once only when an unlock *)
(* failed on it; the session under a run that started holds it, and one    *)
(* that ended holds nothing.                                               *)
DepthInv ==
  /\ \A j \in Jobs : \A c, d \in Conns : depth[j][c] > 0 /\ depth[j][d] > 0 => c = d
  /\ \A j \in Jobs : \A c \in Conns : depth[j][c] > 1 => c \in leaked
  /\ \A l \in Loops : at[l] \in Checked => \A c \in lockConn[l] \ lost : depth[reg[l].job][c] > 0
  /\ \A j \in Jobs : \A c \in lost : depth[j][c] = 0
  /\ LockHasReason

SchedulerInv == SchedulerTypeOK /\ HoldInv /\ DepthInv

LEMMA InitScheduler == SchedulerInit => SchedulerInv
<1> SUFFICES ASSUME SchedulerInit PROVE SchedulerInv
  OBVIOUS
<1>1. SchedulerTypeOK
  BY SchedulerAssumption DEF SchedulerInit, Register, SchedulerTypeOK
<1>2. HoldInv
  BY Zenon DEF SchedulerInit, HoldInv, Checked
<1>3. DepthInv
  BY DEF SchedulerInit, DepthInv, LockHasReason, Checked
<1> QED BY Zenon, <1>1, <1>2, <1>3 DEF SchedulerInv

LEMMA Registered ==
  ASSUME SchedulerTypeOK, NEW l \in Loops
  PROVE  reg[l].replica \in Replicas /\ reg[l].job \in Jobs
<1>1. reg \in [Loops -> [replica : Replicas, job : Jobs, singleton : BOOLEAN]]
  BY Zenon, SchedulerAssumption DEF SchedulerTypeOK
<1>2. reg[l] \in [replica : Replicas, job : Jobs, singleton : BOOLEAN]
  BY Zenon, <1>1
<1> QED BY Zenon, <1>2

(* The pool hands out what nobody has. *)
LEMMA OfferedFree ==
  ASSUME NEW r \in Replicas, NEW c \in Offered(r)
  PROVE  c \in Conns /\ \A l \in Loops : c \notin lockConn[l] /\ c \notin jobConn[l]
<1>1. c \in PoolOf(r) /\ c \notin CheckedOut
  BY Zenon DEF Offered, Idle
<1>2. c \in Conns
  BY Zenon, <1>1 DEF PoolOf, Conns
<1> QED BY ZenonT(30), <1>1, <1>2 DEF CheckedOut

(* Steps that leave the pools alone, and loops in the states that have     *)
(* nothing to do with them.                                                *)
LEMMA PoolsUntouched ==
  ASSUME SchedulerInv, SchedulerTypeOK', UNCHANGED <<reg, pools>>,
         \A l \in Loops :
           \/ at'[l] = at[l]
           \/ at[l] \notin Checked \cup {"tryLock"} /\ at'[l] \notin Checked \cup {"tryLock"}
           \/ at[l] = "job" /\ at'[l] = "jobWaits"
           \/ at[l] = "runOnce" /\ at'[l] = "job" /\ ~reg[l].singleton
  PROVE  SchedulerInv'
<1>1. HoldInv'
  BY DEF SchedulerInv, HoldInv, Checked, pools
<1>2. \A l \in Loops : lockConn[l] # {} => (at'[l] = "tryLock" <=> at[l] = "tryLock")
                                           /\ (at'[l] \in Checked => at[l] \in Checked)
  BY Zenon DEF SchedulerInv, HoldInv, Checked
<1>3. DepthInv'
  BY <1>2 DEF SchedulerInv, DepthInv, LockHasReason, pools
<1> QED BY Zenon, <1>1, <1>3 DEF SchedulerInv

(* A loop gives its lock connection back: what is left on the session is   *)
(* what an unlock failed to remove.                                        *)
LEMMA GivesBack ==
  ASSUME SchedulerInv, NEW l \in Loops, SchedulerTypeOK', UNCHANGED <<reg, jobConn>>,
         at[l] \in {"tryLock", "unlock"}, return(l), release(l, lockConn),
         leaked \subseteq leaked' \cup lockConn[l],
         \A j \in Jobs, c \in Conns : depth'[j][c] <= depth[j][c],
         \A j \in Jobs, c \in Conns \ lockConn[l] : depth'[j][c] = depth[j][c],
         \A j \in Jobs, c \in lockConn[l] : depth'[j][c] > 0 => c \in leaked'
  PROVE  SchedulerInv'
<1>1. /\ lockConn'[l] = {} /\ at'[l] = "select"
      /\ \A k \in Loops \ {l} : lockConn'[k] = lockConn[k] /\ at'[k] = at[k]
      /\ lost' = lost \ lockConn[l]
  BY Zenon DEF SchedulerInv, SchedulerTypeOK, return, release
<1>2. HoldInv'
  BY <1>1 DEF SchedulerInv, HoldInv, Checked
<1>3. depth \in [Jobs -> [Conns -> Nat]] /\ depth' \in [Jobs -> [Conns -> Nat]]
  BY Zenon DEF SchedulerInv, SchedulerTypeOK
<1>4. ASSUME NEW j \in Jobs, NEW c \in Conns, NEW d \in Conns, depth'[j][c] > 0, depth'[j][d] > 0
      PROVE  c = d
  BY <1>3, <1>4 DEF SchedulerInv, DepthInv
<1>5. ASSUME NEW j \in Jobs, NEW c \in Conns, depth'[j][c] > 1 PROVE c \in leaked'
  <2>1. CASE c \in lockConn[l]
    BY <1>3, <1>5, <2>1
  <2>2. CASE c \notin lockConn[l]
    BY <1>3, <1>5, <2>2 DEF SchedulerInv, DepthInv
  <2> QED BY Zenon, <2>1, <2>2
<1>6. ASSUME NEW k \in Loops, at'[k] \in Checked, NEW c \in lockConn'[k] \ lost'
      PROVE  depth'[reg'[k].job][c] > 0
  <2>1. k # l /\ c \in lockConn[k] /\ c \notin lockConn[l] /\ c \notin lost /\ at[k] \in Checked
    BY Zenon, <1>1, <1>6 DEF SchedulerInv, HoldInv, Checked
  <2>2. c \in Conns /\ reg[k].job \in Jobs
    BY Zenon, <2>1, Registered DEF SchedulerInv, SchedulerTypeOK
  <2> QED BY <2>1, <2>2 DEF SchedulerInv, DepthInv
<1>7. ASSUME NEW j \in Jobs, NEW c \in Conns, depth'[j][c] > 0, c \notin leaked'
      PROVE  \E k \in Loops : reg'[k].job = j /\ c \in lockConn'[k] /\ at'[k] # "tryLock"
  <2>1. c \notin lockConn[l] /\ depth[j][c] > 0 /\ c \notin leaked
    BY Zenon, <1>7
  <2>2. PICK k \in Loops : reg[k].job = j /\ c \in lockConn[k] /\ at[k] # "tryLock"
    BY <2>1 DEF SchedulerInv, DepthInv, LockHasReason
  <2> QED BY Zenon, <1>1, <2>1, <2>2
<1>8. ASSUME NEW j \in Jobs, NEW c \in lost' PROVE depth'[j][c] = 0
  BY SMTT(30), <1>1 DEF SchedulerInv, SchedulerTypeOK, DepthInv
<1>9. DepthInv'
  BY SMTT(30), <1>4, <1>5, <1>6, <1>7, <1>8 DEF DepthInv, LockHasReason
<1> QED BY Zenon, <1>2, <1>9 DEF SchedulerInv

(* Nobody else's session is the one a loop has. *)
LEMMA OnlyHolder ==
  ASSUME SchedulerInv, NEW l \in Loops, NEW c \in lockConn[l], NEW j \in Jobs,
         depth[j][c] > 0, c \notin leaked
  PROVE  j = reg[l].job /\ at[l] # "tryLock" /\ depth[j][c] = 1
<1>1. c \in Conns
  BY Zenon DEF SchedulerInv, SchedulerTypeOK
<1>2. PICK k \in Loops : reg[k].job = j /\ c \in lockConn[k] /\ at[k] # "tryLock"
  BY <1>1 DEF SchedulerInv, DepthInv, LockHasReason
<1>3. k = l
  BY Zenon, <1>2 DEF SchedulerInv, HoldInv
<1>4. depth[j][c] \in Nat /\ ~(depth[j][c] > 1)
  BY <1>1 DEF SchedulerInv, SchedulerTypeOK, DepthInv
<1> QED BY <1>2, <1>3, <1>4

LEMMA TryLockStep ==
  ASSUME SchedulerInv, NEW l \in Loops, TryLock(l)
  PROVE  SchedulerInv'
<1> USE DEF requests
<1>0. SchedulerTypeOK /\ reg[l].job \in Jobs /\ lockConn[l] \subseteq Conns
      /\ depth \in [Jobs -> [Conns -> Nat]]
  BY Zenon, Registered DEF SchedulerInv, SchedulerTypeOK
<1>1. PICK c \in lockConn[l] :
       \/ /\ c \notin lost /\ LockFreeFor(reg[l].job, c)
          /\ depth' = [depth EXCEPT ![reg[l].job][c] = @ + 1]
          /\ at' = [at EXCEPT ![l] = "job"]
          /\ UNCHANGED <<expired, lockConn, lost, leaked>>
       \/ /\ c \notin lost /\ ~LockFreeFor(reg[l].job, c)
          /\ return(l) /\ release(l, lockConn)
          /\ UNCHANGED <<depth, leaked>>
       \/ /\ c \in lost \/ ctxDone(l)
          /\ depth' = [j \in Jobs |-> [depth[j] EXCEPT ![c] = 0]]
          /\ leaked' = leaked \ {c}
          /\ return(l) /\ release(l, lockConn)
  BY Zenon DEF TryLock
<1>2. at[l] = "tryLock" /\ UNCHANGED <<reg, requests, jobConn, faults>>
  BY Zenon DEF TryLock
<1>3. c \in Conns /\ lockConn[l] = {c}
  BY <1>0 DEF SchedulerInv, HoldInv
<1>4. CASE /\ c \notin lost /\ LockFreeFor(reg[l].job, c)
           /\ depth' = [depth EXCEPT ![reg[l].job][c] = @ + 1]
           /\ at' = [at EXCEPT ![l] = "job"]
           /\ UNCHANGED <<expired, lockConn, lost, leaked>>
  <2> DEFINE j == reg[l].job
  <2>1. /\ depth' \in [Jobs -> [Conns -> Nat]]
        /\ \A i \in Jobs, d \in Conns :
             depth'[i][d] = IF i = j /\ d = c THEN depth[i][d] + 1 ELSE depth[i][d]
    BY <1>0, <1>3, <1>4
  <2>2. SchedulerTypeOK'
    BY Zenon, <1>0, <1>2, <1>4, <2>1 DEF SchedulerTypeOK
  <2>0. lost' = lost /\ leaked' = leaked /\ lockConn' = lockConn /\ reg' = reg /\ jobConn' = jobConn
    BY Zenon, <1>2, <1>4
  <2>3. HoldInv'
    <3>1. at'[l] = "job" /\ \A k \in Loops \ {l} : at'[k] = at[k]
      BY Zenon, <1>0, <1>4 DEF SchedulerTypeOK
    <3>2. "job" \in Checked /\ "job" # "jobQueries" /\ jobConn[l] = {} /\ lockConn[l] # {}
      BY Zenon, <1>2, <1>3 DEF SchedulerInv, HoldInv, Checked
    <3>3. ASSUME NEW k \in Loops
          PROVE  /\ lockConn[k] # {} => at'[k] \in Checked \cup {"tryLock"}
                 /\ jobConn[k] # {} => at'[k] = "jobQueries"
                 /\ at'[k] \in Checked /\ reg[k].singleton => lockConn[k] # {}
      <4>1. CASE k = l
        BY Zenon, <3>1, <3>2, <4>1
      <4>2. CASE k # l
        BY Zenon, <3>1, <4>2 DEF SchedulerInv, HoldInv
      <4> QED BY Zenon, <4>1, <4>2
    <3> QED BY Zenon, <2>0, <3>3 DEF SchedulerInv, HoldInv
  <2>4. \A d \in Conns \ {c} : depth[j][d] = 0
    BY Zenon, <1>4 DEF LockFreeFor
  <2>5. \A i \in Jobs : \A d, e \in Conns : depth'[i][d] > 0 /\ depth'[i][e] > 0 => d = e
    BY <1>0, <2>1, <2>4 DEF SchedulerInv, DepthInv
  <2>6. ASSUME c \notin leaked PROVE depth[j][c] = 0
    BY SMTT(30), <1>0, <1>2, <1>3, <2>6, OnlyHolder
  <2>7. \A i \in Jobs : \A d \in Conns : depth'[i][d] > 1 => d \in leaked'
    <3>1. ASSUME NEW i \in Jobs, NEW d \in Conns, depth'[i][d] > 1, d \notin leaked PROVE FALSE
      <4>1. CASE i = j /\ d = c
        <5>1. depth'[i][d] = 0 + 1
          BY Zenon, <1>0, <1>3, <2>1, <2>6, <3>1, <4>1
        <5> QED BY <3>1, <5>1
      <4>2. CASE ~(i = j /\ d = c)
        BY Zenon, <2>1, <3>1, <4>2 DEF SchedulerInv, DepthInv
      <4> QED BY Zenon, <4>1, <4>2
    <3> QED BY Zenon, <2>0, <3>1
  <2>8. ASSUME NEW k \in Loops, at'[k] \in Checked, NEW d \in lockConn'[k] \ lost'
        PROVE  depth'[reg'[k].job][d] > 0
    <3>1. d \in Conns /\ reg[k].job \in Jobs /\ d \in lockConn[k] \ lost
      BY Zenon, <1>0, <1>4, <2>8, Registered DEF SchedulerTypeOK
    <3>2. CASE k = l
      <4>1. d = c /\ reg'[k].job = j
        BY Zenon, <1>3, <2>0, <3>1, <3>2
      <4>2. depth'[j][c] = depth[j][c] + 1
        BY Zenon, <1>0, <1>3, <2>1
      <4>3. depth[j][c] \in Nat
        BY Zenon, <1>0, <1>3
      <4> QED BY <4>1, <4>2, <4>3
    <3>3. CASE k # l
      <4>1. at[k] \in Checked
        BY Zenon, <1>0, <1>4, <2>8, <3>3 DEF SchedulerTypeOK
      <4>2. depth[reg[k].job][d] > 0
        BY Zenon, <3>1, <4>1 DEF SchedulerInv, DepthInv
      <4> QED BY SMTT(30), <1>0, <1>2, <2>1, <3>1, <4>2
    <3> QED BY Zenon, <3>2, <3>3
  <2>9. ASSUME NEW i \in Jobs, NEW d \in Conns, depth'[i][d] > 0, d \notin leaked'
        PROVE  \E k \in Loops : reg'[k].job = i /\ d \in lockConn'[k] /\ at'[k] # "tryLock"
    <3>1. CASE i = j /\ d = c
      BY Zenon, <1>0, <1>2, <1>3, <1>4, <3>1 DEF SchedulerTypeOK
    <3>2. CASE ~(i = j /\ d = c)
      <4>1. depth[i][d] > 0 /\ d \notin leaked
        BY Zenon, <1>4, <2>1, <2>9, <3>2
      <4>2. PICK k \in Loops : reg[k].job = i /\ d \in lockConn[k] /\ at[k] # "tryLock"
        BY Zenon, <4>1 DEF SchedulerInv, DepthInv, LockHasReason
      <4> QED BY Zenon, <1>0, <1>2, <1>4, <4>2 DEF SchedulerTypeOK
    <3> QED BY Zenon, <3>1, <3>2
  <2>10. ASSUME NEW i \in Jobs, NEW d \in lost' PROVE depth'[i][d] = 0
    <3>1. d \in Conns /\ d # c /\ depth[i][d] = 0
      BY Zenon, <1>0, <1>4, <2>0, <2>10 DEF SchedulerInv, SchedulerTypeOK, DepthInv
    <3> QED BY Zenon, <2>1, <3>1
  <2>11. DepthInv'
    <3>1. LockHasReason'
      BY Zenon, <2>9 DEF LockHasReason
    <3> QED BY Zenon, <2>5, <2>7, <2>8, <2>10, <3>1 DEF DepthInv
  <2> QED BY Zenon, <2>2, <2>3, <2>11 DEF SchedulerInv
<1>5. CASE return(l) /\ release(l, lockConn) /\ UNCHANGED <<depth, leaked>>
  <2>1. SchedulerTypeOK'
    BY Zenon, <1>0, <1>2, <1>5 DEF SchedulerTypeOK, return, release
  <2>2. \A i \in Jobs, d \in lockConn[l] : depth[i][d] > 0 => d \in leaked
    BY Zenon, <1>2, OnlyHolder
  <2>3. \A i \in Jobs, d \in Conns : depth[i][d] <= depth[i][d]
    BY SMTT(30), <1>0
  <2> QED BY Zenon, <1>2, <1>5, <2>1, <2>2, <2>3, GivesBack
<1>6. CASE /\ depth' = [j \in Jobs |-> [depth[j] EXCEPT ![c] = 0]]
           /\ leaked' = leaked \ {c}
           /\ return(l) /\ release(l, lockConn)
  <2>1. \A i \in Jobs, d \in Conns : depth'[i][d] = IF d = c THEN 0 ELSE depth[i][d]
    BY Zenon, <1>0, <1>6
  <2>2. depth' \in [Jobs -> [Conns -> Nat]]
    BY Zenon, <1>0, <1>6
  <2>3. SchedulerTypeOK'
    BY Zenon, <1>0, <1>2, <1>6, <2>2 DEF SchedulerTypeOK, return, release
  <2>4. \A i \in Jobs, d \in Conns : depth'[i][d] <= depth[i][d]
    BY SMTT(30), <1>0, <2>1
  <2>5. \A i \in Jobs, d \in Conns \ lockConn[l] : depth'[i][d] = depth[i][d]
    BY Zenon, <1>3, <2>1
  <2>6. \A i \in Jobs, d \in lockConn[l] : ~(depth'[i][d] > 0)
    BY SMTT(30), <1>3, <2>1
  <2> QED BY SMTT(30), <1>2, <1>6, <2>3, <2>4, <2>6, GivesBack
<1> QED BY Zenon, <1>1, <1>4, <1>5, <1>6

LEMMA UnlockStep ==
  ASSUME SchedulerInv, NEW l \in Loops, Unlock(l)
  PROVE  SchedulerInv'
<1> USE DEF requests
<1>0. SchedulerTypeOK /\ reg[l].job \in Jobs /\ lockConn[l] \subseteq Conns
      /\ depth \in [Jobs -> [Conns -> Nat]]
  BY ZenonT(30), Registered DEF SchedulerInv, SchedulerTypeOK
<1>1. PICK c \in lockConn[l] :
       \/ /\ c \notin lost
          /\ depth' = [depth EXCEPT ![reg[l].job][c] = @ - 1]
          /\ UNCHANGED <<leaked, faults>>
       \/ /\ c \notin lost /\ faults < MaxFaults
          /\ faults' = faults + 1
          /\ leaked' = leaked \cup {c}
          /\ UNCHANGED depth
       \/ /\ c \in lost
          /\ UNCHANGED <<depth, leaked, faults>>
  BY Zenon DEF Unlock
<1>2. at[l] = "unlock" /\ UNCHANGED <<reg, requests, jobConn>> /\ return(l) /\ release(l, lockConn)
  BY Zenon DEF Unlock
<1>3. c \in Conns /\ lockConn[l] = {c}
  BY <1>0 DEF SchedulerInv, HoldInv
<1>4. CASE c \notin lost /\ depth' = [depth EXCEPT ![reg[l].job][c] = @ - 1]
           /\ UNCHANGED <<leaked, faults>>
  <2> DEFINE j == reg[l].job
  <2>1. depth[j][c] > 0 /\ depth[j][c] \in Nat
    <3>1. depth[j][c] > 0
      BY Zenon, <1>2, <1>4 DEF SchedulerInv, DepthInv, Checked
    <3> QED BY Zenon, <1>0, <1>3, <3>1
  <2>2. /\ depth' \in [Jobs -> [Conns -> Nat]]
        /\ \A i \in Jobs, d \in Conns :
             depth'[i][d] = IF i = j /\ d = c THEN depth[i][d] - 1 ELSE depth[i][d]
    BY SMTT(30), <1>0, <1>3, <1>4, <2>1
  <2>3. SchedulerTypeOK'
    BY Zenon, <1>0, <1>2, <1>4, <2>2 DEF SchedulerTypeOK, return, release
  <2>4. \A i \in Jobs, d \in Conns : depth'[i][d] <= depth[i][d]
    BY <1>0, <2>2
  <2>5. \A i \in Jobs, d \in Conns \ lockConn[l] : depth'[i][d] = depth[i][d]
    BY Zenon, <1>3, <2>2
  <2>6. ASSUME NEW i \in Jobs, NEW d \in lockConn[l], depth'[i][d] > 0 PROVE d \in leaked'
    <3>1. d = c /\ depth[i][c] \in Nat /\ depth[i][c] > 0
      BY SMTT(30), <1>0, <1>3, <2>1, <2>2, <2>6
    <3>2. ASSUME c \notin leaked PROVE FALSE
      <4>1. i = j /\ depth[i][c] = 1
        BY Zenon, <3>1, <3>2, OnlyHolder
      <4> QED BY <1>3, <2>2, <2>6, <3>1, <4>1
    <3> QED BY Zenon, <1>4, <3>1, <3>2
  <2> QED BY Zenon, <1>2, <1>4, <2>3, <2>4, <2>5, <2>6, GivesBack
<1>5. CASE faults < MaxFaults /\ faults' = faults + 1 /\ leaked' = leaked \cup {c} /\ UNCHANGED depth
  <2>1. SchedulerTypeOK'
    BY SMTT(30), <1>0, <1>2, <1>3, <1>5, SchedulerAssumption DEF SchedulerTypeOK, return, release
  <2>2. \A i \in Jobs, d \in Conns : depth[i][d] <= depth[i][d]
    BY <1>0
  <2> QED BY Zenon, <1>2, <1>3, <1>5, <2>1, <2>2, GivesBack
<1>6. CASE c \in lost /\ UNCHANGED <<depth, leaked, faults>>
  <2>1. SchedulerTypeOK'
    BY Zenon, <1>0, <1>2, <1>6 DEF SchedulerTypeOK, return, release
  <2>2. \A i \in Jobs, d \in Conns : depth[i][d] <= depth[i][d]
    BY <1>0
  <2>3. \A i \in Jobs, d \in lockConn[l] : ~(depth[i][d] > 0)
    BY <1>3, <1>6 DEF SchedulerInv, DepthInv
  <2> QED BY Zenon, <1>2, <1>3, <1>6, <2>1, <2>2, <2>3, GivesBack
<1> QED BY Zenon, <1>1, <1>4, <1>5, <1>6

(* No lock changes hands, and who starts a run holds the lock already. *)
LEMMA DepthKept ==
  ASSUME SchedulerInv, reg' = reg, depth' = depth, leaked' = leaked, lost' \subseteq lost,
         \A k \in Loops : at'[k] \in Checked
           => at[k] \in Checked /\ \A d \in lockConn'[k] \ lost' : d \in lockConn[k] \ lost,
         \A k \in Loops : \A d \in lockConn[k] : at[k] # "tryLock" => d \in lockConn'[k] /\ at'[k] # "tryLock"
  PROVE  DepthInv'
<1>1. ASSUME NEW j \in Jobs, NEW c \in Conns, depth'[j][c] > 0, c \notin leaked'
      PROVE  \E k \in Loops : reg'[k].job = j /\ c \in lockConn'[k] /\ at'[k] # "tryLock"
  <2>1. PICK k \in Loops : reg[k].job = j /\ c \in lockConn[k] /\ at[k] # "tryLock"
    BY Zenon, <1>1 DEF SchedulerInv, DepthInv, LockHasReason
  <2> QED BY Zenon, <2>1
<1>2. ASSUME NEW k \in Loops, at'[k] \in Checked, NEW d \in lockConn'[k] \ lost' PROVE depth'[reg'[k].job][d] > 0
  BY Zenon, <1>2 DEF SchedulerInv, DepthInv
<1>3. \A j \in Jobs : \A c \in lost' : depth'[j][c] = 0
  BY Zenon DEF SchedulerInv, DepthInv
<1>4. /\ \A j \in Jobs : \A c, d \in Conns : depth'[j][c] > 0 /\ depth'[j][d] > 0 => c = d
      /\ \A j \in Jobs : \A c \in Conns : depth'[j][c] > 1 => c \in leaked'
  BY Zenon DEF SchedulerInv, DepthInv
<1>5. LockHasReason'
  BY Zenon, <1>1 DEF LockHasReason
<1> QED BY Zenon, <1>2, <1>3, <1>4, <1>5 DEF DepthInv

LEMMA AcquireStep ==
  ASSUME SchedulerInv, NEW l \in Loops, Acquire(l)
  PROVE  SchedulerInv'
<1> USE DEF requests
<1>0. SchedulerTypeOK /\ reg[l].replica \in Replicas /\ lockConn[l] = {}
      /\ UNCHANGED <<reg, requests, jobConn, lost, depth, leaked, faults>> /\ at[l] = "runOnce"
  BY Zenon, Registered DEF SchedulerInv, HoldInv, Checked, Acquire
<1>1. CASE UNCHANGED lockConn
  <2>1. SchedulerTypeOK'
    BY Zenon, <1>0, <1>1 DEF SchedulerTypeOK, Acquire, return
  <2>2. /\ at'[l] = "select" \/ (at'[l] = "job" /\ ~reg[l].singleton)
        /\ \A k \in Loops \ {l} : at'[k] = at[k]
    BY ZenonT(30), <1>0, <1>1 DEF SchedulerTypeOK, Acquire, return
  <2> QED BY Zenon, <1>0, <1>1, <2>1, <2>2, PoolsUntouched DEF pools, Checked
<1>2. ASSUME NEW c \in Offered(reg[l].replica), reg[l].singleton, lockConn' = [lockConn EXCEPT ![l] = @ \cup {c}],
             at' = [at EXCEPT ![l] = "tryLock"], UNCHANGED expired
      PROVE  SchedulerInv'
  <2>1. c \in Conns /\ \A k \in Loops : c \notin lockConn[k] /\ c \notin jobConn[k]
    BY Zenon, <1>0, OfferedFree
  <2>2. /\ lockConn'[l] = {c} /\ at'[l] = "tryLock"
        /\ \A k \in Loops \ {l} : lockConn'[k] = lockConn[k] /\ at'[k] = at[k]
    BY Zenon, <1>0, <1>2 DEF SchedulerTypeOK
  <2>3. SchedulerTypeOK'
    BY Zenon, <1>0, <1>2, <2>1 DEF SchedulerTypeOK
  <2>4. HoldInv'
    BY SMTT(30), <1>0, <1>2, <2>1, <2>2 DEF SchedulerInv, HoldInv
  <2>5. \A k \in Loops : at'[k] \in Checked => at[k] \in Checked /\ lockConn'[k] = lockConn[k]
    BY Zenon, <2>2 DEF Checked
  <2>6. DepthInv'
    BY Zenon, <1>0, <2>2, <2>5, DepthKept
  <2> QED BY Zenon, <2>3, <2>4, <2>6 DEF SchedulerInv
<1> QED BY Zenon, <1>1, <1>2 DEF Acquire

LEMMA JobStep ==
  ASSUME SchedulerInv, NEW l \in Loops, JobQueries(l) \/ JobEnds(l)
  PROVE  SchedulerInv'
<1> USE DEF requests
<1>0. SchedulerTypeOK /\ reg[l].replica \in Replicas
  BY Zenon, Registered DEF SchedulerInv
<1>1. CASE at[l] = "job" /\ at' = [at EXCEPT ![l] = "jobWaits"] /\ UNCHANGED jobConn /\ JobQueries(l)
  <2>1. SchedulerTypeOK' /\ UNCHANGED <<reg, pools>>
    BY Zenon, <1>0, <1>1 DEF SchedulerTypeOK, JobQueries, pools
  <2>2. at'[l] = "jobWaits" /\ \A k \in Loops \ {l} : at'[k] = at[k]
    BY Zenon, <1>0, <1>1 DEF SchedulerTypeOK
  <2> QED BY Zenon, <1>1, <2>1, <2>2, PoolsUntouched
<1>2. ASSUME NEW c \in Offered(reg[l].replica), jobConn' = [jobConn EXCEPT ![l] = {c}],
             at[l] = "jobWaits", at' = [at EXCEPT ![l] = "jobQueries"],
             UNCHANGED <<reg, requests, expired, lockConn, lost, depth, leaked, faults>>
      PROVE  SchedulerInv'
  <2>1. c \in Conns /\ \A k \in Loops : c \notin lockConn[k] /\ c \notin jobConn[k]
    BY Zenon, <1>0, OfferedFree
  <2>2. /\ jobConn'[l] = {c} /\ at'[l] = "jobQueries"
        /\ \A k \in Loops \ {l} : jobConn'[k] = jobConn[k] /\ at'[k] = at[k]
    BY Zenon, <1>0, <1>2 DEF SchedulerTypeOK
  <2>3. SchedulerTypeOK'
    BY Zenon, <1>0, <1>2, <2>1 DEF SchedulerTypeOK
  <2>4. HoldInv'
    BY SMTT(30), <1>2, <2>1, <2>2 DEF SchedulerInv, HoldInv, Checked
  <2>5. \A k \in Loops : /\ at'[k] \in Checked => at[k] \in Checked
                         /\ at'[k] = "tryLock" => at[k] = "tryLock"
    BY Zenon, <1>2, <2>2 DEF Checked
  <2>6. DepthInv'
    BY Zenon, <1>2, <2>5, DepthKept
  <2> QED BY Zenon, <2>3, <2>4, <2>6 DEF SchedulerInv
<1>3. CASE JobEnds(l)
  <2>1. /\ InJob(l) /\ jobConn'[l] = {} /\ lost' = lost \ jobConn[l]
        /\ at'[l] = IF reg[l].singleton THEN "unlock" ELSE "select"
        /\ \A k \in Loops \ {l} : jobConn'[k] = jobConn[k] /\ at'[k] = at[k]
        /\ UNCHANGED <<reg, requests, lockConn, depth, leaked, faults>>
    BY Zenon, <1>0, <1>3 DEF SchedulerTypeOK, JobEnds, release, return, InJob
  <2>2. SchedulerTypeOK'
    BY ZenonT(30), <1>0, <1>3 DEF SchedulerTypeOK, JobEnds, release, return
  <2>3. reg[l].singleton \/ lockConn[l] = {}
    BY Zenon, <2>1 DEF SchedulerInv, HoldInv, InJob, Checked
  <2>4. HoldInv'
    BY SMTT(30), <2>1, <2>3 DEF SchedulerInv, HoldInv, InJob, Checked
  <2>5. \A k \in Loops : /\ at'[k] \in Checked => at[k] \in Checked
                         /\ at'[k] = "tryLock" => at[k] = "tryLock"
    BY Zenon, <2>1 DEF InJob, Checked
  <2>6. \A k \in Loops : lockConn[k] \cap jobConn[l] = {}
    BY Zenon DEF SchedulerInv, HoldInv
  <2>7. DepthInv'
    BY Zenon, <2>1, <2>5, <2>6, DepthKept
  <2> QED BY Zenon, <2>2, <2>4, <2>7 DEF SchedulerInv
<1> QED BY Zenon, <1>1, <1>2, <1>3 DEF JobQueries

LEMMA SessionEndsStep ==
  ASSUME SchedulerInv, NEW c \in Conns, SessionEnds(c)
  PROVE  SchedulerInv'
<1> USE DEF requests
<1>0. SchedulerTypeOK /\ depth \in [Jobs -> [Conns -> Nat]]
  BY Zenon DEF SchedulerInv, SchedulerTypeOK
<1>1. /\ depth' \in [Jobs -> [Conns -> Nat]]
      /\ \A i \in Jobs, d \in Conns : depth'[i][d] = IF d = c THEN 0 ELSE depth[i][d]
      /\ leaked' = leaked \ {c}
      /\ lost \subseteq lost' /\ lost' \subseteq lost \cup {c}
      /\ \A l \in Loops : c \in lockConn[l] => c \in lost'
      /\ UNCHANGED <<reg, at, lockConn, jobConn>>
  BY SMTT(30), <1>0 DEF SessionEnds, CheckedOut
<1>2. SchedulerTypeOK'
  BY <1>0, <1>1, SchedulerAssumption DEF SchedulerTypeOK, SessionEnds
<1>3. HoldInv'
  BY <1>1 DEF SchedulerInv, HoldInv
<1>4. LockHasReason'
  BY SMTT(30), <1>0, <1>1 DEF SchedulerInv, DepthInv, LockHasReason
<1>5. ASSUME NEW k \in Loops, at[k] \in Checked, NEW d \in lockConn[k] \ lost'
      PROVE  depth'[reg[k].job][d] > 0
  <2>1. d # c /\ d \in Conns /\ d \notin lost /\ reg[k].job \in Jobs
    BY ZenonT(30), <1>0, <1>1, <1>5, Registered DEF SchedulerTypeOK
  <2>2. depth[reg[k].job][d] > 0
    BY Zenon, <1>5, <2>1 DEF SchedulerInv, DepthInv
  <2> QED BY Zenon, <1>1, <2>1, <2>2
<1>6. ASSUME NEW j \in Jobs, NEW d \in lost' PROVE depth'[j][d] = 0
  <2>1. d \in Conns /\ (d = c \/ d \in lost)
    BY Zenon, <1>0, <1>1, <1>6 DEF SchedulerTypeOK
  <2> QED BY SMTT(30), <1>1, <2>1 DEF SchedulerInv, DepthInv
<1>7. /\ \A j \in Jobs : \A d, e \in Conns : depth'[j][d] > 0 /\ depth'[j][e] > 0 => d = e
      /\ \A j \in Jobs : \A d \in Conns : depth'[j][d] > 1 => d \in leaked'
  BY SMTT(30), <1>1 DEF SchedulerInv, DepthInv
<1>8. DepthInv'
  BY Zenon, <1>1, <1>4, <1>5, <1>6, <1>7 DEF DepthInv
<1> QED BY Zenon, <1>2, <1>3, <1>8 DEF SchedulerInv

LEMMA SchedulerStep == SchedulerInv /\ (SchedulerNext \/ UNCHANGED schedulerVars) => SchedulerInv'
<1> SUFFICES ASSUME SchedulerInv, SchedulerNext \/ UNCHANGED schedulerVars PROVE SchedulerInv'
  OBVIOUS
<1> USE SchedulerAssumption DEF requests
<1>0. SchedulerTypeOK
  BY Zenon DEF SchedulerInv
<1>1. ASSUME NEW r \in Replicas, CancelStart(r) PROVE SchedulerInv'
  <2>1. SchedulerTypeOK' /\ UNCHANGED <<at, reg, pools>>
    BY Zenon, <1>0, <1>1 DEF CancelStart, SchedulerTypeOK, pools
  <2> QED BY Zenon, <2>1, PoolsUntouched
<1>2. ASSUME NEW l \in Loops, Kick(l) \/ TimesOut(l) PROVE SchedulerInv'
  <2>1. SchedulerTypeOK' /\ UNCHANGED <<at, reg, pools>>
    BY Zenon, <1>0, <1>2 DEF Kick, TimesOut, SchedulerTypeOK, pools
  <2> QED BY Zenon, <2>1, PoolsUntouched
<1>3. ASSUME NEW l \in Loops, JitterOver(l) \/ Tick(l) \/ Kicked(l) \/ Done(l) PROVE SchedulerInv'
  <2>1. SchedulerTypeOK' /\ UNCHANGED <<reg, pools>>
    BY Zenon, <1>0, <1>3 DEF JitterOver, Tick, Kicked, Done, begin, SchedulerTypeOK, pools
  <2>2. /\ at[l] \in {"jitter", "select"} /\ at'[l] \in {"runOnce", "stopped"}
        /\ \A k \in Loops \ {l} : at'[k] = at[k]
    BY Zenon, <1>0, <1>3 DEF JitterOver, Tick, Kicked, Done, begin, SchedulerTypeOK
  <2> QED BY Zenon, <2>1, <2>2, PoolsUntouched DEF Checked
<1>4. CASE UNCHANGED schedulerVars
  <2>1. SchedulerTypeOK' /\ UNCHANGED <<at, reg, pools>>
    BY Zenon, <1>0, <1>4 DEF schedulerVars, SchedulerTypeOK, pools
  <2> QED BY Zenon, <2>1, PoolsUntouched
<1> QED
  BY Zenon, <1>1, <1>2, <1>3, <1>4, AcquireStep, TryLockStep, JobStep, UnlockStep, SessionEndsStep
  DEF SchedulerNext, Proceed

LEMMA SchedulerInvGives == SchedulerInv => SchedulerContract
<1> SUFFICES ASSUME SchedulerInv PROVE SchedulerContract
  BY Zenon
<1>1. ConnectionsReturned
  BY Zenon DEF SchedulerInv, HoldInv, Checked, ConnectionsReturned
<1>2. ASSUME NEW k \in Loops, NEW l \in Loops, k # l, reg[k].job = reg[l].job,
             reg[k].singleton, reg[l].singleton, InJob(k), InJob(l)
      PROVE  (lockConn[k] \cup lockConn[l]) \cap lost # {}
  <2>1. at[k] \in Checked /\ at[l] \in Checked
    BY Zenon, <1>2 DEF InJob, Checked
  <2>2. PICK c \in lockConn[k], d \in lockConn[l] : c # d
    BY SMTT(30), <1>2, <2>1 DEF SchedulerInv, HoldInv
  <2>3. c \in Conns /\ d \in Conns /\ reg[l].job \in Jobs
    BY Zenon, <2>2, Registered DEF SchedulerInv, SchedulerTypeOK
  <2>4. ASSUME c \notin lost, d \notin lost PROVE FALSE
    <3>1. depth[reg[l].job][c] > 0 /\ depth[reg[l].job][d] > 0
      BY Zenon, <1>2, <2>1, <2>4 DEF SchedulerInv, DepthInv
    <3> QED BY Zenon, <2>2, <2>3, <3>1 DEF SchedulerInv, DepthInv
  <2> QED BY Zenon, <2>4
<1>3. OverlapOnlyAfterSessionLoss
  BY Zenon, <1>2 DEF OverlapOnlyAfterSessionLoss
<1> QED BY Zenon, <1>1, <1>3 DEF SchedulerInv, DepthInv, SchedulerContract

(***************************************************************************)
(* For any number of replicas, jobs and connections: the job of one name   *)
(* runs twice at a time only when the session under one of the runs has    *)
(* ended, every path of runOnce gives its connection back, and a lock that *)
(* is held has a run or a failed unlock behind it.                         *)
(***************************************************************************)
THEOREM SchedulerKept == SchedulerSpec => []SchedulerContract
<1>1. SchedulerInv /\ [SchedulerNext]_schedulerVars => SchedulerInv'
  BY Zenon, SchedulerStep
<1> QED BY <1>1, InitScheduler, SchedulerInvGives, PTL DEF SchedulerSpec

-----------------------------------------------------------------------------
(***************************************************************************)
(* redis.Mutex and redis.Allow                                             *)
(***************************************************************************)

(* Tokens are never shared, and a client inside within its lease has the   *)
(* token that is stored at the key.                                        *)
MutexInv ==
  /\ drawn \in 0..MaxTokens /\ lockKey \in 0..drawn
  /\ token \in [Clients -> 0..drawn]
  /\ overstayed \subseteq inside /\ inside \subseteq Clients
  /\ \A c, d \in Clients : token[c] # 0 /\ token[c] = token[d] => c = d
  /\ \A c \in inside \ overstayed : token[c] # 0 /\ token[c] = lockKey

(* At most one caller is between INCR and EXPIRE, and the call it has yet  *)
(* to admit is counted.                                                    *)
LimitInv ==
  /\ count \in 0..MaxHits /\ admitted \in Nat
  /\ hasTTL \in BOOLEAN /\ hitFault \in BOOLEAN
  /\ arming = {} \/ \E c \in Clients : arming = {c}
  /\ arming # {} => ~hasTTL /\ admitted < count /\ admitted < Limit
  /\ hasTTL => count > 0
  /\ admitted <= count /\ admitted <= Limit
  /\ OpenEndedOnlyAfterFault

LEMMA InitMutex == RedisInit => MutexInv /\ LimitInv
<1> SUFFICES ASSUME RedisInit PROVE MutexInv /\ LimitInv
  OBVIOUS
<1>1. MutexInv
  BY RedisAssumption DEF RedisInit, MutexInv
<1>2. hasTTL \in BOOLEAN /\ hitFault \in BOOLEAN /\ ~hasTTL /\ ~hitFault
  BY Zenon DEF RedisInit
<1>3. LimitInv
  BY SMTT(30), <1>2, RedisAssumption DEF RedisInit, LimitInv, OpenEndedOnlyAfterFault
<1> QED BY Zenon, <1>1, <1>3

LEMMA MutexStep == MutexInv /\ (MutexNext \/ UNCHANGED mutexVars) => MutexInv'
<1> SUFFICES ASSUME MutexInv, MutexNext \/ UNCHANGED mutexVars PROVE MutexInv'
  OBVIOUS
<1> USE DEF MutexInv
<1>1. ASSUME NEW c \in Clients, MutexLock(c) PROVE MutexInv'
  <2>1. drawn' = drawn + 1 /\ drawn' \in 0..MaxTokens /\ lockKey' \in 0..drawn'
    BY <1>1, RedisAssumption DEF MutexLock
  <2>2. CASE UNCHANGED <<token, inside>> /\ (lockKey = 0 \/ lockKey' = lockKey)
    BY SMTT(30), <1>1, <2>1, <2>2 DEF MutexLock
  <2>3. CASE lockKey = 0 /\ lockKey' = drawn + 1 /\ token' = [token EXCEPT ![c] = drawn + 1]
             /\ inside' = inside \cup {c}
    BY SMTT(30), <1>1, <2>1, <2>3 DEF MutexLock
  <2> QED BY Zenon, <1>1, <2>2, <2>3 DEF MutexLock
<1>2. ASSUME NEW c \in Clients, MutexUnlock(c) PROVE MutexInv'
  BY SMTT(30), <1>2 DEF MutexUnlock, unlockScript
<1>3. CASE LeaseEnds
  BY <1>3 DEF LeaseEnds
<1>4. CASE UNCHANGED mutexVars
  BY Zenon, <1>4 DEF mutexVars
<1> QED BY Zenon, <1>1, <1>2, <1>3, <1>4 DEF MutexNext

LEMMA LimitStep == LimitInv /\ (LimitNext \/ UNCHANGED limitVars) => LimitInv'
<1> SUFFICES ASSUME LimitInv, LimitNext \/ UNCHANGED limitVars PROVE LimitInv'
  OBVIOUS
<1> USE RedisAssumption DEF LimitInv, OpenEndedOnlyAfterFault
<1>1. ASSUME NEW c \in Clients, Hit(c) PROVE LimitInv'
  <2>1. count' = count + 1 /\ count' \in 0..MaxHits /\ UNCHANGED hasTTL
    BY <1>1 DEF Hit
  <2>2. CASE firstHit(count + 1) /\ arming' = arming \cup {c} /\ UNCHANGED <<admitted, hitFault>>
    BY <2>1, <2>2 DEF firstHit
  <2>3. CASE ~firstHit(count + 1) /\ admit(count + 1) /\ UNCHANGED <<arming, hitFault>>
    BY SMTT(30), <2>1, <2>3 DEF firstHit, admit
  <2>4. CASE hitFault' = (hitFault \/ firstHit(count + 1)) /\ UNCHANGED <<arming, admitted>>
    <3>1. hitFault' \in BOOLEAN /\ (hitFault' <=> hitFault \/ firstHit(count + 1))
      BY Zenon, <2>4 DEF firstHit
    <3> QED BY <2>1, <2>4, <3>1 DEF firstHit
  <2> QED BY Zenon, <1>1, <2>2, <2>3, <2>4 DEF Hit
<1>2. ASSUME NEW c \in Clients, Arm(c) PROVE LimitInv'
  <2>1. arming = {c} /\ arming' = {} /\ UNCHANGED count
    BY Zenon, <1>2 DEF Arm
  <2>2. CASE hasTTL' = TRUE /\ UNCHANGED hitFault
    <3>1. hasTTL' \in BOOLEAN /\ hasTTL'
      BY Zenon, <2>2
    <3>2. admitted' = admitted \/ admitted' = admitted + 1
      BY Zenon, <1>2, <2>2 DEF Arm, admit
    <3> QED BY <2>1, <2>2, <3>1, <3>2
  <2>3. CASE hitFault' = TRUE /\ UNCHANGED <<hasTTL, admitted>>
    <3>1. hitFault' \in BOOLEAN /\ hitFault'
      BY Zenon, <2>3
    <3> QED BY Zenon, <2>1, <2>3, <3>1
  <2> QED BY Zenon, <1>2, <2>2, <2>3 DEF Arm
<1>3. CASE WindowEnds
  <2>1. hasTTL /\ hasTTL' \in BOOLEAN /\ ~hasTTL' /\ hitFault' \in BOOLEAN
    BY Zenon, <1>3 DEF WindowEnds
  <2> QED BY <1>3, <2>1 DEF WindowEnds
<1>4. CASE UNCHANGED limitVars
  BY Zenon, <1>4 DEF limitVars
<1> QED BY Zenon, <1>1, <1>2, <1>3, <1>4 DEF LimitNext

LEMMA RedisInvGives == MutexInv /\ LimitInv => RedisContract
<1> SUFFICES ASSUME MutexInv, LimitInv PROVE RedisContract
  OBVIOUS
<1>1. (\A c, d \in arming : c = d) /\ arming \subseteq Clients
  BY Zenon DEF LimitInv
<1>2. RedisTypeOK
  BY <1>1, RedisAssumption DEF MutexInv, LimitInv, RedisTypeOK
<1>3. ExclusiveWhileLeased
  BY Zenon DEF MutexInv, ExclusiveWhileLeased
<1> QED BY Zenon, <1>2, <1>3 DEF LimitInv, AdmittedWithinLimit, RedisContract

(***************************************************************************)
(* For any number of clients, leases, lost replies and crashes the lock    *)
(* excludes while leases last, and Allow admits at most limit calls in a   *)
(* window.                                                                 *)
(***************************************************************************)
THEOREM RedisKept == RedisSpec => []RedisContract
<1>1. MutexInv /\ LimitInv /\ [RedisNext]_redisVars => (MutexInv /\ LimitInv)'
  <2>1. RedisNext => \/ MutexNext /\ UNCHANGED limitVars
                     \/ LimitNext /\ UNCHANGED mutexVars
    BY Zenon DEF RedisNext, MutexNext, LimitNext, LeaseEnds, MutexLock, MutexUnlock, WindowEnds, Hit, Arm
  <2> QED BY Zenon, <2>1, MutexStep, LimitStep DEF redisVars
<1> QED BY <1>1, InitMutex, RedisInvGives, PTL DEF RedisSpec

-----------------------------------------------------------------------------
(***************************************************************************)
(* The read-through helpers                                                *)
(***************************************************************************)

CacheTypes ==
  /\ impl \in {"memory", "redis"} /\ callTTL \in BOOLEAN
  /\ source \in 0..MaxVersion /\ dirty \in BOOLEAN
  /\ cpc \in [Callers -> {"idle", "get", "join", "recheck", "load", "set", "wait"}]
  /\ helper \in [Callers -> Helpers]
  /\ loaded \in [Callers -> 0..MaxVersion]
  /\ missed \subseteq Callers

EntryInv == entry \subseteq Entries /\ \A e, f \in entry : e = f

(* The leader of a flight is a caller of GetOrLoad past Do, and there is   *)
(* one as long as anybody waits.                                           *)
FlightInv ==
  /\ flight \subseteq Callers /\ \A c, d \in flight : c = d
  /\ \A c \in Callers :
       /\ cpc[c] \in {"join", "wait", "recheck"} => helper[c] = "GetOrLoad"
       /\ helper[c] = "GetOrLoad" /\ cpc[c] \in {"recheck", "load", "set"} => c \in flight
       /\ cpc[c] = "wait" => flight # {}
  /\ \A c \in flight : cpc[c] \in {"recheck", "load", "set"} /\ helper[c] = "GetOrLoad"

(* Outside a change, what is stored or about to be stored is the data, or  *)
(* was read before a Delete.                                               *)
FreshInv ==
  ~dirty => /\ \A e \in entry : e.version = source \/ e.raced
            /\ \A c \in Callers : cpc[c] = "set" => loaded[c] = source \/ c \in missed

CacheInv == CacheTypes /\ EntryInv /\ FlightInv /\ FreshInv

LEMMA InitCache == CacheInit => CacheInv
<1> SUFFICES ASSUME CacheInit PROVE CacheInv
  OBVIOUS
<1>1. callTTL \in BOOLEAN /\ dirty \in BOOLEAN
  BY Zenon DEF CacheInit
<1> QED
  BY <1>1, CacheAssumption DEF CacheInit, CacheInv, CacheTypes, EntryInv, FlightInv, FreshInv, Helpers

(* Returning callers leave the types as they are and store nothing later. *)
LEMMA LeaveKeeps ==
  ASSUME NEW C, CacheTypes, leave(C)
  PROVE  /\ cpc' \in [Callers -> {"idle", "get", "join", "recheck", "load", "set", "wait"}]
         /\ helper' \in [Callers -> Helpers] /\ loaded' \in [Callers -> 0..MaxVersion]
         /\ missed' \subseteq Callers
         /\ \A d \in Callers : cpc'[d] = (IF d \in C THEN "idle" ELSE cpc[d])
         /\ \A d \in Callers \ C : /\ helper'[d] = helper[d] /\ loaded'[d] = loaded[d]
                                   /\ d \in missed' <=> d \in missed
BY SMTT(30), CacheAssumption DEF CacheTypes, leave, Helpers

LEMMA LandKeeps ==
  ASSUME NEW c \in Callers, CacheTypes, FlightInv, land(c)
  PROVE  /\ FlightInv'
         /\ cpc' \in [Callers -> {"idle", "get", "join", "recheck", "load", "set", "wait"}]
         /\ helper' \in [Callers -> Helpers] /\ loaded' \in [Callers -> 0..MaxVersion]
         /\ missed' \subseteq Callers
         /\ \A d \in Callers : cpc'[d] = "set" =>
              cpc[d] = "set" /\ loaded'[d] = loaded[d] /\ (d \in missed' <=> d \in missed)
<1>1. CASE c \in flight
  <2> DEFINE C == {c} \cup {d \in Callers : cpc[d] = "wait"}
  <2>1. leave(C) /\ flight' = {}
    BY Zenon, <1>1 DEF land
  <2>2. flight = {c}
    BY Zenon, <1>1 DEF FlightInv
  <2> HIDE DEF C
  <2>3. \A d \in Callers : d \in C <=> d = c \/ cpc[d] = "wait"
    BY Zenon DEF C
  <2>4. FlightInv'
    BY SMTT(30), <2>1, <2>2, <2>3, LeaveKeeps DEF FlightInv
  <2> QED BY Zenon, <2>1, <2>4, LeaveKeeps
<1>2. CASE c \notin flight
  <2>1. leave({c}) /\ flight' = flight
    BY Zenon, <1>2 DEF land
  <2>2. FlightInv'
    BY SMTT(30), <1>2, <2>1, LeaveKeeps DEF FlightInv
  <2> QED BY Zenon, <2>1, <2>2, LeaveKeeps
<1> QED BY Zenon, <1>1, <1>2

LEMMA CacheStep == CacheInv /\ (CacheNext \/ UNCHANGED cacheVars) => CacheInv'
<1> SUFFICES ASSUME CacheInv, CacheNext \/ UNCHANGED cacheVars PROVE CacheInv'
  OBVIOUS
<1> USE CacheAssumption DEF setting, CacheInv
<1>1. ASSUME NEW c \in Callers, Call(c) PROVE CacheInv'
  BY SMTT(30), <1>1 DEF Call, CacheTypes, EntryInv, FlightInv, FreshInv
<1>2. ASSUME NEW c \in Callers, Get(c) PROVE CacheInv'
  <2>1. entry' \subseteq entry /\ UNCHANGED <<impl, callTTL, source, dirty, flight>>
    BY Zenon, <1>2 DEF Get, afterGet, Visible
  <2>2. CASE leave({c})
    <3>1. FlightInv'
      BY SMTT(30), <1>2, <2>2, LeaveKeeps DEF Get, FlightInv
    <3>2. FreshInv'
      BY Zenon, <2>1, <2>2, LeaveKeeps DEF FreshInv
    <3> QED BY Zenon, <2>1, <2>2, <3>1, <3>2, LeaveKeeps DEF CacheTypes, EntryInv
  <2>3. CASE go(c, IF helper[c] = "GetOrLoad" THEN "join" ELSE "load")
    BY SMTT(30), <1>2, <2>1, <2>3 DEF Get, go, CacheTypes, EntryInv, FlightInv, FreshInv
  <2> QED BY Zenon, <1>2, <2>2, <2>3 DEF Get
<1>3. ASSUME NEW c \in Callers, Join(c) PROVE CacheInv'
  <2>1. CacheTypes' /\ EntryInv' /\ FreshInv'
    BY ZenonT(30), <1>3 DEF Join, go, CacheTypes, EntryInv, FreshInv
  <2>2. FlightInv'
    BY SMTT(30), <1>3 DEF Join, go, CacheTypes, FlightInv
  <2> QED BY Zenon, <2>1, <2>2
<1>4. ASSUME NEW c \in Callers, Recheck(c) PROVE CacheInv'
  <2>1. entry' \subseteq entry /\ UNCHANGED <<impl, callTTL, source, dirty>>
    BY Zenon, <1>4 DEF Recheck, afterGet, Visible
  <2>2. CASE land(c)
    BY Zenon, <2>1, <2>2, LandKeeps DEF CacheTypes, EntryInv, FreshInv
  <2>3. CASE go(c, "load") /\ UNCHANGED flight
    BY SMTT(30), <1>4, <2>1, <2>3 DEF Recheck, go, CacheTypes, EntryInv, FlightInv, FreshInv
  <2> QED BY Zenon, <1>4, <2>2, <2>3 DEF Recheck
<1>5. ASSUME NEW c \in Callers, Load(c) PROVE CacheInv'
  <2>1. CASE land(c)
    BY Zenon, <1>5, <2>1, LandKeeps DEF Load, CacheTypes, EntryInv, FreshInv
  <2>2. CASE /\ cpc' = [cpc EXCEPT ![c] = "set"] /\ loaded' = [loaded EXCEPT ![c] = source]
             /\ UNCHANGED <<helper, missed, flight>>
    BY SMTT(30), <1>5, <2>2 DEF Load, CacheTypes, EntryInv, FlightInv, FreshInv
  <2> QED BY Zenon, <1>5, <2>1, <2>2 DEF Load
<1>6. ASSUME NEW c \in Callers, Store(c) PROVE CacheInv'
  <2>1. land(c) /\ UNCHANGED <<impl, callTTL, source, dirty>>
    BY Zenon, <1>6 DEF Store
  <2>2. CASE UNCHANGED entry
    BY Zenon, <2>1, <2>2, LandKeeps DEF CacheTypes, EntryInv, FreshInv
  <2>3. CASE Set(loaded[c], c \in missed)
    <3> DEFINE e == [version |-> loaded[c], ttl |-> ttlOf, raced |-> (c \in missed)]
    <3>1. entry' = {e}
      BY Zenon, <2>3 DEF Set
    <3>2. e \in Entries /\ e.version = loaded[c] /\ (e.raced <=> c \in missed)
      <4>1. (c \in missed) \in BOOLEAN
        OBVIOUS
      <4>2. loaded[c] \in 0..MaxVersion /\ ttlOf \in {"live", "over", "none"}
        BY Zenon DEF CacheTypes, ttlOf
      <4> QED BY Zenon, <4>1, <4>2 DEF Entries
    <3> HIDE DEF e
    <3>3. ~dirty => e.version = source \/ e.raced
      BY Zenon, <1>6, <3>2 DEF Store, FreshInv
    <3> QED BY Zenon, <2>1, <3>1, <3>2, <3>3, LandKeeps DEF CacheTypes, EntryInv, FreshInv
  <2> QED BY Zenon, <1>6, <2>2, <2>3 DEF Store
<1>7. CASE EntryExpires
  <2>1. PICK e \in entry : entry' = IF impl = "redis" THEN {} ELSE {[e EXCEPT !.ttl = "over"]}
    BY Zenon, <1>7 DEF EntryExpires
  <2>2. e \in Entries
    BY Zenon DEF EntryInv
  <2>3. /\ [e EXCEPT !.ttl = "over"] \in Entries
        /\ [e EXCEPT !.ttl = "over"].version = e.version
        /\ [e EXCEPT !.ttl = "over"].raced = e.raced
    BY Zenon, <2>2 DEF Entries
  <2> QED
    BY ZenonT(30), <1>7, <2>1, <2>2, <2>3 DEF EntryExpires, CacheTypes, EntryInv, FlightInv, FreshInv
<1>8. CASE Change
  <2>1. dirty' /\ dirty' \in BOOLEAN
    BY Zenon, <1>8 DEF Change
  <2> QED BY <1>8, <2>1 DEF Change, CacheTypes, EntryInv, FlightInv, FreshInv
<1>9. CASE Invalidate
  <2>1. dirty' \in BOOLEAN
    BY Zenon, <1>9 DEF Invalidate
  <2> QED BY Zenon, <1>9, <2>1 DEF Invalidate, Delete, CacheTypes, EntryInv, FlightInv, FreshInv
<1>10. CASE UNCHANGED cacheVars
  BY Zenon, <1>10 DEF cacheVars, CacheTypes, EntryInv, FlightInv, FreshInv
<1> QED
  BY Zenon, <1>1, <1>2, <1>3, <1>4, <1>5, <1>6, <1>7, <1>8, <1>9, <1>10 DEF CacheNext, CallStep

LEMMA CacheInvGives == CacheInv => CacheContract
<1> SUFFICES ASSUME CacheInv PROVE CacheContract
  OBVIOUS
<1>1. (\A e, f \in entry : e = f) /\ \A c, d \in flight : c = d
  BY Zenon DEF CacheInv, EntryInv, FlightInv
<1>2. CacheTypeOK
  BY Zenon, <1>1 DEF CacheInv, CacheTypes, EntryInv, FlightInv, CacheTypeOK
<1>3. OneLoadPerKey
  BY Zenon DEF CacheInv, FlightInv, OneLoadPerKey
<1>4. StaleOnlyByRace
  BY Zenon DEF CacheInv, FreshInv, StaleOnlyByRace, Visible
<1> QED BY Zenon, <1>2, <1>3, <1>4 DEF CacheContract

(***************************************************************************)
(* For any number of callers: GetOrLoad runs one load per key at a time,   *)
(* nobody waits without a leader, and the cache shows an old value after a *)
(* Delete only when a load in flight stored what it had read before.       *)
(***************************************************************************)
THEOREM CacheKept == CacheSpec => []CacheContract
<1>1. CacheInv /\ [CacheNext]_cacheVars => CacheInv'
  BY Zenon, CacheStep
<1> QED BY <1>1, InitCache, CacheInvGives, PTL DEF CacheSpec

-----------------------------------------------------------------------------
(***************************************************************************)
(* rabbitmq.Client                                                         *)
(***************************************************************************)

(* connect dials in the pause after a drop and nowhere else. *)
LinkInv ==
  /\ conn \in {"up", "down"} /\ channel \in {"open", "closed"}
  /\ dialled \in BOOLEAN /\ done \in BOOLEAN /\ quiet \in BOOLEAN
  /\ loopAt \in {"register", "deaf", "watch", "pause", "ended"}
  /\ stray = 0
  /\ dialled => loopAt = "pause"
  /\ loopAt = "pause" => conn = "down"

(* What a call in progress has declared is there, so the queue comes after *)
(* the places of its dead letters.                                         *)
TopologyInv ==
  /\ topology \subseteq Declared /\ declaring \in 0..7
  /\ declaring \in 2..6 => "dlx" \in topology
  /\ declaring \in 3..6 => "dlq" \in topology
  /\ declaring \in 4..6 => "bindDlq" \in topology
  /\ "queue" \in topology => {"dlx", "dlq", "bindDlq"} \subseteq topology

MessageInv ==
  /\ consumer \in {"none", "running", "handling", "over"}
  /\ message \in {"none", "queue", "unacked", "acked", "dlq", "unroutable"}
  /\ message = "unacked" => consumer = "handling" /\ channel = "open"
  /\ message \in {"queue", "unacked"} => "queue" \in topology

RabbitInv == LinkInv /\ TopologyInv /\ MessageInv

LEMMA StepsAre ==
  /\ Steps[1] = "exchange" /\ Steps[2] = "dlx" /\ Steps[3] = "dlq"
  /\ Steps[4] = "bindDlq" /\ Steps[5] = "queue" /\ Steps[6] = "bindQueue"
BY Zenon DEF Steps

LEMMA InitRabbit == RabbitInit => RabbitInv
<1> SUFFICES ASSUME RabbitInit PROVE RabbitInv
  OBVIOUS
<1>1. dialled \in BOOLEAN /\ done \in BOOLEAN /\ quiet \in BOOLEAN /\ ~dialled
  BY Zenon DEF RabbitInit
<1> QED BY <1>1 DEF RabbitInit, RabbitInv, LinkInv, TopologyInv, MessageInv

LEMMA RabbitStep == RabbitInv /\ (RabbitNext \/ UNCHANGED rabbitVars) => RabbitInv'
<1> SUFFICES ASSUME RabbitInv, RabbitNext \/ UNCHANGED rabbitVars PROVE RabbitInv'
  OBVIOUS
<1> USE DEF RabbitInv, link, traffic
<1>1. ASSUME channelCloses PROVE TopologyInv' /\ MessageInv' /\ channel' = "closed"
  BY <1>1 DEF channelCloses, TopologyInv, MessageInv
<1>2. CASE ConnectionDrops
  BY Zenon, <1>1, <1>2 DEF ConnectionDrops, LinkInv
<1>3. CASE ChannelException
  BY Zenon, <1>1, <1>3 DEF ChannelException, LinkInv
<1>4. CASE Close
  <2>1. done' \in BOOLEAN
    BY Zenon, <1>4 DEF Close
  <2> QED BY Zenon, <1>1, <1>4, <2>1 DEF Close, LinkInv
<1>5. CASE Quieten
  <2>1. quiet' \in BOOLEAN
    BY Zenon, <1>5 DEF Quieten
  <2> QED BY <1>5, <2>1 DEF Quieten, LinkInv, TopologyInv, MessageInv
<1>6. CASE RegisterNotify \/ NotOk \/ NoticeDrop \/ DoneSeen
  <2>1. TopologyInv' /\ MessageInv'
    BY SMTT(30), <1>6 DEF RegisterNotify, NotOk, NoticeDrop, DoneSeen, TopologyInv, MessageInv
  <2>2. LinkInv'
    BY SMTT(30), <1>6 DEF RegisterNotify, NotOk, NoticeDrop, DoneSeen, LinkInv
  <2> QED BY Zenon, <2>1, <2>2
<1>7. CASE Dial \/ NoChannel
  <2>1. dialled' \in BOOLEAN
    BY Zenon, <1>7 DEF Dial, NoChannel
  <2> QED BY <1>7, <2>1 DEF Dial, NoChannel, LinkInv, TopologyInv, MessageInv
<1>8. CASE Install
  <2>1. dialled' \in BOOLEAN /\ ~dialled'
    BY Zenon, <1>8 DEF Install
  <2> QED BY <1>8, <2>1 DEF Install, LinkInv, TopologyInv, MessageInv
<1>9. CASE DeclareQueueWithDLQ
  <2>1. LinkInv' /\ topology \subseteq topology' /\ UNCHANGED <<channel, consumer, message>>
    BY Zenon, <1>9 DEF DeclareQueueWithDLQ, LinkInv
  <2>2. MessageInv'
    BY Zenon, <2>1 DEF MessageInv
  <2>3. CASE declaring \in {6, 7} /\ UNCHANGED topology /\ declaring' \in {0, 7}
    BY SMTT(30), <2>1, <2>2, <2>3 DEF TopologyInv
  <2>4. CASE /\ declaring < 6 /\ declaring' = declaring + 1
             /\ topology' = topology \cup {Step(declaring + 1)}
    <3>1. Step(declaring + 1) \in Declared
      BY <2>4 DEF Step, Declared, TopologyInv
    <3>2. declaring \in 0..5
      BY SMTT(30), <2>4 DEF TopologyInv
    <3>3. CASE declaring = 0
      BY SMTT(30), <2>1, <2>2, <2>4, <3>1, <3>3, StepsAre DEF Step, TopologyInv
    <3>4. CASE declaring = 1
      BY SMTT(30), <2>1, <2>2, <2>4, <3>1, <3>4, StepsAre DEF Step, TopologyInv
    <3>5. CASE declaring = 2
      BY SMTT(30), <2>1, <2>2, <2>4, <3>1, <3>5, StepsAre DEF Step, TopologyInv
    <3>6. CASE declaring = 3
      BY SMTT(30), <2>1, <2>2, <2>4, <3>1, <3>6, StepsAre DEF Step, TopologyInv
    <3>7. CASE declaring = 4
      BY SMTT(30), <2>1, <2>2, <2>4, <3>1, <3>7, StepsAre DEF Step, TopologyInv
    <3>8. CASE declaring = 5
      BY SMTT(30), <2>1, <2>2, <2>4, <3>1, <3>8, StepsAre DEF Step, TopologyInv
    <3> QED BY SMTT(30), <3>2, <3>3, <3>4, <3>5, <3>6, <3>7, <3>8
  <2> QED BY Zenon, <1>9, <2>1, <2>2, <2>3, <2>4 DEF DeclareQueueWithDLQ
<1>10. CASE Publish \/ Consume \/ HandleDelivery
  <2>1. LinkInv' /\ TopologyInv' /\ UNCHANGED <<channel, topology>>
    BY SMTT(30), <1>10 DEF Publish, Consume, HandleDelivery, LinkInv, TopologyInv
  <2>2. MessageInv'
    BY Zenon, <1>10, <2>1 DEF Publish, Consume, HandleDelivery, MessageInv
  <2> QED BY Zenon, <2>1, <2>2
<1>11. CASE Settle
  <2>1. LinkInv' /\ TopologyInv' /\ UNCHANGED <<channel, topology>>
    BY SMTT(30), <1>11 DEF Settle, LinkInv, TopologyInv
  <2>2. MessageInv'
    BY Zenon, <1>11, <2>1 DEF Settle, deadLettered, MessageInv, TopologyInv
  <2> QED BY ZenonT(30), <2>1, <2>2
<1>12. CASE UNCHANGED rabbitVars
  BY <1>12 DEF rabbitVars, LinkInv, TopologyInv, MessageInv
<1> QED
  BY Zenon, <1>2, <1>3, <1>4, <1>5, <1>6, <1>7, <1>8, <1>9, <1>10, <1>11, <1>12 DEF RabbitNext, Reconnect

LEMMA RabbitInvGives == RabbitInv => RabbitContract
<1> SUFFICES ASSUME RabbitInv PROVE RabbitContract
  OBVIOUS
<1>1. RabbitTypeOK
  BY DEF RabbitInv, LinkInv, TopologyInv, MessageInv, RabbitTypeOK
<1>2. DeadLettersKept /\ OneConnection
  BY Zenon DEF RabbitInv, LinkInv, MessageInv, DeadLettersKept, OneConnection
<1> QED BY Zenon, <1>1, <1>2 DEF RabbitContract

(***************************************************************************)
(* However connections and channels drop while DeclareQueueWithDLQ runs or *)
(* is repeated, a message the queue took is never lost by a Nack, and the  *)
(* reconnect loop never holds a second connection.                         *)
(***************************************************************************)
THEOREM RabbitKept == RabbitSpec => []RabbitContract
<1>1. RabbitInv /\ [RabbitNext]_rabbitVars => RabbitInv'
  BY Zenon, RabbitStep
<1> QED BY <1>1, InitRabbit, RabbitInvGives, PTL DEF RabbitSpec
=============================================================================
