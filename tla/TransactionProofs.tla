------------------------- MODULE TransactionProofs --------------------------
(***************************************************************************)
(* What the database commits, proved for any number of calls, events,      *)
(* dispatchers and migration files: the transactions, the outbox whose     *)
(* rows they insert, and the migrations of the schema.                     *)
(***************************************************************************)
EXTENDS OutboxRefinement, Transactions, Migrations, Integers, FiniteSetTheorems,
        TLAPS

(***************************************************************************)
(* Outbox                                                                  *)
(***************************************************************************)

(* d will not deliver e again: it has just delivered it, or e is stamped   *)
(* and d has no stale claim on it.                                         *)
Settled(d, e) == e \in current[d] \/ (e \in sent /\ e \notin batch[d] /\ e \notin locked[d])

(***************************************************************************)
(* The inductive invariant behind OneCopyPerFailure.  A row that d may     *)
(* still deliver has cost one failure per delivery so far; a row locked by *)
(* a running fetch is unstamped, which holds because MarkSent waits for    *)
(* the lock.                                                               *)
(***************************************************************************)
CopyInv ==
  \A d \in Dispatchers :
    /\ locked[d] \cap sent = {}
    /\ current[d] \cap batch[d] = {}
    /\ \A e \in Events :
         copies[d][e] <= excused[d][e] + (IF Settled(d, e) THEN 1 ELSE 0)

(* Dispatchers only hold committed rows; a row about to be stamped was     *)
(* delivered or is one that the callback skips.                            *)
ClaimInv ==
  \A d \in Dispatchers :
    /\ locked[d] \cup batch[d] \cup current[d] \subseteq Committed
    /\ current[d] \subseteq Delivered \cup Unpublishable

LEMMA OldestSubset ==
  ASSUME NEW n, NEW rows PROVE Oldest(n, rows) \subseteq rows
BY Zenon DEF Oldest

LEMMA TypeInit == Init => TypeOK
BY SMTT(30), OutboxAssumption DEF Init, TypeOK, Count

LEMMA TypeNext == TypeOK /\ [Next]_vars => TypeOK'
<1> SUFFICES ASSUME TypeOK, [Next]_vars PROVE TypeOK'
  OBVIOUS
<1> USE DEF TypeOK, Count
<1>1. ASSUME NEW e \in Events, Insert(e) PROVE TypeOK'
  <2>1. Cardinality({f \in Events : tx[f] # "none"}) \in Nat
    BY Zenon, OutboxAssumption, FS_Subset, FS_CardinalityType
  <2> QED BY <1>1, <2>1 DEF Insert, drainVars
<1>2. ASSUME NEW e \in Events, EndTx(e) PROVE TypeOK'
  BY SMTT(30), <1>2 DEF EndTx, drainVars
<1>3. ASSUME NEW e \in Events, NEW d \in Dispatchers, Kick(e, d) PROVE TypeOK'
  BY Zenon, <1>3 DEF Kick, drainVars
<1>4. ASSUME NEW d \in Dispatchers, WakeOnTick(d) \/ WakeOnKick(d) \/ Restart(d) PROVE TypeOK'
  BY ZenonT(30), <1>4 DEF WakeOnTick, WakeOnKick, Restart, drainVars, writer
<1>5. ASSUME NEW d \in Dispatchers, FetchLocks(d) PROVE TypeOK'
  <2>1. Oldest(Batch, Claimable) \subseteq Events
    BY Zenon, OldestSubset DEF Claimable, Committed
  <2> QED BY Zenon, <1>5, <2>1 DEF FetchLocks, writer
<1>6. ASSUME NEW d \in Dispatchers, FetchReturns(d) PROVE TypeOK'
  BY Zenon, <1>6 DEF FetchReturns, writer
<1>7. ASSUME NEW d \in Dispatchers, FetchFails(d) PROVE TypeOK'
  BY Zenon, <1>7 DEF FetchFails, giveUp, writer
<1>8. ASSUME NEW d \in Dispatchers, Publish(d) PROVE TypeOK'
  BY <1>8 DEF Publish, writer
<1>9. ASSUME NEW d \in Dispatchers, PublishFails(d) PROVE TypeOK'
  BY Zenon, <1>9 DEF PublishFails, giveUp, writer
<1>10. ASSUME NEW d \in Dispatchers, PublishUnknown(d) PROVE TypeOK'
  BY <1>10 DEF PublishUnknown, giveUp, excuse, writer
<1>11. ASSUME NEW d \in Dispatchers, MarkSent(d) PROVE TypeOK'
  BY Zenon, <1>11 DEF MarkSent, afterRow, writer
<1>12. ASSUME NEW d \in Dispatchers, MarkSentFails(d) PROVE TypeOK'
  BY <1>12 DEF MarkSentFails, giveUp, excuse, writer
<1>13. ASSUME NEW d \in Dispatchers, Crash(d) PROVE TypeOK'
  BY <1>13 DEF Crash, excuse, writer
<1>14. CASE BrokerFlips \/ BecomeCalm \/ UNCHANGED vars
  BY ZenonT(30), <1>14 DEF BrokerFlips, BecomeCalm, Environment, vars, writer, drainVars
<1> QED
  BY Zenon, <1>1, <1>2, <1>3, <1>4, <1>5, <1>6, <1>7, <1>8, <1>9, <1>10, <1>11, <1>12,
     <1>13, <1>14 DEF Next, Drain

LEMMA CopyInit == Init => CopyInv
BY DEF Init, CopyInv, Settled

LEMMA CopyNext == TypeOK /\ CopyInv /\ [Next]_vars => CopyInv'
<1> SUFFICES ASSUME TypeOK, CopyInv, [Next]_vars PROVE CopyInv'
  OBVIOUS
<1> USE DEF TypeOK, Count, CopyInv, Settled
<1>1. ASSUME NEW e \in Events, Insert(e) \/ EndTx(e) \/ (\E d \in Dispatchers : Kick(e, d))
      PROVE CopyInv'
  BY ZenonT(30), <1>1 DEF Insert, EndTx, Kick, drainVars
<1>4. ASSUME NEW d \in Dispatchers,
             WakeOnTick(d) \/ WakeOnKick(d) \/ Restart(d)
      PROVE  CopyInv'
  BY ZenonT(30), <1>4 DEF WakeOnTick, WakeOnKick, Restart, drainVars
<1>5. ASSUME NEW d \in Dispatchers, FetchLocks(d) PROVE CopyInv'
  <2>1. Oldest(Batch, Claimable) \cap sent = {}
    BY Zenon, OldestSubset DEF Claimable
  <2> QED BY ZenonT(30), <1>5, <2>1 DEF FetchLocks
<1>6. ASSUME NEW d \in Dispatchers, FetchReturns(d) PROVE CopyInv'
  BY ZenonT(30), <1>6 DEF FetchReturns
<1>7. ASSUME NEW d \in Dispatchers, FetchFails(d) \/ PublishFails(d) PROVE CopyInv'
  <2>1. current[d] = {} /\ UNCHANGED <<sent, copies, excused>>
    BY Zenon, <1>7 DEF FetchFails, PublishFails
  <2>2. current' = current /\ batch' = [batch EXCEPT ![d] = {}]
    <3>1. giveUp(d)
      BY Zenon, <1>7 DEF FetchFails, PublishFails
    <3> QED BY Zenon, <2>1, <3>1 DEF giveUp
  <2>3. locked' = locked \/ locked' = [locked EXCEPT ![d] = {}]
    BY Zenon, <1>7 DEF FetchFails, PublishFails
  <2> QED BY <2>1, <2>2, <2>3
<1>8. ASSUME NEW d \in Dispatchers, Publish(d) PROVE CopyInv'
  <2>1. PICK e \in batch[d] :
          /\ batch' = [batch EXCEPT ![d] = @ \ {e}]
          /\ current' = [current EXCEPT ![d] = {e}]
          /\ copies' = IF e \in Unpublishable THEN copies
                                              ELSE [copies EXCEPT ![d][e] = @ + 1]
    BY Zenon, <1>8 DEF Publish
  <2>2. current[d] = {} /\ UNCHANGED <<sent, locked, excused>>
    BY Zenon, <1>8 DEF Publish
  <2>3. SUFFICES ASSUME NEW x \in Dispatchers, NEW f \in Events
                 PROVE  copies'[x][f] <= excused[x][f] + (IF Settled(x, f)' THEN 1 ELSE 0)
    BY <2>1, <2>2
  <2>4. CASE x = d /\ f = e
    <3>1. ~Settled(x, f) /\ Settled(x, f)'
      BY ZenonT(30), <2>1, <2>2, <2>4
    <3>2. copies[x][f] <= excused[x][f]
      BY <3>1
    <3>3. copies'[x][f] <= copies[x][f] + 1
      BY <2>1, <2>4
    <3>4. copies'[x][f] \in Nat
      BY <2>1, <2>4
    <3> QED BY <3>1, <3>2, <3>3, <3>4
  <2>5. CASE ~(x = d /\ f = e)
    <3>1. Settled(x, f)' <=> Settled(x, f)
      BY ZenonT(30), <2>1, <2>2, <2>5
    <3>2. copies'[x][f] = copies[x][f]
      BY <2>1, <2>5
    <3> QED BY Zenon, <3>1, <3>2
  <2> QED BY Zenon, <2>4, <2>5
<1>10. ASSUME NEW d \in Dispatchers, PublishUnknown(d) PROVE CopyInv'
  <2>1. PICK e \in batch[d] \ Unpublishable :
          copies' = [copies EXCEPT ![d][e] = @ + 1] /\ excuse(d, {e})
    BY Zenon, <1>10 DEF PublishUnknown
  <2>2. current[d] = {} /\ UNCHANGED <<sent, locked>>
    BY Zenon, <1>10 DEF PublishUnknown
  <2>3. current' = current /\ batch' = [batch EXCEPT ![d] = {}]
    BY Zenon, <1>10, <2>2 DEF PublishUnknown, giveUp
  <2>4. SUFFICES ASSUME NEW x \in Dispatchers, NEW f \in Events
                 PROVE  copies'[x][f] <= excused'[x][f] + (IF Settled(x, f)' THEN 1 ELSE 0)
    BY Zenon, <2>2, <2>3
  <2>5. Settled(x, f) => Settled(x, f)'
    BY Zenon, <2>2, <2>3
  <2>6. copies'[x][f] - copies[x][f] = excused'[x][f] - excused[x][f]
    BY <2>1 DEF excuse
  <2>7. excused'[x][f] \in Nat /\ copies'[x][f] \in Nat
    BY <2>1 DEF excuse
  <2> QED BY <2>5, <2>6, <2>7
<1>11. ASSUME NEW d \in Dispatchers, MarkSent(d) PROVE CopyInv'
  BY <1>11 DEF MarkSent, Locked
<1>12. ASSUME NEW d \in Dispatchers, MarkSentFails(d) PROVE CopyInv'
  BY <1>12 DEF MarkSentFails, giveUp, excuse
<1>13. ASSUME NEW d \in Dispatchers, Crash(d) PROVE CopyInv'
  BY <1>13 DEF Crash, excuse
<1>14. CASE BrokerFlips \/ BecomeCalm \/ UNCHANGED vars
  BY ZenonT(30), <1>14 DEF BrokerFlips, BecomeCalm, vars, drainVars
<1> QED
  BY ZenonT(30), <1>1, <1>4, <1>5, <1>6, <1>7, <1>8, <1>10, <1>11, <1>12, <1>13, <1>14
     DEF Next, Drain

(* Transactions do not uncommit, and copies are only ever added. *)
LEMMA Monotone ==
  ASSUME TypeOK, [Next]_vars
  PROVE  Committed \subseteq Committed' /\ Delivered \subseteq Delivered'
<1> USE DEF TypeOK, Count
<1>1. ASSUME NEW e \in Events, Insert(e) \/ EndTx(e) \/ (\E d \in Dispatchers : Kick(e, d))
      PROVE  Committed \subseteq Committed' /\ Delivered \subseteq Delivered'
  <2>1. UNCHANGED copies
    BY Zenon, <1>1 DEF Insert, EndTx, Kick
  <2>2. Committed \subseteq Committed'
    BY ZenonT(30), <1>1 DEF Insert, EndTx, Kick, Committed
  <2> QED BY Zenon, <2>1, <2>2 DEF Delivered
<1>2. ASSUME NEW d \in Dispatchers, Publish(d) \/ PublishUnknown(d)
      PROVE  Committed \subseteq Committed' /\ Delivered \subseteq Delivered'
  <2>1. UNCHANGED writer
    BY Zenon, <1>2 DEF Publish, PublishUnknown
  <2>2. copies' = copies \/ \E e \in Events : copies' = [copies EXCEPT ![d][e] = @ + 1]
    <3>1. \A e \in batch[d] : e \in Events
      OBVIOUS
    <3>2. CASE Publish(d)
      BY Zenon, <3>1, <3>2 DEF Publish
    <3>3. CASE PublishUnknown(d)
      BY Zenon, <3>1, <3>3 DEF PublishUnknown
    <3> QED BY Zenon, <1>2, <3>2, <3>3
  <2>3. ASSUME NEW x \in Dispatchers, NEW f \in Events, copies[x][f] > 0
        PROVE  copies'[x][f] > 0
    <3>1. CASE copies' = copies
      BY Zenon, <2>3, <3>1
    <3>2. ASSUME NEW e \in Events, copies' = [copies EXCEPT ![d][e] = @ + 1]
          PROVE  copies'[x][f] > 0
      <4>1. copies'[x][f] = copies[x][f] \/ copies'[x][f] = copies[x][f] + 1
        BY ZenonT(30), <3>2
      <4> QED BY <2>3, <4>1
    <3> QED BY Zenon, <2>2, <3>1, <3>2
  <2> QED BY Zenon, <2>1, <2>3 DEF Committed, Delivered, writer
<1>3. ASSUME NEW d \in Dispatchers,
             \/ WakeOnTick(d) \/ WakeOnKick(d) \/ FetchLocks(d) \/ FetchReturns(d)
             \/ PublishFails(d) \/ MarkSent(d) \/ Restart(d) \/ FetchFails(d)
             \/ MarkSentFails(d) \/ Crash(d)
      PROVE  UNCHANGED <<writer, copies>>
  BY Zenon, <1>3 DEF WakeOnTick, WakeOnKick, FetchLocks, FetchReturns, PublishFails, MarkSent,
              Restart, FetchFails, MarkSentFails, Crash
<1>4. CASE BrokerFlips \/ BecomeCalm \/ UNCHANGED vars
  BY Zenon, <1>4 DEF BrokerFlips, BecomeCalm, vars, writer, Committed, Delivered
<1>5. ASSUME UNCHANGED <<writer, copies>>
      PROVE  Committed \subseteq Committed' /\ Delivered \subseteq Delivered'
  BY Zenon, <1>5 DEF writer, Committed, Delivered
<1> QED BY Zenon, <1>1, <1>2, <1>3, <1>4, <1>5 DEF Next, Drain

LEMMA ClaimInit == Init => ClaimInv
BY Zenon DEF Init, ClaimInv

LEMMA ClaimNext == TypeOK /\ ClaimInv /\ [Next]_vars => ClaimInv'
<1> SUFFICES ASSUME TypeOK, ClaimInv, [Next]_vars PROVE ClaimInv'
  OBVIOUS
<1>1. Committed \subseteq Committed' /\ Delivered \subseteq Delivered'
  BY Zenon, Monotone
<1>2. SUFFICES ASSUME NEW d \in Dispatchers
               PROVE  /\ locked'[d] \cup batch'[d] \cup current'[d] \subseteq Committed'
                      /\ current'[d] \subseteq Delivered' \cup Unpublishable
  BY Zenon DEF ClaimInv
<1> USE <1>1 DEF TypeOK, ClaimInv
<1>3. CASE FetchLocks(d)
  <2>1. Oldest(Batch, Claimable) \subseteq Committed
    BY Zenon, OldestSubset DEF Claimable
  <2> QED BY Zenon, <1>3, <2>1 DEF FetchLocks
<1>4. CASE FetchReturns(d)
  BY ZenonT(30), <1>4 DEF FetchReturns
<1>5. CASE Publish(d)
  <2>1. PICK e \in batch[d] :
          /\ batch' = [batch EXCEPT ![d] = @ \ {e}]
          /\ current' = [current EXCEPT ![d] = {e}]
          /\ copies' = IF e \in Unpublishable THEN copies
                                              ELSE [copies EXCEPT ![d][e] = @ + 1]
    BY Zenon, <1>5 DEF Publish
  <2>2. e \notin Unpublishable => copies'[d][e] > 0
    BY <2>1 DEF Count
  <2>3. e \in Delivered' \cup Unpublishable
    BY Zenon, <2>2 DEF Delivered
  <2> QED BY SMTT(30), <1>5, <2>1, <2>3 DEF Publish
<1>6. ASSUME /\ locked'[d] \subseteq locked[d]
             /\ batch'[d] \subseteq batch[d]
             /\ current'[d] \subseteq current[d]
      PROVE  /\ locked'[d] \cup batch'[d] \cup current'[d] \subseteq Committed'
             /\ current'[d] \subseteq Delivered' \cup Unpublishable
  BY Zenon, <1>6
<1>7. ASSUME NEW e \in Events, Insert(e) \/ EndTx(e) \/ (\E x \in Dispatchers : Kick(e, x))
      PROVE  UNCHANGED drainVars
  BY Zenon, <1>7 DEF Insert, EndTx, Kick
<1>8. ASSUME NEW x \in Dispatchers, WakeOnTick(x) \/ WakeOnKick(x) \/ Restart(x)
      PROVE  UNCHANGED drainVars
  BY Zenon, <1>8 DEF WakeOnTick, WakeOnKick, Restart
<1>9. CASE BrokerFlips \/ BecomeCalm \/ UNCHANGED vars
  BY Zenon, <1>9 DEF BrokerFlips, BecomeCalm, vars, drainVars
<1>10. ASSUME UNCHANGED drainVars
       PROVE  /\ locked'[d] \cup batch'[d] \cup current'[d] \subseteq Committed'
              /\ current'[d] \subseteq Delivered' \cup Unpublishable
  BY Zenon, <1>10, <1>6 DEF drainVars
<1>11. ASSUME NEW x \in Dispatchers,
              \/ PublishFails(x) \/ FetchFails(x) \/ PublishUnknown(x)
              \/ MarkSent(x) \/ MarkSentFails(x) \/ Crash(x)
       PROVE  /\ locked'[d] \subseteq locked[d]
              /\ batch'[d] \subseteq batch[d]
              /\ current'[d] \subseteq current[d]
  <2>1. locked' = locked \/ locked' = [locked EXCEPT ![x] = {}]
    BY Zenon, <1>11 DEF PublishFails, FetchFails, PublishUnknown, MarkSent, MarkSentFails, Crash
  <2>2. batch' = batch \/ batch' = [batch EXCEPT ![x] = {}]
    BY Zenon, <1>11 DEF PublishFails, FetchFails, PublishUnknown, MarkSent, MarkSentFails, Crash,
                 giveUp
  <2>3. current' = [current EXCEPT ![x] = {}]
    BY Zenon, <1>11 DEF PublishFails, FetchFails, PublishUnknown, MarkSent, MarkSentFails, Crash,
                 giveUp
  <2> QED BY ZenonT(30), <2>1, <2>2, <2>3
<1>12. ASSUME NEW x \in Dispatchers, x # d, FetchLocks(x) \/ FetchReturns(x) \/ Publish(x)
       PROVE  /\ locked'[d] \subseteq locked[d]
              /\ batch'[d] \subseteq batch[d]
              /\ current'[d] \subseteq current[d]
  BY ZenonT(30), <1>12 DEF FetchLocks, FetchReturns, Publish
<1> QED BY ZenonT(30), <1>3, <1>4, <1>5, <1>6, <1>7, <1>8, <1>9, <1>10, <1>11, <1>12 DEF Next, Drain

(***************************************************************************)
(* The dispatcher state is well-formed in every reachable state, and a     *)
(* dispatcher delivers a row at most once more than it was hit by a        *)
(* failure between a delivery and MarkSent.                                *)
(***************************************************************************)
THEOREM CopiesBounded == Spec => [](TypeOK /\ OneCopyPerFailure)
<1>1. TypeOK /\ CopyInv => OneCopyPerFailure
  <2> SUFFICES ASSUME TypeOK, CopyInv, NEW d \in Dispatchers, NEW e \in Events
               PROVE  copies[d][e] <= 1 + excused[d][e]
    BY Zenon DEF OneCopyPerFailure
  <2>1. copies[d][e] \in Nat /\ excused[d][e] \in Nat
    BY ZenonT(30) DEF TypeOK, Count
  <2>2. copies[d][e] <= excused[d][e] + (IF Settled(d, e) THEN 1 ELSE 0)
    BY Zenon DEF CopyInv
  <2> QED BY <2>1, <2>2
<1>2. Spec => [](TypeOK /\ CopyInv)
  BY TypeInit, TypeNext, CopyInit, CopyNext, PTL DEF Spec
<1> QED BY <1>1, <1>2, PTL

(***************************************************************************)
(* The outbox implements at-least-once delivery: nothing uncommitted is    *)
(* published, and nothing is stamped that was not published or skipped,    *)
(* through every crash, outage and interleaving of dispatchers.            *)
(***************************************************************************)
THEOREM Refinement == Spec => ImplementsAtLeastOnce
<1>1. Init => Contract!Init
  BY DEF Init, Contract!Init, Committed, Delivered
<1>2. TypeOK /\ ClaimInv /\ [Next]_vars => [Contract!Next]_(Contract!vars)
  <2> SUFFICES ASSUME TypeOK, ClaimInv, [Next]_vars
               PROVE  Contract!Next \/ UNCHANGED Contract!vars
    OBVIOUS
  <2> USE DEF TypeOK, Count
  <2>1. ASSUME NEW e \in Events, EndTx(e) PROVE Contract!Accept(e) \/ UNCHANGED Contract!vars
    <3>1. UNCHANGED <<sent, Delivered>>
      BY Zenon, <2>1 DEF EndTx, Delivered
    <3>2. e \notin Committed /\ Committed' \in {Committed, Committed \cup {e}}
      BY <2>1 DEF EndTx, Committed
    <3> QED BY Zenon, <3>1, <3>2 DEF Contract!Accept, Contract!vars
  <2>2. ASSUME NEW d \in Dispatchers, NEW e \in batch[d], e \notin Unpublishable,
               copies' = [copies EXCEPT ![d][e] = @ + 1], UNCHANGED <<writer, sent>>
        PROVE  Contract!Deliver(e)
    <3>1. e \in Events /\ e \in Committed
      BY Zenon DEF ClaimInv
    <3>2. \A x \in Dispatchers, f \in Events :
            copies'[x][f] = IF x = d /\ f = e THEN copies[x][f] + 1 ELSE copies[x][f]
      BY ZenonT(30), <2>2, <3>1
    <3>3. ASSUME NEW f \in Events PROVE f \in Delivered' <=> f \in Delivered \/ f = e
      <4>1. CASE f = e
        <5>1. copies[d][e] \in Nat /\ copies'[d][e] = copies[d][e] + 1
          BY <3>1, <3>2
        <5> QED BY <4>1, <5>1 DEF Delivered
      <4>2. CASE f # e
        <5>1. \A x \in Dispatchers : copies'[x][f] = copies[x][f]
          BY <3>2, <4>2
        <5>2. f \in Delivered' <=> \E x \in Dispatchers : copies'[x][f] > 0
          BY Zenon DEF Delivered
        <5>3. f \in Delivered <=> \E x \in Dispatchers : copies[x][f] > 0
          BY Zenon DEF Delivered
        <5> QED BY Zenon, <4>2, <5>1, <5>2, <5>3
      <4> QED BY Zenon, <4>1, <4>2
    <3>4. Delivered' = Delivered \cup {e}
      BY Zenon, <3>1, <3>3 DEF Delivered
    <3>5. UNCHANGED Committed
      BY Zenon, <2>2 DEF Committed, writer
    <3> QED BY Zenon, <2>2, <3>1, <3>4, <3>5 DEF Contract!Deliver
  <2>3. ASSUME NEW d \in Dispatchers, Publish(d)
        PROVE  (\E e \in Events : Contract!Deliver(e)) \/ UNCHANGED Contract!vars
    <3>1. PICK e \in batch[d] :
            copies' = IF e \in Unpublishable THEN copies
                                             ELSE [copies EXCEPT ![d][e] = @ + 1]
      BY Zenon, <2>3 DEF Publish
    <3>2. UNCHANGED <<writer, sent>>
      BY Zenon, <2>3 DEF Publish
    <3>3. CASE e \in Unpublishable
      BY Zenon, <3>1, <3>2, <3>3 DEF Contract!vars, Committed, Delivered, writer
    <3>4. CASE e \notin Unpublishable
      BY Zenon, <2>2, <3>1, <3>2, <3>4
    <3> QED BY Zenon, <3>3, <3>4
  <2>4. ASSUME NEW d \in Dispatchers, PublishUnknown(d)
        PROVE  \E e \in Events : Contract!Deliver(e)
    <3>1. PICK e \in batch[d] \ Unpublishable : copies' = [copies EXCEPT ![d][e] = @ + 1]
      BY Zenon, <2>4 DEF PublishUnknown
    <3> QED BY Zenon, <2>2, <2>4, <3>1 DEF PublishUnknown
  <2>5. ASSUME NEW d \in Dispatchers, MarkSent(d)
        PROVE  \E e \in Events : Contract!Settle(e)
    <3>1. PICK e \in Events : current[d] = {e}
      BY Zenon, <2>5 DEF MarkSent
    <3>2. UNCHANGED <<Committed, Delivered>>
      BY Zenon, <2>5 DEF MarkSent, Committed, Delivered, writer
    <3>3. e \in Committed /\ e \in Delivered \cup Unpublishable
      BY Zenon, <3>1 DEF ClaimInv
    <3> QED BY Zenon, <2>5, <3>1, <3>2, <3>3 DEF MarkSent, Contract!Settle
  <2>6. CASE \/ \E e \in Events : Insert(e) \/ \E d \in Dispatchers : Kick(e, d)
             \/ \E d \in Dispatchers :
                  \/ WakeOnTick(d) \/ WakeOnKick(d) \/ FetchLocks(d) \/ FetchReturns(d)
                  \/ PublishFails(d) \/ Restart(d) \/ FetchFails(d) \/ MarkSentFails(d)
                  \/ Crash(d)
             \/ BrokerFlips \/ BecomeCalm \/ UNCHANGED vars
    <3>1. UNCHANGED <<sent, copies>>
      BY Zenon, <2>6 DEF Insert, Kick, WakeOnTick, WakeOnKick, FetchLocks, FetchReturns,
           PublishFails, Restart, FetchFails, MarkSentFails, Crash, BrokerFlips,
           BecomeCalm, vars
    <3>2. UNCHANGED Committed
      BY ZenonT(30), <2>6 DEF Insert, Kick, WakeOnTick, WakeOnKick, FetchLocks, FetchReturns,
           PublishFails, Restart, FetchFails, MarkSentFails, Crash, BrokerFlips,
           BecomeCalm, vars, writer, Committed
    <3> QED BY Zenon, <3>1, <3>2 DEF Contract!vars, Delivered
  <2> QED
    BY Zenon, <2>1, <2>3, <2>4, <2>5, <2>6 DEF Next, Drain, Contract!Next
<1>3. Spec => [](TypeOK /\ ClaimInv)
  BY TypeInit, TypeNext, ClaimInit, ClaimNext, PTL DEF Spec
<1> QED BY <1>1, <1>2, <1>3, PTL DEF Spec, ImplementsAtLeastOnce, Contract!Spec

-----------------------------------------------------------------------------
(***************************************************************************)
(* package transaction                                                     *)
(***************************************************************************)

(* Where a call may be with which connection, lock, error and writes; a    *)
(* call that has locked the row still sees the version it read, and one    *)
(* that has committed an update has left that version behind.              *)
CallInv(c) ==
  /\ tpc[c] \in {"lock", "unlock"} => mode[c] = "WithAdvisoryLock"
  /\ tpc[c] \in {"fn", "nested", "end", "backoff"} => mode[c] # "WithAdvisoryLock"
  /\ tpc[c] = "backoff" => attempt[c] < TxAttempts
  /\ tpc[c] \in {"idle", "begin", "fn", "nested", "lock", "unlock"} => err[c] = "none"
  /\ c \in txConn <=> \/ tpc[c] \in {"lock", "fn", "nested", "end", "unlock"}
                      \/ tpc[c] = "panicked" /\ mode[c] # "WithAdvisoryLock"
  /\ c \in advisory => tpc[c] = "unlock"
  /\ written[c] # {} => /\ tpc[c] \in {"nested", "end", "panicked"}
                        /\ mode[c] # "WithAdvisoryLock"
  /\ tpc[c] = "nested" \/ (tpc[c] = "end" /\ err[c] = "none") => "row" \in written[c]
  /\ commits[c] \in {0, 1}
  /\ commits[c] = 1 => tpc[c] = "done" /\ (work[c] = "versioned" => seen[c] < version)
  /\ RowLockedBy(c) => seen[c] = version
  /\ c \in unknown => commits[c] = 1
  /\ tpc[c] = "done" /\ mode[c] # "WithAdvisoryLock" =>
       (commits[c] = 1 <=> err[c] = "none" \/ c \in unknown)
  /\ tpc[c] = "done" /\ mode[c] = "retrying" /\ err[c] = "40001" => attempt[c] = TxAttempts

(* The row lock is exclusive. *)
OneRowLock == \A c, d \in TxCallers : RowLockedBy(c) /\ RowLockedBy(d) => c = d

TxInv ==
  /\ TxTypeOK /\ IsFiniteSet(txConn)
  /\ AllOrNothing
  /\ \A c \in TxCallers : CallInv(c)
  /\ OneRowLock /\ NoLostUpdate

LEMMA TxInvGives == TxInv => TxContract
<1> SUFFICES ASSUME TxInv PROVE TxContract
  OBVIOUS
<1>1. \A c \in TxCallers : commits[c] \in {0, 1}
  BY Zenon DEF TxInv, CallInv
<1>2. CommitsMatchOutcome
  BY <1>1 DEF TxInv, CallInv, CommitsMatchOutcome
<1>4. ReleasedUnlessPanic
  BY Zenon DEF TxInv, CallInv, ReleasedUnlessPanic
<1>5. VisibleConflictsRetried
  BY Zenon DEF TxInv, CallInv, VisibleConflictsRetried
<1> QED BY Zenon, <1>2, <1>4, <1>5 DEF TxInv, TxContract

LEMMA InitTx == TxInit => TxInv
<1> SUFFICES ASSUME TxInit PROVE TxInv
  OBVIOUS
<1>1. IsFiniteSet(txConn) /\ Cardinality(txConn) = 0
  BY Zenon, FS_EmptySet DEF TxInit
<1>2. viaDAO \in [TxCallers -> BOOLEAN]
  BY Zenon DEF TxInit
<1>3. TxTypeOK
  BY <1>1, <1>2, TxAssumption DEF TxInit, TxTypeOK, Modes, Errors
<1>4. \A c \in TxCallers : CallInv(c) /\ ~RowLockedBy(c) /\ commits[c] = 0
  BY DEF TxInit, CallInv, RowLockedBy
<1>5. AllOrNothing /\ OneRowLock /\ NoLostUpdate
  BY <1>4 DEF TxInit, AllOrNothing, OneRowLock, NoLostUpdate
<1> QED BY Zenon, <1>1, <1>3, <1>4, <1>5 DEF TxInv

(* A step of c leaves the other calls alone. *)
OthersRest(c) ==
  \A d \in TxCallers \ {c} :
    /\ mode'[d] = mode[d] /\ work'[d] = work[d] /\ tpc'[d] = tpc[d] /\ attempt'[d] = attempt[d]
    /\ seen'[d] = seen[d] /\ written'[d] = written[d] /\ err'[d] = err[d] /\ commits'[d] = commits[d]
    /\ d \in txConn' <=> d \in txConn
    /\ d \in unknown' <=> d \in unknown
    /\ d \in advisory' => d \in advisory

(* What is left to show of a step of c: its own place, that it locks the   *)
(* row only when nobody else has, and that it moves the version only when  *)
(* it holds that lock and commits.                                         *)
LEMMA OneCall ==
  ASSUME TxInv, TxTypeOK', IsFiniteSet(txConn)', AllOrNothing',
         NEW c \in TxCallers, tpc[c] # "done", OthersRest(c), CallInv(c)',
         RowLockedBy(c)' => RowLockedBy(c) \/ \A d \in TxCallers \ {c} : ~RowLockedBy(d),
         version' # version => RowLockedBy(c) /\ version' = version + 1,
         commits'[c] # commits[c] /\ work'[c] = "versioned" =>
           RowLockedBy(c) /\ seen'[c] = version
  PROVE  TxInv'
<1>1. \A d \in TxCallers \ {c} : RowLockedBy(d)' <=> RowLockedBy(d)
  BY Zenon DEF OthersRest, RowLockedBy
<1>2. OneRowLock'
  BY Zenon, <1>1 DEF TxInv, OneRowLock
<1>3. ASSUME NEW d \in TxCallers \ {c} PROVE CallInv(d)'
  <2>1. RowLockedBy(d) => version' = version
    BY Zenon DEF TxInv, OneRowLock
  <2>2. version' >= version /\ version \in Nat /\ seen[d] \in Nat
    BY DEF TxInv, TxTypeOK
  <2>3. CallInv(d)
    BY Zenon DEF TxInv
  <2> QED BY SMTT(30), <1>1, <2>1, <2>2, <2>3 DEF CallInv, OthersRest
<1>4. NoLostUpdate'
  <2> SUFFICES ASSUME NEW d \in TxCallers \ {c}, work'[c] = "versioned", work'[d] = "versioned",
                      seen'[c] = seen'[d]
               PROVE  commits'[c] + commits'[d] <= 1
    <3>1. \A d \in TxCallers : commits'[d] \in Nat
      BY Zenon DEF TxTypeOK
    <3>2. \A d, e \in TxCallers \ {c} :
             d # e /\ work'[d] = "versioned" /\ work'[e] = "versioned" /\ seen'[d] = seen'[e]
               => commits'[d] + commits'[e] <= 1
      BY ZenonT(30) DEF TxInv, NoLostUpdate, OthersRest
    <3> QED BY SMTT(30), <3>1, <3>2 DEF NoLostUpdate
  <2>1. commits'[c] \in {0, 1} /\ commits'[d] \in {0, 1}
    BY Zenon, <1>3 DEF CallInv
  <2>2. CASE commits'[c] # commits[c]
    <3>1. commits[d] = 1 => seen[d] < version
      BY SMTT(30) DEF TxInv, CallInv, OthersRest
    <3>2. commits'[d] # 1
      BY <2>2, <3>1 DEF OthersRest, TxInv, TxTypeOK
    <3> QED BY SMTT(30), <2>1, <3>2
  <2>3. CASE commits'[c] = commits[c]
    <3>1. commits[c] = 0
      BY Zenon DEF TxInv, CallInv
    <3> QED BY SMTT(30), <2>1, <2>3, <3>1
  <2> QED BY Zenon, <2>2, <2>3
<1> QED BY Zenon, <1>2, <1>3, <1>4 DEF TxInv

(* The pool: a connection is taken only when one is free. *)
LEMMA PoolFacts ==
  ASSUME TxTypeOK, IsFiniteSet(txConn), NEW c \in TxCallers
  PROVE  /\ IsFiniteSet(txConn \ {c}) /\ Cardinality(txConn \ {c}) <= TxPoolSize
         /\ IsFiniteSet(txConn \cup {c})
         /\ Cardinality(txConn) < TxPoolSize => Cardinality(txConn \cup {c}) <= TxPoolSize
<1>1. Cardinality(txConn) \in Nat /\ Cardinality(txConn) <= TxPoolSize /\ TxPoolSize \in Nat
  BY Zenon, FS_CardinalityType, TxAssumption DEF TxTypeOK
<1>2. IsFiniteSet(txConn \ {c})
      /\ Cardinality(txConn \ {c}) = IF c \in txConn THEN Cardinality(txConn) - 1 ELSE Cardinality(txConn)
  BY Zenon, FS_RemoveElement
<1>3. IsFiniteSet(txConn \cup {c})
      /\ Cardinality(txConn \cup {c}) = IF c \in txConn THEN Cardinality(txConn) ELSE Cardinality(txConn) + 1
  BY Zenon, FS_AddElement
<1> QED BY <1>1, <1>2, <1>3

LEMMA StartCallKeeps == ASSUME TxInv, NEW c \in TxCallers, StartCall(c) PROVE TxInv'
<1> USE DEF TxInv
<1>1. PICK m \in Modes, w \in {"versioned", "insert"}, b \in BOOLEAN :
        /\ mode' = [mode EXCEPT ![c] = m] /\ work' = [work EXCEPT ![c] = w]
        /\ viaDAO' = [viaDAO EXCEPT ![c] = b]
  BY Zenon DEF StartCall
<1>2. viaDAO' \in [TxCallers -> BOOLEAN]
  BY Zenon, <1>1 DEF TxTypeOK
<1>3. TxTypeOK'
  BY Zenon, <1>1, <1>2 DEF TxTypeOK, StartCall, goTo, tables
<1>4. OthersRest(c)
  BY ZenonT(30) DEF OthersRest, StartCall, goTo, tables, TxTypeOK
<1>5. CallInv(c)' /\ ~RowLockedBy(c)'
  BY SMTT(30) DEF CallInv, RowLockedBy, StartCall, goTo
<1>6. tpc[c] # "done" /\ version' = version /\ commits' = commits /\ AllOrNothing' /\ IsFiniteSet(txConn)'
  BY Zenon DEF StartCall, tables, AllOrNothing
<1> QED BY Zenon, <1>3, <1>4, <1>5, <1>6, OneCall

LEMMA AbortContextKeeps == ASSUME TxInv, NEW c \in TxCallers, AbortContext(c) PROVE TxInv'
BY DEF TxInv, AbortContext, tables, callArgs, TxTypeOK, AllOrNothing, CallInv, RowLockedBy, OneRowLock,
       NoLostUpdate

LEMMA BeginKeeps == ASSUME TxInv, NEW c \in TxCallers, Begin(c) PROVE TxInv'
<1> USE DEF TxInv
<1>0. tpc[c] = "begin" /\ UNCHANGED <<mode, work, viaDAO, attempt, seen, written, advisory, aborted, commits,
                                    unknown, version, items, log>>
  BY Zenon DEF Begin, callArgs, tables
<1>1. CASE /\ Cardinality(txConn) < TxPoolSize /\ txConn' = txConn \cup {c} /\ UNCHANGED err
           /\ goTo(c, IF mode[c] = "WithAdvisoryLock" THEN "lock" ELSE "fn")
  <2>1. TxTypeOK' /\ IsFiniteSet(txConn)'
    BY Zenon, <1>0, <1>1, PoolFacts DEF TxTypeOK, goTo
  <2>2. OthersRest(c)
    BY Zenon, <1>0, <1>1 DEF OthersRest, goTo, TxTypeOK
  <2>3. CallInv(c)' /\ ~RowLockedBy(c)'
    BY Zenon, <1>0, <1>1 DEF CallInv, RowLockedBy, goTo, TxTypeOK
  <2> QED BY Zenon, <1>0, <2>1, <2>2, <2>3, OneCall DEF AllOrNothing
<1>2. CASE finish(c, "other") /\ UNCHANGED txConn
  <2>1. tpc' = [tpc EXCEPT ![c] = "done"] /\ err' = [err EXCEPT ![c] = "other"]
    BY Zenon, <1>2 DEF finish, goTo, isRetryablePgError
  <2>2. TxTypeOK' /\ IsFiniteSet(txConn)'
    BY Zenon, <1>0, <1>2, <2>1 DEF TxTypeOK, Errors
  <2>3. OthersRest(c)
    BY Zenon, <1>0, <1>2, <2>1 DEF OthersRest, TxTypeOK
  <2>4. CallInv(c)' /\ ~RowLockedBy(c)'
    BY ZenonT(30), <1>0, <1>2, <2>1 DEF CallInv, RowLockedBy, TxTypeOK
  <2> QED BY ZenonT(30), <1>0, <2>2, <2>3, <2>4, OneCall DEF AllOrNothing
<1> QED BY Zenon, <1>1, <1>2 DEF Begin


LEMMA WriteKeeps == ASSUME TxInv, NEW c \in TxCallers, Write(c) PROVE TxInv'
<1> USE DEF TxInv
<1>0. tpc[c] = "fn" /\ UNCHANGED <<mode, work, viaDAO, attempt, seen, txConn, advisory, aborted, commits,
                                 unknown, version, items, log>>
  BY Zenon DEF Write, callArgs, tables
<1>1. CASE /\ work[c] = "versioned" => \A d \in TxCallers \ {c} : ~RowLockedBy(d)
           /\ matches(c) /\ written' = [written EXCEPT ![c] = {"row"}]
           /\ goTo(c, "nested") /\ UNCHANGED err
  <2>1. TxTypeOK'
    BY Zenon, <1>0, <1>1 DEF TxTypeOK, goTo
  <2>2. OthersRest(c)
    BY Zenon, <1>0, <1>1 DEF OthersRest, goTo, TxTypeOK
  <2>3. CallInv(c)'
    BY Zenon, <1>0, <1>1 DEF CallInv, RowLockedBy, matches, goTo, TxTypeOK
  <2>4. RowLockedBy(c)' => \A d \in TxCallers \ {c} : ~RowLockedBy(d)
    BY Zenon, <1>0, <1>1 DEF RowLockedBy
  <2> QED BY Zenon, <1>0, <2>1, <2>2, <2>3, <2>4, OneCall DEF AllOrNothing
<1>2. ASSUME NEW e \in Errors \ {"none"}, err' = [err EXCEPT ![c] = e], goTo(c, "end"), UNCHANGED written
      PROVE  TxInv'
  <2>1. TxTypeOK'
    BY Zenon, <1>0, <1>2 DEF TxTypeOK, goTo
  <2>2. OthersRest(c)
    BY Zenon, <1>0, <1>2 DEF OthersRest, goTo, TxTypeOK
  <2>3. CallInv(c)' /\ ~RowLockedBy(c)'
    BY Zenon, <1>0, <1>2 DEF CallInv, RowLockedBy, goTo, TxTypeOK
  <2> QED BY Zenon, <1>0, <2>1, <2>2, <2>3, OneCall DEF AllOrNothing
<1>3. ASSUME NEW e \in {"40001", "other"} PROVE fnSees(c, e) \in Errors \ {"none"}
  BY Zenon DEF fnSees, MapPgError, Errors
<1>4. "stale" \in Errors \ {"none"}
  BY Zenon DEF Errors
<1> QED BY Zenon, <1>1, <1>2, <1>3, <1>4 DEF Write

LEMMA NestedKeeps == ASSUME TxInv, NEW c \in TxCallers, Nested(c) PROVE TxInv'
<1> USE DEF TxInv
<1>0. tpc[c] = "nested" /\ goTo(c, "end")
      /\ UNCHANGED <<mode, work, viaDAO, attempt, seen, txConn, advisory, aborted, commits,
                     unknown, version, items, log>>
  BY Zenon DEF Nested, callArgs, tables
<1>1. ASSUME NEW e \in Errors, err' = [err EXCEPT ![c] = e],
             NEW w \in SUBSET {"row", "log"}, written' = [written EXCEPT ![c] = w], "row" \in w
      PROVE  TxInv'
  <2>1. TxTypeOK'
    BY Zenon, <1>0, <1>1 DEF TxTypeOK, goTo
  <2>2. OthersRest(c)
    BY Zenon, <1>0, <1>1 DEF OthersRest, goTo, TxTypeOK
  <2>3. CallInv(c)' /\ (RowLockedBy(c)' => RowLockedBy(c))
    BY Zenon, <1>0, <1>1 DEF CallInv, RowLockedBy, goTo, TxTypeOK
  <2> QED BY Zenon, <1>0, <2>1, <2>2, <2>3, OneCall DEF AllOrNothing
<1>2. "row" \in written[c] /\ written[c] \in SUBSET {"row", "log"} /\ err[c] \in Errors
  BY Zenon, <1>0 DEF CallInv, TxTypeOK
<1>3. written = [written EXCEPT ![c] = written[c]] /\ err = [err EXCEPT ![c] = err[c]]
  BY Zenon DEF TxTypeOK
<1>4. ASSUME NEW e \in {"40001", "other"} PROVE fnSees(c, e) \in Errors
  BY Zenon DEF fnSees, MapPgError, Errors
<1>5. CASE written' = [written EXCEPT ![c] = @ \cup {"log"}] /\ UNCHANGED err
  <2>1. written[c] \cup {"log"} \in SUBSET {"row", "log"} /\ "row" \in written[c] \cup {"log"}
    BY Zenon, <1>2
  <2> QED BY Zenon, <1>1, <1>2, <1>3, <1>5, <2>1
<1>6. CASE (\E e \in {"40001", "other"} : err' = [err EXCEPT ![c] = fnSees(c, e)]) /\ UNCHANGED written
  BY Zenon, <1>1, <1>2, <1>3, <1>4, <1>6
<1> QED BY Zenon, <1>5, <1>6 DEF Nested

LEMMA BackoffKeeps == ASSUME TxInv, NEW c \in TxCallers, Backoff(c) PROVE TxInv'
<1> USE DEF TxInv
<1>0. tpc[c] = "backoff" /\ attempt[c] + 1 \in 1..TxAttempts
      /\ UNCHANGED <<mode, work, viaDAO, seen, written, txConn, advisory, aborted, commits,
                     unknown, version, items, log>>
  BY SMTT(30), TxAssumption DEF Backoff, callArgs, tables, CallInv, TxTypeOK
<1>1. TxTypeOK'
  BY SMTT(30), <1>0 DEF Backoff, TxTypeOK, goTo, Errors
<1>2. OthersRest(c)
  BY Zenon, <1>0 DEF Backoff, OthersRest, goTo, TxTypeOK
<1>3. CallInv(c)' /\ ~RowLockedBy(c)'
  BY SMTT(30) DEF Backoff, CallInv, RowLockedBy, goTo, TxTypeOK
<1> QED BY Zenon, <1>0, <1>1, <1>2, <1>3, OneCall DEF AllOrNothing

LEMMA PanicKeeps == ASSUME TxInv, NEW c \in TxCallers, Panic(c) PROVE TxInv'
<1> USE DEF TxInv
<1>0. tpc[c] \in {"fn", "nested"}
      /\ UNCHANGED <<mode, work, viaDAO, attempt, seen, written, err, txConn, advisory, aborted, commits,
                     unknown, version, items, log>>
  BY Zenon DEF Panic, callArgs, tables
<1>1. TxTypeOK'
  BY Zenon, <1>0 DEF Panic, TxTypeOK, goTo
<1>2. OthersRest(c)
  BY Zenon, <1>0 DEF Panic, OthersRest, goTo, TxTypeOK
<1>3. CallInv(c)' /\ (RowLockedBy(c)' <=> RowLockedBy(c))
  BY ZenonT(30), <1>0 DEF Panic, CallInv, RowLockedBy, goTo, TxTypeOK
<1> QED BY Zenon, <1>0, <1>1, <1>2, <1>3, OneCall DEF AllOrNothing

LEMMA LockKeyKeeps == ASSUME TxInv, NEW c \in TxCallers, LockKey(c) PROVE TxInv'
<1> USE DEF TxInv
<1>0. tpc[c] = "lock" /\ mode[c] = "WithAdvisoryLock"
      /\ UNCHANGED <<mode, work, viaDAO, attempt, seen, written, aborted, commits,
                     unknown, version, items, log>>
  BY Zenon DEF LockKey, callArgs, tables, CallInv
<1>1. CASE advisory' = {c} /\ goTo(c, "unlock") /\ UNCHANGED <<txConn, err>>
  <2>1. TxTypeOK' /\ IsFiniteSet(txConn)'
    BY Zenon, <1>0, <1>1 DEF CallInv, TxTypeOK, goTo
  <2>2. OthersRest(c)
    BY Zenon, <1>0, <1>1 DEF OthersRest, goTo, TxTypeOK
  <2>3. CallInv(c)' /\ ~RowLockedBy(c)'
    BY ZenonT(30), <1>0, <1>1 DEF CallInv, RowLockedBy, goTo, TxTypeOK
  <2> QED BY Zenon, <1>0, <2>1, <2>2, <2>3, OneCall DEF AllOrNothing
<1>2. CASE txConn' = txConn \ {c} /\ finish(c, "other") /\ UNCHANGED advisory
  <2>0. tpc' = [tpc EXCEPT ![c] = "done"] /\ err' = [err EXCEPT ![c] = "other"] /\ c \notin advisory
    BY Zenon, <1>0, <1>2 DEF finish, goTo, CallInv
  <2>1. TxTypeOK' /\ IsFiniteSet(txConn)'
    BY Zenon, <1>0, <1>2, <2>0, PoolFacts DEF TxTypeOK, Errors
  <2>2. OthersRest(c)
    BY Zenon, <1>0, <1>2, <2>0 DEF OthersRest, TxTypeOK
  <2>3. CallInv(c)' /\ ~RowLockedBy(c)'
    BY ZenonT(30), <1>0, <1>2, <2>0 DEF CallInv, RowLockedBy, TxTypeOK
  <2> QED BY ZenonT(30), <1>0, <2>1, <2>2, <2>3, OneCall DEF AllOrNothing
<1> QED BY Zenon, <1>1, <1>2 DEF LockKey

LEMMA UnlockKeyKeeps == ASSUME TxInv, NEW c \in TxCallers, UnlockKey(c) PROVE TxInv'
<1> USE DEF TxInv
<1>0. tpc[c] = "unlock" /\ mode[c] = "WithAdvisoryLock" /\ advisory' = {} /\ txConn' = txConn \ {c}
      /\ UNCHANGED <<mode, work, viaDAO, attempt, seen, written, aborted, commits,
                     unknown, version, items, log>>
  BY Zenon DEF UnlockKey, callArgs, tables, CallInv
<1>1. PICK where \in {"done", "panicked"} : tpc' = [tpc EXCEPT ![c] = where] /\ err' = err
  <2>1. err[c] = "none" /\ err = [err EXCEPT ![c] = "none"]
    BY SMTT(30), <1>0 DEF CallInv, TxTypeOK
  <2> QED BY Zenon, <2>1 DEF UnlockKey, finish, goTo, isRetryablePgError
<1>2. TxTypeOK' /\ IsFiniteSet(txConn)'
  BY Zenon, <1>0, <1>1, PoolFacts DEF TxTypeOK
<1>3. OthersRest(c)
  BY Zenon, <1>0, <1>1 DEF OthersRest, TxTypeOK
<1>4. CallInv(c)' /\ ~RowLockedBy(c)'
  BY ZenonT(30), <1>0, <1>1 DEF CallInv, RowLockedBy, TxTypeOK
<1> QED BY Zenon, <1>0, <1>2, <1>3, <1>4, OneCall DEF AllOrNothing

LEMMA EndKeeps == ASSUME TxInv, NEW c \in TxCallers, End(c) PROVE TxInv'
<1> USE DEF TxInv
<1>0. /\ tpc[c] = "end" /\ mode[c] # "WithAdvisoryLock" /\ commits[c] = 0 /\ c \notin unknown
      /\ txConn' = txConn \ {c} /\ written' = [written EXCEPT ![c] = {}] /\ c \notin advisory
      /\ UNCHANGED <<mode, work, viaDAO, attempt, seen, advisory, aborted>>
  BY Zenon DEF End, giveBack, callArgs, CallInv
<1>1. ~RowLockedBy(c)' /\ IsFiniteSet(txConn)'
  BY Zenon, <1>0, PoolFacts DEF RowLockedBy, TxTypeOK
<1>2. ASSUME NEW e \in Errors \ {"none"}, finish(c, e), UNCHANGED <<tables, commits, unknown>>
      PROVE  TxInv'
  <2>1. err' = [err EXCEPT ![c] = e]
    BY Zenon, <1>2 DEF finish
  <2>2. PICK where \in {"backoff", "done"} :
          /\ tpc' = [tpc EXCEPT ![c] = where]
          /\ where = "backoff" => attempt[c] < TxAttempts
          /\ where = "done" /\ mode[c] = "retrying" /\ e = "40001" => ~(attempt[c] < TxAttempts)
    BY Zenon, <1>2 DEF finish, goTo, attemptsLeft, isRetryablePgError
  <2>3. version' = version /\ items' = items /\ log' = log /\ commits' = commits /\ unknown' = unknown
    BY Zenon, <1>2 DEF tables
  <2>4. TxTypeOK'
    BY Zenon, <1>0, <2>1, <2>2, <2>3, PoolFacts DEF TxTypeOK
  <2>5. OthersRest(c)
    BY Zenon, <1>0, <2>1, <2>2, <2>3 DEF OthersRest, TxTypeOK
  <2>6. attempt[c] \in 1..TxAttempts
    BY Zenon DEF TxTypeOK
  <2>7. CallInv(c)'
    BY SMTT(30), <1>0, <1>1, <2>1, <2>2, <2>3, TxAssumption DEF CallInv, TxTypeOK
  <2> QED BY Zenon, <1>0, <1>1, <2>3, <2>4, <2>5, <2>7, OneCall DEF AllOrNothing
<1>3. ASSUME err[c] = "none", apply(c), NEW e \in {"none", "other"}, finish(c, e),
             unknown' = IF e = "none" THEN unknown ELSE unknown \cup {c}
      PROVE  TxInv'
  <2>1. tpc' = [tpc EXCEPT ![c] = "done"] /\ err' = [err EXCEPT ![c] = e]
    BY Zenon, <1>3 DEF finish, goTo, isRetryablePgError
  <2>2. commits' = [commits EXCEPT ![c] = 1] /\ log' = log + 1
    <3>1. commits[c] = 0
      BY Zenon, <1>0, <1>3 DEF CallInv
    <3>2. 0 + 1 = 1
      OBVIOUS
    <3> QED BY Zenon, <1>3, <3>1, <3>2 DEF apply
  <2>3. "row" \in written[c] /\ work[c] \in {"versioned", "insert"}
    BY Zenon, <1>0, <1>3 DEF CallInv, TxTypeOK
  <2>4. \/ /\ work[c] = "versioned" /\ RowLockedBy(c) /\ seen[c] = version
           /\ version' = version + 1 /\ items' = items
        \/ /\ work[c] = "insert" /\ version' = version /\ items' = items + 1
    BY SMTT(30), <1>3, <2>3 DEF apply, RowLockedBy, CallInv, TxTypeOK
  <2>5. TxTypeOK'
    <3>1. version' \in Nat /\ items' \in Nat /\ log' \in Nat /\ commits' \in [TxCallers -> Nat]
      BY SMTT(30), <2>2, <2>4 DEF TxTypeOK
    <3>2. txConn' \subseteq TxCallers /\ Cardinality(txConn') <= TxPoolSize
          /\ advisory' \subseteq txConn' /\ unknown' \subseteq TxCallers
      BY Zenon, <1>0, <1>3, PoolFacts DEF TxTypeOK
    <3>3. /\ tpc' \in [TxCallers -> {"idle", "begin", "lock", "fn", "nested", "end", "backoff",
                                     "unlock", "done", "panicked"}]
          /\ err' \in [TxCallers -> Errors] /\ written' \in [TxCallers -> SUBSET {"row", "log"}]
      BY Zenon, <1>0, <2>1 DEF TxTypeOK, Errors
    <3> QED BY Zenon, <1>0, <3>1, <3>2, <3>3 DEF TxTypeOK
  <2>6. OthersRest(c)
    BY ZenonT(30), <1>0, <1>3, <2>1, <2>2 DEF OthersRest, TxTypeOK
  <2>7. CallInv(c)'
    <3>1. /\ tpc'[c] = "done" /\ err'[c] = e /\ commits'[c] = 1 /\ written'[c] = {}
          /\ mode'[c] = mode[c] /\ work'[c] = work[c] /\ seen'[c] = seen[c]
      BY Zenon, <1>0, <2>1, <2>2 DEF TxTypeOK
    <3>2. c \notin txConn' /\ c \notin advisory' /\ (c \in unknown' <=> e = "other")
      BY Zenon, <1>0, <1>3
    <3>3. work[c] = "versioned" => seen[c] < version'
      BY SMTT(30), <2>4 DEF TxTypeOK
    <3> QED BY Zenon, <1>0, <1>1, <3>1, <3>2, <3>3 DEF CallInv
  <2>8. AllOrNothing'
    BY <2>2, <2>4 DEF AllOrNothing, TxTypeOK
  <2> QED BY Zenon, <1>0, <1>1, <2>4, <2>5, <2>6, <2>7, <2>8, OneCall
<1>4. err[c] \in Errors /\ {"40001", "other"} \subseteq Errors \ {"none"}
  BY Zenon DEF TxTypeOK, Errors
<1> QED BY Zenon, <1>2, <1>3, <1>4 DEF End

LEMMA TxStepKeeps == TxInv /\ [TxNext]_txVars => TxInv'
<1> SUFFICES ASSUME TxInv, [TxNext]_txVars PROVE TxInv'
  BY Zenon
<1>1. CASE TxNext
  BY Zenon, <1>1, StartCallKeeps, AbortContextKeeps, BeginKeeps, WriteKeeps, NestedKeeps,
    EndKeeps, BackoffKeeps, LockKeyKeeps, UnlockKeyKeeps, PanicKeeps DEF TxNext
<1>2. CASE UNCHANGED txVars
  BY ZenonT(30), <1>2 DEF txVars, TxInv, TxTypeOK, AllOrNothing, CallInv, RowLockedBy, OneRowLock, NoLostUpdate
<1> QED BY Zenon, <1>1, <1>2

(***************************************************************************)
(* Package transaction, for any number of callers, any pool and any number *)
(* of attempts: what fn and its nested calls write is committed together   *)
(* and at most once, the outcome says whether it was, no versioned update  *)
(* is lost, visible conflicts are retried to the last attempt, and only a  *)
(* panic keeps a connection.                                               *)
(***************************************************************************)
THEOREM TransactionsKept == TxSpec => []TxContract
BY InitTx, TxStepKeeps, TxInvGives, PTL DEF TxSpec

-----------------------------------------------------------------------------
(***************************************************************************)
(* database/postgres/migrate                                               *)
(***************************************************************************)

Busy == {"mark", "exec", "clean"}

(* Only the holder of the lock is between the steps of a migration, and    *)
(* what it is about to do fits the table and the schema.                   *)
BootInv(b) ==
  /\ bootAt[b] \in Busy <=> b \in holder
  /\ bootAt[b] \in Busy => target[b] \in 1..embeds[b]
  /\ bootAt[b] = "mark" => ~dirty /\ target[b] = recorded + 1
  /\ bootAt[b] = "exec" => dirty /\ target[b] = recorded /\ Len(schema) = recorded - 1
  /\ bootAt[b] = "clean" => /\ dirty /\ target[b] = recorded /\ Len(schema) = recorded
                            /\ schema[recorded] = <<recorded, TRUE>>

(* The schema is migration after migration, and whole but for the one that *)
(* is recorded as dirty.                                                   *)
SchemaOrder ==
  /\ schema \in Seq(Nat \X BOOLEAN)
  /\ \A i \in 1..Len(schema) :
       schema[i] = <<i, TRUE>> \/ (schema[i] = <<i, FALSE>> /\ dirty /\ i = recorded)
  /\ dirty => recorded > 0 /\ Len(schema) \in {recorded - 1, recorded}
  /\ ~dirty => Len(schema) = recorded

SchemaTypes ==
  /\ embeds \in [Boots -> 0..Latest]
  /\ bootAt \in [Boots -> {"off", "lock", "mark", "exec", "clean", "returned"}]
  /\ target \in [Boots -> 0..Latest] /\ outcome \in [Boots -> Outcomes]
  /\ recorded \in 0..Latest /\ dirty \in BOOLEAN
  /\ holder = {} \/ \E b \in Boots : holder = {b}

SchemaInv ==
  /\ SchemaTypes
  /\ SchemaOrder
  /\ \A b \in Boots : BootInv(b)

LEMMA SchemaInvGives == SchemaInv => MigrationsTypeOK /\ AppliedInOrder
<1> SUFFICES ASSUME SchemaInv PROVE MigrationsTypeOK /\ AppliedInOrder
  OBVIOUS
<1>1. holder \subseteq Boots /\ \A b, c \in holder : b = c
  BY Zenon DEF SchemaInv, SchemaTypes
<1>2. MigrationsTypeOK
  BY Zenon, <1>1, Zenon DEF SchemaInv, SchemaTypes, MigrationsTypeOK
<1>3. \A i \in 1..Len(schema) : schema[i][1] = i /\ (~schema[i][2] => dirty /\ i = recorded)
  <2> SUFFICES ASSUME NEW i \in 1..Len(schema)
               PROVE  schema[i][1] = i /\ (~schema[i][2] => dirty /\ i = recorded)
    OBVIOUS
  <2>1. <<i, TRUE>>[1] = i /\ <<i, TRUE>>[2] /\ <<i, FALSE>>[1] = i
    OBVIOUS
  <2>2. schema[i] = <<i, TRUE>> \/ (schema[i] = <<i, FALSE>> /\ dirty /\ i = recorded)
    BY Zenon DEF SchemaInv, SchemaOrder
  <2> QED BY Zenon, <2>1, <2>2
<1>4. Status[1] = recorded
  BY Zenon DEF Status
<1>5. Len(schema) \in {IF dirty THEN recorded - 1 ELSE recorded, recorded}
  BY Zenon DEF SchemaInv, SchemaOrder
<1>6. AppliedInOrder
  BY Zenon, <1>3, <1>4, <1>5 DEF AppliedInOrder
<1> QED BY Zenon, <1>2, <1>6

LEMMA InitSchema == MigrationsInit => SchemaInv
<1> SUFFICES ASSUME MigrationsInit PROVE SchemaInv
  OBVIOUS
<1>1. dirty \in BOOLEAN /\ ~dirty
  BY Zenon DEF MigrationsInit
<1>2. SchemaTypes
  BY <1>1, LatestAssumption DEF MigrationsInit, SchemaTypes, Outcomes
<1>3. SchemaOrder
  BY <1>1 DEF MigrationsInit, SchemaOrder
<1>4. \A b \in Boots : BootInv(b)
  BY Zenon DEF MigrationsInit, BootInv, Busy
<1> QED BY Zenon, <1>2, <1>3, <1>4 DEF SchemaInv

(* A step of boot b leaves the others where they are; it changes the table *)
(* and the schema only while it holds the lock.                            *)
LEMMA OneBoot ==
  ASSUME SchemaInv, NEW b \in Boots, SchemaTypes', SchemaOrder', BootInv(b)',
         \A d \in Boots \ {b} : bootAt'[d] = bootAt[d] /\ target'[d] = target[d] /\ embeds'[d] = embeds[d],
         \A d \in Boots \ {b} : d \in holder' <=> d \in holder,
         b \in holder \/ UNCHANGED <<recorded, dirty, schema>>
  PROVE  SchemaInv'
<1>1. ASSUME NEW d \in Boots \ {b} PROVE BootInv(d)'
  <2>1. BootInv(d)
    BY Zenon DEF SchemaInv
  <2>2. CASE b \in holder
    <3>1. d \notin holder
      BY Zenon, <2>2 DEF SchemaInv, SchemaTypes
    <3> QED BY Zenon, <2>1, <3>1 DEF BootInv, Busy
  <2>3. CASE UNCHANGED <<recorded, dirty, schema>>
    BY Zenon, <2>1, <2>3 DEF BootInv
  <2> QED BY Zenon, <2>2, <2>3
<1> QED BY Zenon, <1>1 DEF SchemaInv

(* A clean table: the schema has every migration up to the recorded one. *)
LEMMA CleanIsWhole ==
  SchemaInv /\ ~dirty => \A v \in 1..recorded : \E i \in 1..Len(schema) : schema[i] = <<v, TRUE>>
BY Zenon DEF SchemaInv, SchemaOrder

LEMMA RunKeeps == ASSUME SchemaInv, NEW b \in Boots, Run(b) PROVE SchemaInv' /\ BootsOnWholeSchema
<1>1. PICK v \in 0..Latest :
        /\ embeds' = [embeds EXCEPT ![b] = v]
        /\ IF v = 0 THEN Returns(b, "nil")
           ELSE Returns(b, "error") \/ (bootAt' = [bootAt EXCEPT ![b] = "lock"] /\ UNCHANGED outcome)
  BY Zenon DEF Run
<1>2. bootAt[b] = "off" /\ UNCHANGED <<target, holder, recorded, dirty, schema, repairs>>
  BY Zenon DEF Run
<1>3. PICK where \in {"lock", "returned"} : bootAt' = [bootAt EXCEPT ![b] = where]
  BY Zenon, <1>1 DEF Returns
<1>4. \/ outcome' = outcome
      \/ \E result \in {"nil", "error"} : outcome' = [outcome EXCEPT ![b] = result] /\ (result = "nil" => v = 0)
  BY Zenon, <1>1 DEF Returns
<1>5. dirty' \in BOOLEAN
  BY Zenon, <1>2 DEF SchemaInv, SchemaTypes
<1>6. SchemaTypes'
  BY Zenon, <1>1, <1>2, <1>3, <1>4, <1>5 DEF SchemaInv, SchemaTypes, Outcomes
<1>7. SchemaOrder'
  BY Zenon, <1>2 DEF SchemaInv, SchemaOrder
<1>8. BootInv(b)'
  BY Zenon, <1>2, <1>3 DEF SchemaInv, SchemaTypes, BootInv, Busy
<1>9. \A d \in Boots \ {b} : bootAt'[d] = bootAt[d] /\ target'[d] = target[d] /\ embeds'[d] = embeds[d]
  BY Zenon, <1>1, <1>2, <1>3 DEF SchemaInv, SchemaTypes
<1>10. BootsOnWholeSchema
  BY SMTT(30), <1>1, <1>4 DEF BootsOnWholeSchema, SchemaInv, SchemaTypes
<1> QED BY Zenon, <1>2, <1>6, <1>7, <1>8, <1>9, <1>10, OneBoot

(* A boot that returns without touching the table or the schema; nil only  *)
(* when the table is clean and records all it embeds.                      *)
LEMMA ReturnKeeps ==
  ASSUME SchemaInv, NEW b \in Boots, NEW result \in Outcomes, Returns(b, result),
         holder' = holder \ {b}, UNCHANGED <<embeds, target, recorded, dirty, schema>>,
         result = "nil" => ~dirty /\ recorded = embeds[b]
  PROVE  SchemaInv' /\ BootsOnWholeSchema
<1>1. bootAt' = [bootAt EXCEPT ![b] = "returned"] /\ outcome' = [outcome EXCEPT ![b] = result]
  BY Zenon DEF Returns
<1>2. dirty' \in BOOLEAN
  BY Zenon DEF SchemaInv, SchemaTypes
<1>3. holder' = {} \/ \E d \in Boots : holder' = {d}
  BY Zenon DEF SchemaInv, SchemaTypes
<1>4. SchemaTypes'
  BY Zenon, <1>1, <1>2, <1>3 DEF SchemaInv, SchemaTypes
<1>5. SchemaOrder'
  BY Zenon DEF SchemaInv, SchemaOrder
<1>6. BootInv(b)'
  BY Zenon, <1>1 DEF SchemaInv, SchemaTypes, BootInv, Busy
<1>7. \A d \in Boots \ {b} : bootAt'[d] = bootAt[d] /\ target'[d] = target[d] /\ embeds'[d] = embeds[d]
  BY Zenon, <1>1 DEF SchemaInv, SchemaTypes
<1>8. BootsOnWholeSchema
  BY Zenon, <1>1, CleanIsWhole DEF BootsOnWholeSchema, SchemaInv, SchemaTypes
<1> QED BY Zenon, <1>4, <1>5, <1>6, <1>7, <1>8, OneBoot

LEMMA UpKeeps == ASSUME SchemaInv, NEW b \in Boots, Up(b) PROVE SchemaInv' /\ BootsOnWholeSchema
<1>1. bootAt[b] = "lock" /\ holder = {} /\ UNCHANGED <<embeds, recorded, schema, repairs>>
  BY Zenon DEF Up
<1>2. holder = holder \ {b} /\ {"nil", "DirtyStateError", "error"} \subseteq Outcomes
  BY Zenon, <1>1 DEF Outcomes
<1>3. CASE dirty
  BY Zenon, <1>1, <1>2, <1>3, ReturnKeeps DEF Up, onDirty
<1>4. CASE ~dirty /\ recorded > embeds[b]
  <2>1. Returns(b, "error") /\ UNCHANGED <<holder, target, dirty>>
    BY SMTT(30), <1>4 DEF Up, SchemaInv, SchemaTypes
  <2> QED BY Zenon, <1>1, <1>2, <2>1, ReturnKeeps
<1>5. CASE ~dirty /\ recorded = embeds[b]
  <2>1. Returns(b, "nil") /\ UNCHANGED <<holder, target, dirty>>
    BY SMTT(30), <1>5 DEF Up, SchemaInv, SchemaTypes
  <2> QED BY Zenon, <1>1, <1>2, <1>5, <2>1, ReturnKeeps
<1>6. CASE ~dirty /\ recorded < embeds[b]
  <2>1. /\ holder' = {b} /\ target' = [target EXCEPT ![b] = recorded + 1]
        /\ bootAt' = [bootAt EXCEPT ![b] = "mark"] /\ UNCHANGED <<outcome, dirty>>
    BY <1>6 DEF Up, SchemaInv, SchemaTypes
  <2>2. dirty' \in BOOLEAN
    BY Zenon, <2>1 DEF SchemaInv, SchemaTypes
  <2>3. recorded + 1 \in 1..embeds[b] /\ recorded + 1 \in 0..Latest
    BY SMTT(30), <1>6, LatestAssumption DEF SchemaInv, SchemaTypes
  <2>4. SchemaTypes'
    BY Zenon, <1>1, <2>1, <2>2, <2>3 DEF SchemaInv, SchemaTypes
  <2>5. SchemaOrder'
    BY Zenon, <1>1, <2>1 DEF SchemaInv, SchemaOrder
  <2>6. BootInv(b)'
    BY Zenon, <1>1, <1>6, <2>1, <2>3 DEF SchemaInv, SchemaTypes, BootInv, Busy
  <2>7. \A d \in Boots \ {b} : bootAt'[d] = bootAt[d] /\ target'[d] = target[d] /\ embeds'[d] = embeds[d]
    BY Zenon, <1>1, <2>1 DEF SchemaInv, SchemaTypes
  <2>8. BootsOnWholeSchema
    BY Zenon, <2>1 DEF BootsOnWholeSchema
  <2> QED BY Zenon, <1>1, <2>1, <2>4, <2>5, <2>6, <2>7, <2>8, OneBoot
<1>7. recorded \in Int /\ embeds[b] \in Int
  BY SMTT(30) DEF SchemaInv, SchemaTypes
<1> QED BY <1>3, <1>4, <1>5, <1>6, <1>7

(* A clean schema has one more migration appended, whole or not. *)
LEMMA AppendFacts ==
  ASSUME NEW s \in Seq(Nat \X BOOLEAN), NEW n \in Nat, NEW w \in BOOLEAN
  PROVE  /\ Append(s, <<n, w>>) \in Seq(Nat \X BOOLEAN) /\ Len(Append(s, <<n, w>>)) = Len(s) + 1
         /\ \A i \in 1..Len(s) : Append(s, <<n, w>>)[i] = s[i]
         /\ Append(s, <<n, w>>)[Len(s) + 1] = <<n, w>>
<1>1. <<n, w>> \in Nat \X BOOLEAN
  BY Zenon
<1> QED BY SMTT(30), <1>1

LEMMA MarkDirtyKeeps == ASSUME SchemaInv, NEW b \in Boots, MarkDirty(b) PROVE SchemaInv' /\ BootsOnWholeSchema
<1>1. /\ bootAt[b] = "mark" /\ b \in holder /\ recorded' = target[b] /\ dirty' = TRUE
      /\ bootAt' = [bootAt EXCEPT ![b] = "exec"]
      /\ UNCHANGED <<embeds, target, outcome, holder, schema, repairs>>
  BY Zenon DEF MarkDirty
<1>2. dirty' \in BOOLEAN /\ dirty'
  BY Zenon, <1>1
<1>3. ~dirty /\ recorded' = recorded + 1 /\ target[b] \in 1..embeds[b] /\ target[b] \in 0..Latest
  BY Zenon, <1>1 DEF SchemaInv, SchemaTypes, BootInv, Busy
<1>4. SchemaTypes'
  BY Zenon, <1>1, <1>2, <1>3 DEF SchemaInv, SchemaTypes
<1>a. recorded \in Nat /\ Len(schema) = recorded /\ schema \in Seq(Nat \X BOOLEAN)
  BY SMTT(30), <1>3, LatestAssumption DEF SchemaInv, SchemaTypes, SchemaOrder
<1>5. SchemaOrder'
  <2>1. \A i \in 1..Len(schema) : schema[i] = <<i, TRUE>>
    BY Zenon, <1>3 DEF SchemaInv, SchemaOrder
  <2>2. recorded' > 0 /\ Len(schema') \in {recorded' - 1, recorded'} /\ schema' \in Seq(Nat \X BOOLEAN)
    BY SMTT(30), <1>1, <1>3, <1>a
  <2>3. \A i \in 1..Len(schema') : schema'[i] = <<i, TRUE>>
    BY Zenon, <1>1, <2>1
  <2> QED BY Zenon, <1>2, <2>2, <2>3 DEF SchemaOrder
<1>6. BootInv(b)'
  BY SMTT(30), <1>1, <1>2, <1>3, <1>a DEF SchemaInv, SchemaTypes, BootInv, Busy
<1>7. \A d \in Boots \ {b} : bootAt'[d] = bootAt[d] /\ target'[d] = target[d] /\ embeds'[d] = embeds[d]
  BY Zenon, <1>1 DEF SchemaInv, SchemaTypes
<1>8. BootsOnWholeSchema
  BY Zenon, <1>1 DEF BootsOnWholeSchema
<1> QED BY Zenon, <1>1, <1>4, <1>5, <1>6, <1>7, <1>8, OneBoot

LEMMA ExecKeeps == ASSUME SchemaInv, NEW b \in Boots, Exec(b) PROVE SchemaInv' /\ BootsOnWholeSchema
<1>1. bootAt[b] = "exec" /\ b \in holder /\ holder = {b} /\ UNCHANGED <<embeds, target, recorded, dirty, repairs>>
  BY Zenon DEF Exec, SchemaInv, SchemaTypes
<1>2. /\ dirty /\ target[b] = recorded /\ Len(schema) = recorded - 1 /\ recorded \in Nat \ {0}
      /\ target[b] \in 1..embeds[b] /\ schema \in Seq(Nat \X BOOLEAN)
  <2>1. recorded \in Nat
    BY LatestAssumption DEF SchemaInv, SchemaTypes
  <2>2. dirty /\ target[b] = recorded /\ Len(schema) = recorded - 1 /\ target[b] \in 1..embeds[b]
    BY Zenon, <1>1 DEF SchemaInv, BootInv, Busy
  <2> QED BY <2>1, <2>2 DEF SchemaInv, SchemaOrder
<1>3. PICK w \in BOOLEAN :
        /\ schema' = Append(schema, <<target[b], w>>)
        /\ w => bootAt' = [bootAt EXCEPT ![b] = "clean"] /\ UNCHANGED <<outcome, holder>>
        /\ ~w => Returns(b, "error") /\ holder' = {}
  BY Zenon DEF Exec
<1>4. /\ schema' \in Seq(Nat \X BOOLEAN) /\ Len(schema') = recorded
      /\ \A i \in 1..(recorded - 1) : schema'[i] = schema[i]
      /\ schema'[recorded] = <<recorded, w>>
  BY <1>2, <1>3, AppendFacts
<1>5. dirty' \in BOOLEAN /\ dirty'
  BY Zenon, <1>1, <1>2 DEF SchemaInv, SchemaTypes
<1>6. (w /\ <<recorded, w>> = <<recorded, TRUE>>) \/ (~w /\ <<recorded, w>> = <<recorded, FALSE>>)
  BY Zenon, <1>3
<1>7. SchemaOrder'
  <2>1. ASSUME NEW i \in 1..Len(schema')
        PROVE  schema'[i] = <<i, TRUE>> \/ (schema'[i] = <<i, FALSE>> /\ dirty' /\ i = recorded')
    <3>1. CASE i = recorded
      BY Zenon, <1>1, <1>4, <1>5, <1>6, <3>1
    <3>2. CASE i # recorded
      <4>1. i \in 1..(recorded - 1) /\ i \in 1..Len(schema)
        BY <1>2, <1>4, <3>2
      <4>2. i # recorded /\ schema'[i] = schema[i]
        BY Zenon, <1>4, <3>2, <4>1
      <4> QED BY Zenon, <4>1, <4>2 DEF SchemaInv, SchemaOrder
    <3> QED BY Zenon, <3>1, <3>2
  <2>2. recorded' > 0 /\ Len(schema') \in {recorded' - 1, recorded'} /\ schema' \in Seq(Nat \X BOOLEAN)
    BY SMTT(30), <1>1, <1>2, <1>4
  <2> QED BY Zenon, <1>5, <2>1, <2>2 DEF SchemaOrder
<1>8. CASE w
  <2>1. bootAt' = [bootAt EXCEPT ![b] = "clean"] /\ UNCHANGED <<outcome, holder>>
    BY Zenon, <1>3, <1>8
  <2>2. SchemaTypes'
    BY Zenon, <1>1, <1>5, <2>1 DEF SchemaInv, SchemaTypes
  <2>3. BootInv(b)'
    BY Zenon, <1>1, <1>2, <1>4, <1>5, <1>6, <1>8, <2>1 DEF SchemaInv, SchemaTypes, BootInv, Busy
  <2>4. \A d \in Boots \ {b} : bootAt'[d] = bootAt[d] /\ target'[d] = target[d] /\ embeds'[d] = embeds[d]
    BY Zenon, <1>1, <2>1 DEF SchemaInv, SchemaTypes
  <2>5. BootsOnWholeSchema
    BY Zenon, <2>1 DEF BootsOnWholeSchema
  <2> QED BY Zenon, <1>1, <1>7, <2>1, <2>2, <2>3, <2>4, <2>5, OneBoot
<1>9. CASE ~w
  <2>1. /\ bootAt' = [bootAt EXCEPT ![b] = "returned"] /\ outcome' = [outcome EXCEPT ![b] = "error"]
        /\ holder' = {}
    BY Zenon, <1>3, <1>9 DEF Returns
  <2>2. SchemaTypes'
    BY Zenon, <1>1, <1>5, <2>1 DEF SchemaInv, SchemaTypes, Outcomes
  <2>3. BootInv(b)'
    BY Zenon, <2>1 DEF SchemaInv, SchemaTypes, BootInv, Busy
  <2>4. \A d \in Boots \ {b} : bootAt'[d] = bootAt[d] /\ target'[d] = target[d] /\ embeds'[d] = embeds[d]
    BY Zenon, <1>1, <2>1 DEF SchemaInv, SchemaTypes
  <2>5. BootsOnWholeSchema
    BY Zenon, <2>1 DEF BootsOnWholeSchema, SchemaInv, SchemaTypes
  <2> QED BY Zenon, <1>1, <1>7, <2>1, <2>2, <2>3, <2>4, <2>5, OneBoot
<1> QED BY Zenon, <1>8, <1>9

LEMMA MarkCleanKeeps == ASSUME SchemaInv, NEW b \in Boots, MarkClean(b) PROVE SchemaInv' /\ BootsOnWholeSchema
<1>1. /\ bootAt[b] = "clean" /\ b \in holder /\ holder = {b} /\ dirty' = FALSE
      /\ UNCHANGED <<embeds, recorded, schema, repairs>>
  BY Zenon DEF MarkClean, SchemaInv, SchemaTypes
<1>2. /\ target[b] = recorded /\ Len(schema) = recorded /\ schema[recorded] = <<recorded, TRUE>>
      /\ target[b] \in 1..embeds[b] /\ embeds[b] \in 0..Latest /\ dirty
  BY Zenon, <1>1 DEF SchemaInv, SchemaTypes, BootInv, Busy
<1>3. dirty' \in BOOLEAN /\ ~dirty'
  BY Zenon, <1>1
<1>4. SchemaOrder'
  BY Zenon, <1>1, <1>2, <1>3 DEF SchemaInv, SchemaOrder
<1>5. CASE pending(b)
  <2>1. /\ target' = [target EXCEPT ![b] = target[b] + 1] /\ bootAt' = [bootAt EXCEPT ![b] = "mark"]
        /\ UNCHANGED <<outcome, holder>>
    BY Zenon, <1>5 DEF MarkClean
  <2>2. target[b] + 1 \in 1..embeds[b] /\ target[b] + 1 \in 0..Latest
    BY SMTT(30), <1>2, <1>5, LatestAssumption DEF pending
  <2>3. SchemaTypes'
    BY Zenon, <1>1, <1>3, <2>1, <2>2 DEF SchemaInv, SchemaTypes
  <2>4. BootInv(b)'
    BY Zenon, <1>1, <1>2, <1>3, <2>1, <2>2 DEF SchemaInv, SchemaTypes, BootInv, Busy
  <2>5. \A d \in Boots \ {b} : bootAt'[d] = bootAt[d] /\ target'[d] = target[d] /\ embeds'[d] = embeds[d]
    BY Zenon, <1>1, <2>1 DEF SchemaInv, SchemaTypes
  <2>6. BootsOnWholeSchema
    BY Zenon, <2>1 DEF BootsOnWholeSchema
  <2> QED BY Zenon, <1>1, <1>4, <2>1, <2>3, <2>4, <2>5, <2>6, OneBoot
<1>6. CASE ~pending(b)
  <2>1. /\ bootAt' = [bootAt EXCEPT ![b] = "returned"] /\ outcome' = [outcome EXCEPT ![b] = "nil"]
        /\ holder' = {} /\ UNCHANGED target
    BY Zenon, <1>6 DEF MarkClean, Returns
  <2>2. SchemaTypes'
    BY Zenon, <1>1, <1>3, <2>1 DEF SchemaInv, SchemaTypes, Outcomes
  <2>3. BootInv(b)'
    BY Zenon, <2>1 DEF SchemaInv, SchemaTypes, BootInv, Busy
  <2>4. \A d \in Boots \ {b} : bootAt'[d] = bootAt[d] /\ target'[d] = target[d] /\ embeds'[d] = embeds[d]
    BY Zenon, <1>1, <2>1 DEF SchemaInv, SchemaTypes
  <2>5. SchemaInv'
    BY Zenon, <1>1, <1>4, <2>1, <2>2, <2>3, <2>4, OneBoot
  <2>6. embeds[b] = recorded
    BY SMTT(30), <1>2, <1>6 DEF pending
  <2>7. \A v \in 1..recorded : v \in 1..Len(schema') /\ schema'[v] = <<v, TRUE>>
    BY Zenon, <1>1, <1>2, <1>3, <1>4 DEF SchemaOrder
  <2>8. BootsOnWholeSchema
    BY Zenon, <1>1, <2>1, <2>6, <2>7 DEF BootsOnWholeSchema, SchemaInv, SchemaTypes
  <2> QED BY Zenon, <2>5, <2>8
<1> QED BY Zenon, <1>5, <1>6

LEMMA RepairKeeps == ASSUME SchemaInv, Repair PROVE SchemaInv' /\ BootsOnWholeSchema
<1>1. /\ dirty /\ holder = {} /\ dirty' = FALSE
      /\ schema' = Append(SubSeq(schema, 1, recorded - 1), <<recorded, TRUE>>)
      /\ UNCHANGED <<embeds, bootAt, target, outcome, holder, recorded>>
  BY Zenon DEF Repair
<1>2. dirty' \in BOOLEAN /\ ~dirty'
  BY Zenon, <1>1
<1>3. /\ recorded \in Nat \ {0} /\ schema \in Seq(Nat \X BOOLEAN) /\ Len(schema) \in {recorded - 1, recorded}
      /\ \A i \in 1..(recorded - 1) : schema[i] = <<i, TRUE>>
  <2>1. recorded \in Nat /\ Len(schema) \in Nat
    BY SMTT(30), LatestAssumption DEF SchemaInv, SchemaTypes, SchemaOrder
  <2>2. /\ recorded > 0 /\ Len(schema) \in {recorded - 1, recorded} /\ schema \in Seq(Nat \X BOOLEAN)
        /\ \A i \in 1..Len(schema) : i # recorded => schema[i] = <<i, TRUE>>
    BY Zenon, <1>1 DEF SchemaInv, SchemaOrder
  <2>3. \A i \in 1..(recorded - 1) : i \in 1..Len(schema) /\ i # recorded
    BY <2>1, <2>2
  <2>4. recorded \in Nat \ {0}
    BY <2>1, <2>2
  <2> QED BY Zenon, <2>2, <2>3, <2>4
<1> DEFINE kept == SubSeq(schema, 1, recorded - 1)
<1>4. /\ kept \in Seq(Nat \X BOOLEAN) /\ Len(kept) = recorded - 1
      /\ \A i \in 1..(recorded - 1) : kept[i] = schema[i]
  BY <1>3
<1> HIDE DEF kept
<1>5. /\ schema' \in Seq(Nat \X BOOLEAN) /\ Len(schema') = recorded
      /\ \A i \in 1..recorded : schema'[i] = <<i, TRUE>>
  <2>1. schema' = Append(kept, <<recorded, TRUE>>)
    BY Zenon, <1>1 DEF kept
  <2>2. /\ schema' \in Seq(Nat \X BOOLEAN) /\ Len(schema') = recorded
        /\ \A i \in 1..(recorded - 1) : schema'[i] = kept[i]
        /\ schema'[recorded] = <<recorded, TRUE>>
    <3>1. TRUE \in BOOLEAN /\ Len(kept) + 1 = recorded /\ recorded \in Nat
      BY <1>3, <1>4
    <3>2. /\ schema' \in Seq(Nat \X BOOLEAN) /\ Len(schema') = Len(kept) + 1
          /\ \A i \in 1..Len(kept) : schema'[i] = kept[i]
          /\ schema'[Len(kept) + 1] = <<recorded, TRUE>>
      BY ZenonT(30), <1>4, <2>1, <3>1, AppendFacts
    <3> QED BY Zenon, <1>4, <3>1, <3>2
  <2>3. ASSUME NEW i \in 1..recorded PROVE schema'[i] = <<i, TRUE>>
    <3>1. i = recorded \/ i \in 1..(recorded - 1)
      BY <1>3
    <3> QED BY Zenon, <1>3, <1>4, <2>2, <3>1
  <2> QED BY Zenon, <2>2, <2>3
<1>6. SchemaOrder'
  BY Zenon, <1>1, <1>2, <1>5 DEF SchemaOrder
<1>7. SchemaTypes'
  BY Zenon, <1>1, <1>2 DEF SchemaInv, SchemaTypes
<1>8. \A b \in Boots : BootInv(b)'
  BY Zenon, <1>1 DEF SchemaInv, BootInv, Busy
<1>9. BootsOnWholeSchema
  BY Zenon, <1>1 DEF BootsOnWholeSchema
<1> QED BY Zenon, <1>6, <1>7, <1>8, <1>9 DEF SchemaInv

LEMMA SchemaStepKeeps == SchemaInv /\ MigrationsNext => SchemaInv' /\ BootsOnWholeSchema
<1> SUFFICES ASSUME SchemaInv, MigrationsNext PROVE SchemaInv' /\ BootsOnWholeSchema
  OBVIOUS
<1>1. ASSUME NEW b \in Boots, LockTimeout(b) \/ Dies(b) PROVE SchemaInv' /\ BootsOnWholeSchema
  <2>1. "error" \in Outcomes /\ "died" \in Outcomes
    BY Zenon DEF Outcomes
  <2>2. CASE LockTimeout(b)
    <3>1. holder' = holder \ {b}
      BY Zenon, <2>2 DEF LockTimeout, SchemaInv, BootInv, Busy
    <3> QED BY Zenon, <2>1, <2>2, <3>1, ReturnKeeps DEF LockTimeout
  <2>3. CASE Dies(b)
    BY Zenon, <2>1, <2>3, ReturnKeeps DEF Dies
  <2> QED BY Zenon, <1>1, <2>2, <2>3
<1> QED BY Zenon, <1>1, RunKeeps, UpKeeps, MarkDirtyKeeps, ExecKeeps, MarkCleanKeeps, RepairKeeps DEF MigrationsNext

(***************************************************************************)
(* migrate.Run, for any number of boots of any binaries that race, fail,   *)
(* die and are repaired: the schema is the migrations in order, each once, *)
(* only the one recorded as dirty may be half done, and a replica that Run *)
(* lets boot finds every migration it embeds.                              *)
(***************************************************************************)
THEOREM SchemaKept == MigrationsSpec => SchemaContract
<1> DEFINE Promise == MigrationsTypeOK' /\ AppliedInOrder' /\ BootsOnWholeSchema
<1>1. SchemaInv' => MigrationsTypeOK' /\ AppliedInOrder'
  BY SchemaInvGives, PTL
<1>2. SchemaInv /\ [MigrationsNext]_bootVars => SchemaInv'
  <2>1. ASSUME SchemaInv, UNCHANGED bootVars PROVE SchemaInv'
    <3>1. dirty' \in BOOLEAN
      BY Zenon, <2>1 DEF SchemaInv, SchemaTypes, bootVars
    <3>2. SchemaTypes' /\ SchemaOrder' /\ \A b \in Boots : BootInv(b)'
      BY Zenon, <2>1, <3>1 DEF SchemaInv, SchemaTypes, SchemaOrder, BootInv, bootVars
    <3> QED BY Zenon, <3>2 DEF SchemaInv
  <2> QED BY Zenon, <2>1, SchemaStepKeeps
<1>3. SchemaInv /\ [MigrationsNext]_bootVars => [Promise]_bootVars
  BY Zenon, <1>1, SchemaStepKeeps
<1> QED BY <1>2, <1>3, InitSchema, PTL DEF MigrationsSpec, SchemaContract
=============================================================================
