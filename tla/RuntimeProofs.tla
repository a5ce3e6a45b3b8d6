--------------------------- MODULE RuntimeProofs ----------------------------
(***************************************************************************)
(* What a service runs beside its handlers, proved for any number of       *)
(* messages, runners and dependencies and any MaxAttempts, Prefetch and    *)
(* Dedup capacity: the consumer runner and the health probes.              *)
(***************************************************************************)
EXTENDS ConsumerRunner, HealthProbes, FiniteSetTheorems, TLAPS

(***************************************************************************)
(* The consumer runner: no message is lost, and none is dead-lettered      *)
(* without a reason.                                                       *)
(***************************************************************************)

(* Reaching MaxAttempts is visible only until the rejection is settled. *)
CountInv ==
  \A r \in Runners : \A m \in Msgs :
    MaxAttempts > 0 =>
      \/ attempts[r][m] < MaxAttempts
      \/ pc[r] = "settle" /\ cur[r] = m /\ outcome[r] = "reject"

(* A runner in dispatch has a delivery, and only one that has left the     *)
(* handler has an outcome.                                                 *)
DispatchInv ==
  \A r \in Runners :
    /\ pc[r] \in {"handler", "settle"} => cur[r] \in Msgs
    /\ pc[r] = "settle" => outcome[r] # "none"

TypeInv == TypeOK /\ CountInv /\ DispatchInv

LEMMA TypeInit == Init => TypeInv
<1> SUFFICES ASSUME Init PROVE TypeInv
  OBVIOUS
<1>1. TypeOK
  <2>1. 0 \in 0..MaxAttempts
    BY ConsumerAssumption
  <2>2. /\ attempts \in [Runners -> [Msgs -> 0..MaxAttempts]]
        /\ requeues \in [Msgs -> 0..MaxAttempts]
    BY Zenon, <2>1 DEF Init
  <2>3. /\ buf \in [Runners -> Seq(Msgs)] /\ dedup \in [Runners -> Seq(Msgs)]
        /\ sent \in [Runners -> SUBSET (Msgs \X Frames)]
        /\ marked \in [Runners -> SUBSET Msgs]
        /\ since \in [Runners -> [Msgs -> SUBSET Msgs]]
        /\ processed \subseteq Msgs /\ refused \subseteq Msgs
    BY DEF Init
  <2>4. /\ loc \in [Msgs -> {"queue", "unacked", "acked", "dlq"}]
        /\ holder \in [Msgs -> SUBSET Runners]
        /\ link \in [Runners -> {"down", "up", "closed"}]
        /\ pc \in [Runners -> {"select", "handler", "settle", "exited", "dead"}]
        /\ cur \in [Runners -> Msgs \cup {0}]
        /\ outcome \in [Runners -> Frames \cup {"none", "duplicate"}]
        /\ cancelled \in [Runners -> BOOLEAN] /\ calm \in BOOLEAN
    BY Zenon DEF Init
  <2> QED BY Zenon, <2>2, <2>3, <2>4 DEF TypeOK
<1>2. CountInv
  BY Zenon DEF Init, CountInv
<1>3. DispatchInv
  BY Zenon DEF Init, DispatchInv
<1> QED BY Zenon, <1>1, <1>2, <1>3 DEF TypeInv

LEMMA TypeNext == TypeInv /\ [Next]_vars => TypeInv'
<1> SUFFICES ASSUME TypeInv, [Next]_vars PROVE TypeInv'
  OBVIOUS
<1> USE ConsumerAssumption DEF TypeInv
<1>1. ASSUME NEW r \in Runners, Deliver(r) PROVE TypeInv'
  BY <1>1 DEF Deliver, Ready, TypeOK, CountInv, DispatchInv, dispatchVars, memory, history
<1>2. ASSUME NEW r \in Runners, ReadFrame(r) PROVE TypeInv'
  BY <1>2 DEF ReadFrame, SettledAs, Frames, TypeOK, CountInv, DispatchInv, dispatchVars,
              memory, history
<1>3. ASSUME NEW r \in Runners, Drop(r) PROVE TypeInv'
  BY ZenonT(30), <1>3 DEF Drop, giveBack, TypeOK, CountInv, DispatchInv, dispatchVars, memory, history
<1>4. ASSUME NEW r \in Runners, Connect(r) \/ Notice(r) \/ Cancel(r) PROVE TypeInv'
  <2>1. CASE Connect(r)
    BY Zenon, <2>1 DEF Connect, TypeOK, CountInv, DispatchInv, broker, dispatchVars, memory, history
  <2>2. CASE Notice(r)
    BY <2>2 DEF Notice, TypeOK, CountInv, DispatchInv, broker, dispatchVars, memory, history
  <2>3. CASE Cancel(r)
    BY Zenon, <2>3 DEF Cancel, TypeOK, CountInv, DispatchInv, broker, dispatchVars, memory, history
  <2>4. QED
    BY Zenon, <1>4, <2>1, <2>2, <2>3
<1>5. ASSUME NEW r \in Runners, Exit(r) PROVE TypeInv'
  BY <1>5 DEF Exit, giveBack, TypeOK, CountInv, DispatchInv, memory, history
<1>6. ASSUME NEW r \in Runners, Take(r) PROVE TypeInv'
  <2>1. Head(buf[r]) \in Msgs /\ Tail(buf[r]) \in Seq(Msgs)
    <3>1. buf[r] \in Seq(Msgs) /\ buf[r] # <<>>
      BY Zenon, <1>6 DEF Take, TypeOK
    <3>2. QED
      BY <3>1
  <2>2. TypeOK'
    BY ZenonT(30), <1>6, <2>1 DEF Take, TypeOK, broker, memory, history
  <2>3. CountInv' /\ DispatchInv'
    <3>1. pc[r] = "select"
      BY Zenon, <1>6 DEF Take
    <3>2. /\ attempts' = attempts
          /\ \A q \in Runners \ {r} :
               pc'[q] = pc[q] /\ cur'[q] = cur[q] /\ outcome'[q] = outcome[q]
      BY <1>6 DEF Take, TypeOK, memory
    <3>3. cur'[r] \in Msgs /\ (pc'[r] = "settle" => outcome'[r] = "duplicate")
      BY Zenon, <1>6, <2>1 DEF Take, TypeOK
    <3>4. QED
      BY Zenon, <3>1, <3>2, <3>3 DEF CountInv, DispatchInv
  <2>4. QED
    BY Zenon, <2>2, <2>3
<1>7. ASSUME NEW r \in Runners, Handle(r) PROVE TypeInv'
  <2>1. cur[r] \in Msgs
    BY Zenon, <1>7 DEF Handle, DispatchInv
  <2>2. attempts[r][cur[r]] \in 0..MaxAttempts
        /\ (MaxAttempts > 0 => attempts[r][cur[r]] < MaxAttempts)
    <3>1. pc[r] = "handler"
      BY Zenon, <1>7 DEF Handle
    <3>2. attempts[r][cur[r]] \in 0..MaxAttempts
      BY <2>1 DEF TypeOK
    <3>3. QED
      BY Zenon, <2>1, <3>1, <3>2 DEF CountInv
  <2>3. attempts' \in [Runners -> [Msgs -> 0..MaxAttempts]]
    <3>1. \/ attempts' = attempts
          \/ MaxAttempts > 0 /\ attempts' = [attempts EXCEPT ![r][cur[r]] = @ + 1]
      BY <1>7 DEF Handle, countAttempt
    <3>2. attempts \in [Runners -> [Msgs -> 0..MaxAttempts]]
      BY Zenon DEF TypeOK
    <3>3. MaxAttempts > 0 => attempts[r][cur[r]] + 1 \in 0..MaxAttempts
      BY <2>2
    <3>4. QED
      BY SMTT(30), <2>1, <3>1, <3>2, <3>3
  <2>4. requeues' \in [Msgs -> 0..MaxAttempts]
    BY <1>7, <2>1 DEF Handle, TypeOK
  <2>5. TypeOK'
    BY ZenonT(30), <1>7, <2>1, <2>3, <2>4 DEF Handle, TypeOK, Frames, broker
  <2>6. CountInv'
    <3> SUFFICES ASSUME NEW q \in Runners, NEW m \in Msgs, MaxAttempts > 0
                 PROVE  \/ attempts'[q][m] < MaxAttempts
                        \/ pc'[q] = "settle" /\ cur'[q] = m /\ outcome'[q] = "reject"
      BY Zenon DEF CountInv
    <3>1. CASE q = r /\ m = cur[r]
      BY <1>7, <2>1, <2>2, <3>1 DEF Handle, countAttempt, attemptExceeded, TypeOK
    <3>2. CASE q # r \/ m # cur[r]
      BY <1>7, <3>2 DEF Handle, countAttempt, TypeOK, CountInv
    <3>3. QED
      BY Zenon, <3>1, <3>2
  <2>7. DispatchInv'
    BY <1>7, <2>1 DEF Handle, TypeOK, DispatchInv
  <2>8. QED
    BY Zenon, <2>5, <2>6, <2>7
<1>8. ASSUME NEW r \in Runners, Settle(r) PROVE TypeInv'
  <2>1. cur[r] \in Msgs
    BY Zenon, <1>8 DEF Settle, DispatchInv
  <2>2. sent' \in [Runners -> SUBSET (Msgs \X Frames)]
    BY <1>8, <2>1 DEF Settle, write, TypeOK, Frames
  <2>3. dedup' \in [Runners -> Seq(Msgs)]
    <3>1. CASE dedup' = dedup
      BY Zenon, <3>1 DEF TypeOK
    <3>2. CASE dedup' # dedup
      <4>1. Mark(r, cur[r])
        BY Zenon, <1>8, <3>2 DEF Settle, memory
      <4>2. dedup[r] \in Seq(Msgs) /\ Len(dedup[r]) \in Nat
        BY DEF TypeOK
      <4>3. Len(dedup[r]) >= DedupCap => dedup[r] # <<>>
        BY <4>2
      <4>4. Len(dedup[r]) >= DedupCap => Tail(dedup[r]) \in Seq(Msgs)
        BY <4>2, <4>3
      <4>5. Append(IF Len(dedup[r]) >= DedupCap THEN Tail(dedup[r]) ELSE dedup[r], cur[r])
              \in Seq(Msgs)
        BY <2>1, <4>2, <4>4
      <4>6. QED
        BY Zenon, <4>1, <4>5, <3>2 DEF Mark, TypeOK
    <3>3. QED
      BY Zenon, <3>1, <3>2
  <2>4. /\ attempts' \in [Runners -> [Msgs -> 0..MaxAttempts]]
        /\ \A q \in Runners, m \in Msgs :
             attempts'[q][m] = attempts[q][m] \/ attempts'[q][m] = 0
        /\ outcome[r] = "reject" => attempts'[r][cur[r]] = 0
    <3>1. \/ attempts' = attempts /\ outcome[r] # "reject"
          \/ attempts' = [attempts EXCEPT ![r][cur[r]] = 0]
      BY Zenon, <1>8 DEF Settle, forgetAttempts, memory
    <3>2. attempts \in [Runners -> [Msgs -> 0..MaxAttempts]]
      BY ZenonT(30) DEF TypeOK
    <3>3. QED
      BY <2>1, <3>1, <3>2
  <2>5. /\ marked' \in [Runners -> SUBSET Msgs]
        /\ since' \in [Runners -> [Msgs -> SUBSET Msgs]]
    <3>1. (marked' = marked /\ since' = since) \/ remember(r, cur[r])
      BY Zenon, <1>8 DEF Settle, memory
    <3>2. CASE remember(r, cur[r])
      <4>1. marked' \in [Runners -> SUBSET Msgs]
        BY Zenon, <2>1, <3>2 DEF remember, TypeOK
      <4>2. [n \in Msgs |-> IF n = cur[r] THEN {} ELSE (since[r][n] \cup {cur[r]}) \ NoId]
              \in [Msgs -> SUBSET Msgs]
        BY <2>1 DEF TypeOK
      <4>3. QED
        BY Zenon, <4>1, <4>2, <3>2 DEF remember, TypeOK
    <3>3. QED
      BY Zenon, <3>1, <3>2 DEF TypeOK
  <2>6. TypeOK'
    BY Zenon, <1>8, <2>2, <2>3, <2>4, <2>5 DEF Settle, TypeOK, history
  <2>7. CountInv'
    <3> SUFFICES ASSUME NEW q \in Runners, NEW m \in Msgs, MaxAttempts > 0
                 PROVE  \/ attempts'[q][m] < MaxAttempts
                        \/ pc'[q] = "settle" /\ cur'[q] = m /\ outcome'[q] = "reject"
      BY ZenonT(30) DEF CountInv
    <3>1. \/ attempts[q][m] < MaxAttempts
          \/ pc[q] = "settle" /\ cur[q] = m /\ outcome[q] = "reject"
      BY Zenon DEF CountInv
    <3>2. attempts'[q][m] = attempts[q][m] \/ attempts'[q][m] = 0
      BY Zenon, <2>4
    <3>3. CASE q = r
      BY Zenon, <2>4, <3>1, <3>2, <3>3
    <3>4. CASE q # r
      <4>1. pc'[q] = pc[q] /\ cur'[q] = cur[q] /\ outcome'[q] = outcome[q]
        BY Zenon, <1>8, <3>4 DEF Settle, TypeOK
      <4>2. QED
        BY Zenon, <3>1, <3>2, <4>1
    <3>5. QED
      BY Zenon, <3>3, <3>4
  <2>8. DispatchInv'
    BY Zenon, <1>8 DEF Settle, TypeOK, DispatchInv
  <2>9. QED
    BY ZenonT(30), <2>6, <2>7, <2>8
<1>9. ASSUME NEW r \in Runners, Crash(r) PROVE TypeInv'
  BY <1>9 DEF Crash, giveBack, TypeOK, CountInv, DispatchInv, history
<1>10. ASSUME NEW r \in Runners, Restart(r) PROVE TypeInv'
  BY <1>10 DEF Restart, TypeOK, CountInv, DispatchInv, broker, memory, history
<1>11. CASE BecomeCalm \/ UNCHANGED vars
  BY ZenonT(30), <1>11
  DEF BecomeCalm, vars, TypeOK, CountInv, DispatchInv, broker, dispatchVars, memory,
               history
<1>12. QED
  BY Zenon, <1>1, <1>2, <1>3, <1>4, <1>5, <1>6, <1>7, <1>8, <1>9, <1>10, <1>11
  DEF Next, Broker, Consume

(***************************************************************************)
(* Every reachable state is well typed; in particular no attempt counter   *)
(* passes MaxAttempts, although a rejection may be lost and tried again.   *)
(***************************************************************************)
THEOREM TypeCorrect == Spec => []TypeOK
<1>1. TypeInv => TypeOK
  BY Zenon DEF TypeInv
<1>2. QED
  BY TypeInit, TypeNext, <1>1, PTL DEF Spec
-----------------------------------------------------------------------------
(* What has left the handler with an ack, in any form, was processed. *)
AckInv ==
  /\ \A r \in Runners : \A i \in DOMAIN dedup[r] : dedup[r][i] \in processed
  /\ \A r \in Runners :
       pc[r] = "settle" /\ outcome[r] \in {"ack", "duplicate"} => cur[r] \in processed
  /\ \A r \in Runners : \A f \in sent[r] : f[2] = "ack" => f[1] \in processed
  /\ AckedWasProcessed

(* What has left it with a rejection may be dead-lettered. *)
RejectInv ==
  /\ \A r \in Runners : \A m \in Msgs : attempts[r][m] <= requeues[m]
  /\ \A r \in Runners : pc[r] = "settle" /\ outcome[r] = "reject" => MayDeadLetter(cur[r])
  /\ \A r \in Runners : \A f \in sent[r] : f[2] = "reject" => MayDeadLetter(f[1])
  /\ DeadLetterNeedsReason

LEMMA SafeInit == Init => AckInv /\ RejectInv
BY ConsumerAssumption DEF Init, AckInv, RejectInv, AckedWasProcessed, DeadLetterNeedsReason

(* What Dedup.Mark leaves in its queue was there before, or is the new id. *)
LEMMA QueueMembers ==
  ASSUME NEW s \in Seq(Msgs), NEW m \in Msgs, NEW S,
         \A i \in DOMAIN s : s[i] \in S, m \in S
  PROVE  LET t == Append(IF Len(s) >= DedupCap THEN Tail(s) ELSE s, m)
         IN  \A i \in DOMAIN t : t[i] \in S
<1>1. CASE Len(s) >= DedupCap
  <2>1. s # <<>> /\ Tail(s) \in Seq(Msgs) /\ Len(Tail(s)) = Len(s) - 1
    BY <1>1, ConsumerAssumption
  <2>2. \A i \in 1..Len(s) - 1 : Tail(s)[i] = s[i + 1] /\ i + 1 \in DOMAIN s
    BY <2>1
  <2>3. QED
    BY <1>1, <2>1, <2>2
<1>2. CASE ~(Len(s) >= DedupCap)
  BY <1>2
<1>3. QED
  BY Zenon, <1>1, <1>2

LEMMA AckNext == TypeInv /\ AckInv /\ [Next]_vars => AckInv'
<1> SUFFICES ASSUME TypeInv, AckInv, [Next]_vars PROVE AckInv'
  OBVIOUS
<1> USE ConsumerAssumption DEF TypeInv
<1>1. ASSUME NEW r \in Runners, Deliver(r) PROVE AckInv'
  BY Zenon, <1>1 DEF Deliver, Ready, TypeOK, AckInv, AckedWasProcessed, dispatchVars, memory, history
<1>2. ASSUME NEW r \in Runners, ReadFrame(r) PROVE AckInv'
  BY <1>2 DEF ReadFrame, SettledAs, Frames, TypeOK, AckInv, AckedWasProcessed, dispatchVars,
              memory, history
<1>3. ASSUME NEW r \in Runners, Drop(r) PROVE AckInv'
  BY ZenonT(30), <1>3 DEF Drop, giveBack, TypeOK, AckInv, AckedWasProcessed, dispatchVars, memory, history
<1>4. ASSUME NEW r \in Runners, Connect(r) \/ Notice(r) \/ Cancel(r) PROVE AckInv'
  BY Zenon, <1>4 DEF Connect, Notice, Cancel, AckInv, AckedWasProcessed, broker,
              dispatchVars, memory, history
<1>5. ASSUME NEW r \in Runners, Exit(r) PROVE AckInv'
  BY Zenon, <1>5 DEF Exit, giveBack, TypeOK, AckInv, AckedWasProcessed, memory, history
<1>6. ASSUME NEW r \in Runners, Take(r) PROVE AckInv'
  <2>1. PICK m : m = Head(buf[r])
    OBVIOUS
  <2>2. Seen(r, m) => m \in processed
    BY Zenon DEF Seen, AckInv
  <2>3. \A q \in Runners :
          pc'[q] = "settle" /\ outcome'[q] \in {"ack", "duplicate"} => cur'[q] \in processed
    <3>1. pc'[r] = "settle" => cur'[r] = m /\ Seen(r, m)
      BY Zenon, <1>6, <2>1 DEF Take, TypeOK
    <3>2. \A q \in Runners \ {r} :
            pc'[q] = pc[q] /\ cur'[q] = cur[q] /\ outcome'[q] = outcome[q]
      BY SMTT(30), <1>6 DEF Take, TypeOK
    <3>3. QED
      BY Zenon, <2>2, <3>1, <3>2 DEF AckInv
  <2>4. QED
    BY Zenon, <1>6, <2>3 DEF Take, AckInv, AckedWasProcessed, broker, memory, history
<1>7. ASSUME NEW r \in Runners, Handle(r) PROVE AckInv'
  BY SMTT(30), <1>7 DEF Handle, TypeOK, AckInv, AckedWasProcessed, broker
<1>8. ASSUME NEW r \in Runners, Settle(r) PROVE AckInv'
  <2>1. /\ cur[r] \in Msgs
        /\ outcome[r] \in {"ack", "duplicate"} => cur[r] \in processed
    BY Zenon, <1>8 DEF Settle, DispatchInv, AckInv
  <2>2. \A q \in Runners : \A i \in DOMAIN dedup'[q] : dedup'[q][i] \in processed
    <3>1. CASE dedup' = dedup
      BY Zenon, <3>1 DEF AckInv
    <3>2. CASE dedup' # dedup
      <4>1. Mark(r, cur[r]) /\ cur[r] \in processed
        BY Zenon, <1>8, <2>1, <3>2 DEF Settle, memory
      <4> DEFINE s == Append(IF Len(dedup[r]) >= DedupCap THEN Tail(dedup[r]) ELSE dedup[r],
                             cur[r])
      <4>2. dedup' = [dedup EXCEPT ![r] = s]
        BY Zenon, <3>2, <4>1 DEF Mark
      <4>3. dedup[r] \in Seq(Msgs) /\ \A i \in DOMAIN dedup[r] : dedup[r][i] \in processed
        BY Zenon DEF TypeOK, AckInv
      <4>4. \A i \in DOMAIN s : s[i] \in processed
        BY Zenon, <2>1, <4>1, <4>3, QueueMembers
      <4> HIDE DEF s
      <4>5. QED
        BY Zenon, <4>2, <4>4 DEF TypeOK, AckInv
    <3>3. QED
      BY Zenon, <3>1, <3>2
  <2>3. \A q \in Runners : \A f \in sent'[q] : f[2] = "ack" => f[1] \in processed
    <3>1. \/ sent' = sent
          \/ sent' = [sent EXCEPT ![r] = @ \cup {<<cur[r], "ack">>}] /\ cur[r] \in processed
          \/ sent' = [sent EXCEPT ![r] = @ \cup {<<cur[r], "requeue">>}]
          \/ sent' = [sent EXCEPT ![r] = @ \cup {<<cur[r], "reject">>}]
      BY Zenon, <1>8, <2>1 DEF Settle, write
    <3>2. SUFFICES ASSUME NEW q \in Runners, NEW f \in sent'[q], f[2] = "ack"
                   PROVE  f[1] \in processed
      OBVIOUS
    <3>3. \/ f \in sent[q]
          \/ f = <<cur[r], "ack">> /\ cur[r] \in processed
          \/ f = <<cur[r], "requeue">>
          \/ f = <<cur[r], "reject">>
      <4>1. sent \in [Runners -> SUBSET (Msgs \X Frames)]
        BY Zenon DEF TypeOK
      <4>2. QED
        BY <3>1, <3>2, <4>1
    <3>4. QED
      BY <3>2, <3>3 DEF AckInv
  <2>4. \A q \in Runners :
          pc'[q] = "settle" /\ outcome'[q] \in {"ack", "duplicate"} => cur'[q] \in processed
    BY Zenon, <1>8 DEF Settle, TypeOK, AckInv
  <2>5. QED
    BY Zenon, <1>8, <2>2, <2>3, <2>4 DEF Settle, AckInv, AckedWasProcessed, history
<1>9. ASSUME NEW r \in Runners, Crash(r) PROVE AckInv'
  BY <1>9 DEF Crash, giveBack, TypeOK, AckInv, AckedWasProcessed, history
<1>10. ASSUME NEW r \in Runners, Restart(r) PROVE AckInv'
  BY Zenon, <1>10 DEF Restart, TypeOK, AckInv, AckedWasProcessed, broker, memory, history
<1>11. CASE BecomeCalm \/ UNCHANGED vars
  BY Zenon, <1>11 DEF BecomeCalm, vars, AckInv, AckedWasProcessed, broker, dispatchVars, memory,
               history
<1>12. QED
  BY Zenon, <1>1, <1>2, <1>3, <1>4, <1>5, <1>6, <1>7, <1>8, <1>9, <1>10, <1>11
  DEF Next, Broker, Consume

LEMMA RejectNext == TypeInv /\ RejectInv /\ [Next]_vars => RejectInv'
<1> SUFFICES ASSUME TypeInv, RejectInv, [Next]_vars PROVE RejectInv'
  OBVIOUS
<1> USE ConsumerAssumption DEF TypeInv
<1>1. ASSUME NEW r \in Runners, Deliver(r) PROVE RejectInv'
  BY Zenon, <1>1 DEF Deliver, Ready, TypeOK, RejectInv, DeadLetterNeedsReason, MayDeadLetter,
              dispatchVars, memory, history
<1>2. ASSUME NEW r \in Runners, ReadFrame(r) PROVE RejectInv'
  <2>1. PICK f \in sent[r] :
          /\ loc' = [loc EXCEPT ![f[1]] = SettledAs(f[2])]
          /\ sent' = [sent EXCEPT ![r] = @ \ {f}]
    BY Zenon, <1>2 DEF ReadFrame
  <2>2. UNCHANGED <<pc, cur, outcome, attempts, refused, requeues>>
    BY Zenon, <1>2 DEF ReadFrame, dispatchVars, memory, history
  <2>3. f[1] \in Msgs /\ f[2] \in Frames
    BY DEF TypeOK
  <2>4. \A m : MayDeadLetter(m)' <=> MayDeadLetter(m)
    BY Zenon, <2>2 DEF MayDeadLetter
  <2>5. SettledAs(f[2]) = "dlq" => f[2] = "reject"
    BY Zenon, <2>3 DEF SettledAs, Frames
  <2>6. DeadLetterNeedsReason'
    BY Zenon, <2>1, <2>3, <2>4, <2>5 DEF RejectInv, DeadLetterNeedsReason, TypeOK
  <2>7. \A x \in Runners : sent'[x] \subseteq sent[x]
    BY Zenon, <2>1 DEF TypeOK
  <2> QED BY Zenon, <2>2, <2>4, <2>6, <2>7 DEF RejectInv
<1>3. ASSUME NEW r \in Runners, Drop(r) PROVE RejectInv'
  BY ZenonT(30), <1>3 DEF Drop, giveBack, TypeOK, RejectInv, DeadLetterNeedsReason, MayDeadLetter,
              dispatchVars, memory, history
<1>4. ASSUME NEW r \in Runners, Connect(r) \/ Notice(r) \/ Cancel(r) PROVE RejectInv'
  BY Zenon, <1>4 DEF Connect, Notice, Cancel, RejectInv, DeadLetterNeedsReason,
              MayDeadLetter, broker, dispatchVars, memory, history
<1>5. ASSUME NEW r \in Runners, Exit(r) PROVE RejectInv'
  BY SMTT(30), <1>5
  DEF Exit, giveBack, TypeOK, RejectInv, DeadLetterNeedsReason, MayDeadLetter, memory,
              history
<1>6. ASSUME NEW r \in Runners, Take(r) PROVE RejectInv'
  <2>1. \A q \in Runners :
          pc'[q] = "settle" /\ outcome'[q] = "reject"
            => pc[q] = "settle" /\ outcome[q] = "reject" /\ cur'[q] = cur[q]
    BY SMTT(30), <1>6 DEF Take, TypeOK
  <2>2. QED
    BY SMTT(30), <1>6, <2>1
    DEF Take, RejectInv, DeadLetterNeedsReason, MayDeadLetter, broker, memory,
                      history
<1>7. ASSUME NEW r \in Runners, Handle(r) PROVE RejectInv'
  <2>1. cur[r] \in Msgs
    BY Zenon, <1>7 DEF Handle, DispatchInv
  <2>2. \A m \in Msgs : MayDeadLetter(m) => MayDeadLetter(m)'
    BY <1>7, <2>1 DEF Handle, MayDeadLetter, TypeOK
  <2>3. \A q \in Runners : \A m \in Msgs : attempts'[q][m] <= requeues'[m]
    <3>1. /\ attempts \in [Runners -> [Msgs -> 0..MaxAttempts]]
          /\ attempts' \in [Runners -> [Msgs -> 0..MaxAttempts]]
          /\ requeues \in [Msgs -> 0..MaxAttempts]
          /\ \A q \in Runners : \A m \in Msgs : attempts[q][m] <= requeues[m]
      BY Zenon, TypeNext DEF RejectInv, TypeOK
    <3>2. CASE attempts' = attempts
      BY <1>7, <2>1, <3>1, <3>2 DEF Handle
    <3>3. CASE attempts' # attempts
      <4>1. /\ attempts' = [attempts EXCEPT ![r][cur[r]] = @ + 1]
            /\ requeues' = [requeues EXCEPT ![cur[r]] = IF @ < MaxAttempts THEN @ + 1 ELSE @]
        BY Zenon, <1>7, <3>3 DEF Handle, countAttempt
      <4>2. QED
        BY <2>1, <3>1, <4>1
    <3>4. QED
      BY Zenon, <3>2, <3>3
  <2>4. outcome'[r] = "reject" => MayDeadLetter(cur[r])'
    <3>1. CASE refused' = refused \cup {cur[r]}
      BY Zenon, <1>7, <3>1 DEF Handle, MayDeadLetter
    <3>2. CASE refused' # refused \cup {cur[r]} /\ outcome'[r] = "reject"
      <4>1. countAttempt(r, cur[r]) /\ attemptExceeded(r, cur[r])
        BY ZenonT(30), <1>7, <3>2 DEF Handle, TypeOK
      <4>2. /\ MaxAttempts > 0 /\ cur[r] \notin NoId
            /\ attempts'[r][cur[r]] = attempts[r][cur[r]] + 1
            /\ attempts[r][cur[r]] + 1 >= MaxAttempts
        BY SMTT(30), <2>1, <4>1 DEF countAttempt, attemptExceeded, TypeOK
      <4>3. attempts[r][cur[r]] \in Nat /\ requeues'[cur[r]] \in 0..MaxAttempts
        <5>1. /\ attempts \in [Runners -> [Msgs -> 0..MaxAttempts]]
              /\ requeues' \in [Msgs -> 0..MaxAttempts]
          BY Zenon, TypeNext DEF TypeOK
        <5>2. attempts[r][cur[r]] \in 0..MaxAttempts /\ requeues'[cur[r]] \in 0..MaxAttempts
          BY Zenon, <2>1, <5>1
        <5>3. QED
          BY <5>2
      <4>4. requeues'[cur[r]] = MaxAttempts
        BY SMTT(30), <2>1, <2>3, <4>2, <4>3
      <4>5. QED
        BY Zenon, <1>7, <4>2, <4>4 DEF Handle, MayDeadLetter
    <3>3. QED
      BY Zenon, <3>1, <3>2
  <2>5. QED
    BY SMTT(30), <1>7, <2>1, <2>2, <2>3, <2>4
    DEF Handle, RejectInv, DeadLetterNeedsReason, DispatchInv, TypeOK, broker
<1>8. ASSUME NEW r \in Runners, Settle(r) PROVE RejectInv'
  <2>1. cur[r] \in Msgs /\ (outcome[r] = "reject" => MayDeadLetter(cur[r]))
    BY Zenon, <1>8 DEF Settle, DispatchInv, RejectInv
  <2>2. \A m : MayDeadLetter(m) => MayDeadLetter(m)'
    BY Zenon, <1>8 DEF Settle, MayDeadLetter, history
  <2>3. \A q \in Runners : \A m \in Msgs : attempts'[q][m] <= requeues'[m]
    <3>1. \/ attempts' = attempts
          \/ attempts' = [attempts EXCEPT ![r][cur[r]] = 0]
      BY Zenon, <1>8 DEF Settle, forgetAttempts, memory
    <3>2. /\ requeues' = requeues
          /\ attempts \in [Runners -> [Msgs -> 0..MaxAttempts]]
          /\ requeues \in [Msgs -> 0..MaxAttempts]
          /\ \A q \in Runners : \A m \in Msgs : attempts[q][m] <= requeues[m]
      BY Zenon, <1>8 DEF Settle, RejectInv, TypeOK, history
    <3>3. QED
      BY <2>1, <3>1, <3>2
  <2>4. \A q \in Runners : \A f \in sent'[q] : f[2] = "reject" => MayDeadLetter(f[1])
    <3>1. \/ sent' = sent
          \/ sent' = [sent EXCEPT ![r] = @ \cup {<<cur[r], "ack">>}]
          \/ sent' = [sent EXCEPT ![r] = @ \cup {<<cur[r], "requeue">>}]
          \/ sent' = [sent EXCEPT ![r] = @ \cup {<<cur[r], "reject">>}] /\ MayDeadLetter(cur[r])
      BY Zenon, <1>8, <2>1 DEF Settle, write
    <3>2. SUFFICES ASSUME NEW q \in Runners, NEW f \in sent'[q], f[2] = "reject"
                   PROVE  MayDeadLetter(f[1])
      OBVIOUS
    <3>3. \/ f \in sent[q]
          \/ f = <<cur[r], "reject">> /\ MayDeadLetter(cur[r])
          \/ f = <<cur[r], "requeue">>
          \/ f = <<cur[r], "ack">>
      <4>1. sent \in [Runners -> SUBSET (Msgs \X Frames)]
        BY ZenonT(30) DEF TypeOK
      <4>2. QED
        BY SMTT(30), <3>1, <3>2, <4>1
    <3>4. QED
      BY SMTT(30), <3>2, <3>3 DEF RejectInv
  <2>5. \A q \in Runners :
          pc'[q] = "settle" /\ outcome'[q] = "reject" => MayDeadLetter(cur'[q])
    BY Zenon, <1>8 DEF Settle, TypeOK, RejectInv
  <2>6. QED
    BY Zenon, <1>8, <2>2, <2>3, <2>4, <2>5
    DEF Settle, RejectInv, DeadLetterNeedsReason, MayDeadLetter, history
<1>9. ASSUME NEW r \in Runners, Crash(r) PROVE RejectInv'
  BY SMTT(30), <1>9
  DEF Crash, giveBack, TypeOK, RejectInv, DeadLetterNeedsReason, MayDeadLetter, history
<1>10. ASSUME NEW r \in Runners, Restart(r) PROVE RejectInv'
  BY ZenonT(30), <1>10
  DEF Restart, TypeOK, RejectInv, DeadLetterNeedsReason, MayDeadLetter, broker, memory,
               history
<1>11. CASE BecomeCalm \/ UNCHANGED vars
  BY Zenon, <1>11 DEF BecomeCalm, vars, RejectInv, DeadLetterNeedsReason, MayDeadLetter, broker,
               dispatchVars, memory, history
<1>12. QED
  BY ZenonT(30), <1>1, <1>2, <1>3, <1>4, <1>5, <1>6, <1>7, <1>8, <1>9, <1>10, <1>11
  DEF Next, Broker, Consume

(***************************************************************************)
(* No message is lost: what the queue forgets as acked was acked by some   *)
(* run of a handler, in any number of replicas (dispatch and settle).      *)
(***************************************************************************)
THEOREM NothingLost == Spec => []AckedWasProcessed
<1>1. AckInv => AckedWasProcessed
  BY Zenon DEF AckInv
<1>2. QED
  BY TypeInit, TypeNext, SafeInit, AckNext, <1>1, PTL DEF Spec

(***************************************************************************)
(* What the queue dead-letters was refused by a handler or has used up     *)
(* MaxAttempts, however connections drop between the failures.             *)
(***************************************************************************)
THEOREM DeadLetteredForReason == Spec => []DeadLetterNeedsReason
<1>1. RejectInv => DeadLetterNeedsReason
  BY Zenon DEF RejectInv
<1>2. QED
  BY TypeInit, TypeNext, SafeInit, RejectNext, <1>1, PTL DEF Spec

-----------------------------------------------------------------------------
(***************************************************************************)
(* Health probes.  The checkers asked so far number the statuses seen, one *)
(* for each; a dependency that works while a probe runs is remembered.     *)
(* The loop's accumulator is, for ready, whether any status was not        *)
(* healthy, and for health the last that was not.                          *)
(***************************************************************************)
Heard == Checkers \ todo

SeenInv ==
  /\ IsFiniteSet(seen) /\ Cardinality(seen) = Cardinality(Heard)
  /\ seen \subseteq (1..Cardinality(Heard)) \X Statuses
  /\ \A x, y \in seen : x[1] = y[1] => x = y

ReadyInv ==
  /\ overall \in {"healthy", "unhealthy"}
  /\ overall = "healthy" <=> \A x \in seen : x[2] = "healthy"
  /\ overall = "healthy" => \A c \in Heard : c \subseteq wasUp

OverallInv ==
  IF overall = "healthy" THEN \A x \in seen : x[2] = "healthy"
  ELSE \E x \in seen : x[2] = overall /\ \A y \in seen : y[2] # "healthy" => y[1] <= x[1]

HealthData ==
  /\ dependency \in [Deps -> {"up", "slow", "down"}] /\ changes \in 0..MaxChanges
  /\ probe \in {"none", "health", "ready", "live"} /\ todo \subseteq Checkers
  /\ overall \in Statuses /\ answer \in {0, 200, 503} /\ wasUp \subseteq Deps
  /\ probe # "none" => \A d \in Deps : dependency[d] # "down" => d \in wasUp

ProbeInv ==
  /\ probe \in {"none", "live"} => seen = {} /\ todo = {} /\ overall = "healthy"
  /\ probe \in {"health", "ready"} => SeenInv
  /\ probe = "ready" => ReadyInv
  /\ probe = "health" => OverallInv
  /\ answer # 0 => todo = {} /\ answer = IF overall = "unhealthy" THEN 503 ELSE 200

HealthInv == expired \in BOOLEAN /\ HealthData /\ ProbeInv

LEMMA CheckersFinite ==
  /\ IsFiniteSet(Checkers) /\ Cardinality(Checkers) \in Nat
  /\ \A c \in Checkers : c \subseteq Deps
  /\ \A d \in Deps : \E c \in Checkers : d \in c
<1>1. \A c \in Checkers : c \subseteq Deps
  BY Zenon, GroupAssumption DEF Checkers, Deps
<1>2. IsFiniteSet(SUBSET Deps)
  BY Zenon, FS_SUBSET, GroupAssumption DEF Deps
<1>3. Checkers \in SUBSET (SUBSET Deps)
  BY Zenon, <1>1
<1>4. IsFiniteSet(Checkers)
  BY Zenon, <1>2, <1>3, FS_Subset
<1>5. ASSUME NEW d \in Deps PROVE \E c \in Checkers : d \in c
  <2>1. CASE d \in Grouped
    BY Zenon, <2>1 DEF Checkers
  <2>2. CASE d \notin Grouped
    <3>1. {d} \in Checkers
      BY Zenon, <2>2 DEF Checkers
    <3> QED BY Zenon, <3>1
  <2> QED BY Zenon, <2>1, <2>2
<1> QED BY Zenon, <1>1, <1>4, <1>5, FS_CardinalityType

LEMMA AskedCount ==
  ASSUME NEW T \in SUBSET Checkers
  PROVE  /\ IsFiniteSet(T) /\ Cardinality(T) \in Nat /\ Cardinality(T) <= Cardinality(Checkers)
         /\ \A c \in Checkers \ T : Cardinality(T \cup {c}) = Cardinality(T) + 1
<1>1. IsFiniteSet(T) /\ Cardinality(T) <= Cardinality(Checkers)
  BY Zenon, CheckersFinite, FS_Subset
<1> QED BY Zenon, <1>1, FS_CardinalityType, FS_AddElement

LEMMA HealthInvGives == HealthInv => HealthContract
<1> SUFFICES ASSUME HealthInv PROVE HealthContract
  OBVIOUS
<1>1. expired \in BOOLEAN
  BY Zenon DEF HealthInv
<1>2. /\ Heard \in SUBSET Checkers /\ Cardinality(Heard) \in Nat
      /\ Cardinality(Heard) <= Cardinality(Checkers) /\ Cardinality(Checkers) \in Nat
  <2>1. Heard \in SUBSET Checkers
    BY Zenon DEF Heard
  <2> QED BY Zenon, <2>1, AskedCount, CheckersFinite
<1>3. /\ seen \subseteq (1..Cardinality(Checkers)) \X Statuses
      /\ Cardinality(seen) = IF probe \in {"none", "live"} THEN 0 ELSE Cardinality(Heard)
  <2>1. CASE probe \in {"none", "live"}
    BY Zenon, <2>1, FS_EmptySet DEF HealthInv, ProbeInv
  <2>2. CASE probe \in {"health", "ready"}
    <3>1. SeenInv
      BY Zenon, <2>2 DEF HealthInv, ProbeInv
    <3>2. 1..Cardinality(Heard) \subseteq 1..Cardinality(Checkers)
      BY <1>2
    <3> QED BY Zenon, <2>2, <3>1, <3>2 DEF SeenInv
  <2> QED BY <2>1, <2>2 DEF HealthInv, HealthData
<1>4. HealthTypeOK
  BY <1>1, <1>3 DEF HealthInv, HealthData, HealthTypeOK, Heard
<1>5. ASSUME probe = "ready", answer # 0
      PROVE  (answer = 200 <=> found \subseteq {"healthy"}) /\ (answer = 200 => wasUp = Deps)
  <2>1. /\ ReadyInv /\ todo = {} /\ answer = (IF overall = "unhealthy" THEN 503 ELSE 200)
        /\ wasUp \subseteq Deps
    BY <1>5 DEF HealthInv, ProbeInv, HealthData
  <2>2. overall = "healthy" <=> answer = 200
    BY <2>1 DEF ReadyInv
  <2>3. found \subseteq {"healthy"} <=> \A x \in seen : x[2] = "healthy"
    BY Zenon DEF found
  <2>4. overall = "healthy" => wasUp = Deps
    <3>1. Heard = Checkers
      BY Zenon, <2>1 DEF Heard
    <3> QED BY Zenon, <2>1, <3>1, CheckersFinite DEF ReadyInv
  <2> QED BY Zenon, <2>1, <2>2, <2>3, <2>4 DEF ReadyInv
<1>6. ASSUME probe = "health", answer # 0
      PROVE  /\ answer = 503 => "unhealthy" \in found
             /\ answer = 200 /\ "unhealthy" \in found =>
                  \E i, j \in 1..Cardinality(Checkers) :
                    i < j /\ <<i, "unhealthy">> \in seen /\ <<j, "degraded">> \in seen
  <2>1. /\ OverallInv /\ SeenInv /\ answer = (IF overall = "unhealthy" THEN 503 ELSE 200) /\ overall \in Statuses
    BY <1>6 DEF HealthInv, ProbeInv, HealthData
  <2>2. ASSUME overall = "unhealthy" PROVE "unhealthy" \in found
    <3>1. PICK x \in seen : x[2] = overall
      BY Zenon, <2>1, <2>2 DEF OverallInv
    <3> QED BY Zenon, <2>2, <3>1 DEF found
  <2>3. ASSUME overall # "unhealthy", "unhealthy" \in found
        PROVE  \E i, j \in 1..Cardinality(Checkers) :
                 i < j /\ <<i, "unhealthy">> \in seen /\ <<j, "degraded">> \in seen
    <3>1. PICK y \in seen : y[2] = "unhealthy"
      BY Zenon, <2>3 DEF found
    <3>2. overall = "degraded"
      BY Zenon, <2>1, <2>3, <3>1 DEF OverallInv, Statuses
    <3>3. PICK x \in seen : x[2] = "degraded" /\ y[1] <= x[1]
      BY Zenon, <2>1, <3>1, <3>2 DEF OverallInv
    <3>4. /\ x = <<x[1], "degraded">> /\ y = <<y[1], "unhealthy">>
          /\ x[1] \in 1..Cardinality(Checkers) /\ y[1] \in 1..Cardinality(Checkers)
      BY SMTT(30), <1>3, <3>1, <3>3
    <3>5. x[1] # y[1]
      BY Zenon, <2>1, <3>1, <3>3 DEF SeenInv
    <3>6. y[1] < x[1]
      BY SMTT(30), <1>2, <3>3, <3>4, <3>5
    <3> QED BY Zenon, <3>1, <3>3, <3>4, <3>6
  <2> QED BY <2>1, <2>2, <2>3
<1> QED BY Zenon, <1>4, <1>5, <1>6 DEF HealthContract, ReadyIsEarned, UnhealthyShows

(* What a checker says of its dependencies *)
LEMMA CheckSays ==
  ASSUME HealthData, NEW c \in Checkers, NEW s \in Check(c)
  PROVE  s \in Statuses /\ (s = "healthy" => \A d \in c : dependency[d] # "down")
<1>1. c \subseteq Deps /\ dependency \in [Deps -> {"up", "slow", "down"}]
  BY ZenonT(30), CheckersFinite DEF HealthData
<1>2. ASSUME NEW d \in c, NEW t \in check(d)
      PROVE  t \in Statuses /\ (t = "healthy" => dependency[d] # "down")
  <2>1. dependency[d] \in {"up", "slow", "down"}
    BY Zenon, <1>1
  <2>2. CASE t \in ping(d)
    BY Zenon, <2>2 DEF ping, healthyIf, Statuses
  <2>3. CASE t \in look(d)
    BY Zenon, <2>3 DEF look, healthyIf, Statuses
  <2>4. CASE t \in own(d)
    BY Zenon, <2>1, <2>4 DEF own, Statuses
  <2> QED BY Zenon, <1>2, <2>2, <2>3, <2>4 DEF check
<1>3. CASE c = Grouped
  <2>1. s \in Multi(c)
    BY Zenon, <1>3 DEF Check
  <2>2. PICK f \in {g \in [c -> Statuses] : \A d \in c : g[d] \in check(d)} :
          s = IF \A d \in c : f[d] = "healthy" THEN "healthy" ELSE "unhealthy"
    BY Zenon, <2>1 DEF Multi
  <2>3. s \in Statuses
    BY Zenon, <2>2 DEF Statuses
  <2>4. s = "healthy" => \A d \in c : f[d] = "healthy"
    BY Zenon, <2>2
  <2> QED BY Zenon, <1>2, <2>2, <2>3, <2>4
<1>4. CASE c # Grouped
  <2>1. PICK d \in c : c = {d}
    BY Zenon, <1>4 DEF Checkers
  <2>2. s \in check(d)
    BY Zenon, <1>4, <2>1 DEF Check
  <2> QED BY Zenon, <1>2, <2>1, <2>2
<1> QED BY Zenon, <1>3, <1>4

LEMMA InitHealth == HealthInit => HealthInv
<1> SUFFICES ASSUME HealthInit PROVE HealthInv
  OBVIOUS
<1>1. expired \in BOOLEAN
  BY Zenon DEF HealthInit
<1> QED BY <1>1, GroupAssumption DEF HealthInit, HealthInv, HealthData, ProbeInv, Statuses


LEMMA AskKeeps == ASSUME HealthInv, NEW c \in Checkers, Ask(c) PROVE HealthInv'
<1> DEFINE n == Cardinality(Heard)
<1>1. /\ probe \in {"health", "ready"} /\ c \in todo /\ todo' = todo \ {c}
      /\ UNCHANGED <<dependency, probe, expired, answer, wasUp, changes>>
  BY Zenon DEF Ask
<1>2. PICK s \in Check(c) : overall' = aggregate(overall, s) /\ seen' = seen \cup {<<n + 1, s>>}
  BY Zenon DEF Ask, Heard
<1>3. s \in Statuses /\ (s = "healthy" => \A d \in c : dependency[d] # "down")
  BY Zenon, CheckSays DEF HealthInv
<1>4. Heard' = Heard \cup {c} /\ c \notin Heard /\ Heard \in SUBSET Checkers
  BY Zenon, <1>1 DEF Heard
<1>5. n \in Nat /\ Cardinality(Heard') = n + 1
  BY Zenon, <1>4, AskedCount
<1>6. /\ SeenInv /\ overall \in Statuses /\ todo \subseteq Checkers /\ answer = 0
      /\ wasUp \subseteq Deps /\ \A d \in Deps : dependency[d] # "down" => d \in wasUp
  BY <1>1 DEF HealthInv, HealthData, ProbeInv
<1>7. \A x \in seen : x[1] \in 1..n /\ x[2] \in Statuses /\ x = <<x[1], x[2]>>
  BY <1>6 DEF SeenInv
<1>8. SeenInv'
  <2>1. <<n + 1, s>> \notin seen
    BY SMTT(30), <1>5, <1>7
  <2>2. IsFiniteSet(seen') /\ Cardinality(seen') = n + 1
    BY Zenon, <1>2, <1>6, <2>1, FS_AddElement DEF SeenInv
  <2>3. \A x \in seen' : x = <<n + 1, s>> \/ x \in seen
    BY Zenon, <1>2
  <2> HIDE DEF n
  <2>4. seen' \subseteq (1..(n + 1)) \X Statuses
    BY <1>3, <1>5, <1>7, <2>3
  <2>5. \A x, y \in seen' : x[1] = y[1] => x = y
    BY SMTT(30), <1>5, <1>6, <1>7, <2>3 DEF SeenInv
  <2> QED BY Zenon, <1>5, <2>2, <2>4, <2>5 DEF SeenInv
<1> HIDE DEF n
<1>9. <<n + 1, s>> \in seen' /\ <<n + 1, s>>[1] = n + 1 /\ <<n + 1, s>>[2] = s
  BY Zenon, <1>2
<1>10. ASSUME probe = "ready" PROVE ReadyInv'
  <2>1. ReadyInv /\ overall' = IF s = "healthy" THEN overall ELSE "unhealthy"
    BY Zenon, <1>2, <1>10 DEF HealthInv, ProbeInv, aggregate
  <2>2. overall' = "healthy" <=> \A x \in seen' : x[2] = "healthy"
    BY Zenon, <1>2, <1>9, <2>1 DEF ReadyInv
  <2>3. overall' = "healthy" => \A e \in Heard' : e \subseteq wasUp'
    <3>1. c \subseteq Deps
      BY Zenon, CheckersFinite
    <3> QED BY Zenon, <1>1, <1>3, <1>4, <1>6, <2>1, <3>1 DEF ReadyInv
  <2> QED BY Zenon, <2>1, <2>2, <2>3 DEF ReadyInv
<1>11. ASSUME probe = "health" PROVE OverallInv'
  <2>1. OverallInv /\ overall' = IF s = "healthy" THEN overall ELSE s
    BY Zenon, <1>2, <1>11 DEF HealthInv, ProbeInv, aggregate
  <2>2. CASE s = "healthy"
    <3>1. \A x \in seen' : x[2] # "healthy" => x \in seen
      BY SMTT(30), <1>2, <2>2
    <3>2. overall' = overall /\ seen \subseteq seen'
      BY Zenon, <1>2, <2>1, <2>2
    <3> QED BY Zenon, <2>1, <3>1, <3>2 DEF OverallInv
  <2>3. CASE s # "healthy"
    <3>1. \A y \in seen' : y[1] <= n + 1
      BY SMTT(30), <1>2, <1>5, <1>7
    <3>2. overall' = s /\ overall' # "healthy"
      BY Zenon, <2>1, <2>3
    <3> QED BY Zenon, <1>9, <3>1, <3>2 DEF OverallInv
  <2> QED BY Zenon, <2>2, <2>3
<1>12. overall' \in Statuses
  BY Zenon, <1>2, <1>3, <1>6 DEF aggregate, Statuses
<1>13. HealthData'
  BY SMTT(30), <1>1, <1>12 DEF HealthInv, HealthData
<1>14. ProbeInv'
  BY Zenon, <1>1, <1>6, <1>8, <1>10, <1>11 DEF ProbeInv
<1>15. expired' \in BOOLEAN
  BY Zenon, <1>1 DEF HealthInv
<1> QED BY Zenon, <1>13, <1>14, <1>15 DEF HealthInv

LEMMA StartKeeps == ASSUME HealthInv, NEW p \in {"health", "ready", "live"}, Start(p) PROVE HealthInv'
<1>1. expired' \in BOOLEAN
  BY Zenon DEF Start
<1>2. HealthData'
  BY DEF Start, HealthInv, HealthData, Statuses
<1>3. seen' = {} /\ overall' = "healthy" /\ answer' = 0 /\ probe' = p /\ todo' = (IF p = "live" THEN {} ELSE Checkers)
  BY Zenon DEF Start
<1>4. p # "live" => Heard' = {} /\ Cardinality({}) = 0 /\ IsFiniteSet({})
  BY Zenon, <1>3, FS_EmptySet DEF Heard
<1>5. p # "live" => SeenInv' /\ ReadyInv' /\ OverallInv'
  BY Zenon, <1>3, <1>4 DEF SeenInv, ReadyInv, OverallInv
<1>6. ProbeInv'
  BY Zenon, <1>3, <1>5 DEF ProbeInv
<1> QED BY Zenon, <1>1, <1>2, <1>6 DEF HealthInv

LEMMA ChangesKeeps == ASSUME HealthInv, NEW d \in Deps, Changes(d) PROVE HealthInv'
<1>1. PICK s \in {"up", "slow", "down"} \ {dependency[d]} :
        /\ dependency' = [dependency EXCEPT ![d] = s]
        /\ wasUp' = IF probe # "none" /\ s # "down" THEN wasUp \cup {d} ELSE wasUp
  BY Zenon DEF Changes
<1>2. UNCHANGED <<probe, todo, expired, overall, answer, seen>> /\ changes < MaxChanges /\ changes' = changes + 1
  BY Zenon DEF Changes
<1>3. expired' \in BOOLEAN
  BY Zenon, <1>2 DEF HealthInv
<1>4. changes' \in 0..MaxChanges
  BY <1>2, GroupAssumption DEF HealthInv, HealthData
<1>5. wasUp \subseteq wasUp' /\ wasUp' \subseteq Deps
  BY <1>1 DEF HealthInv, HealthData
<1>6. /\ dependency' \in [Deps -> {"up", "slow", "down"}]
      /\ probe # "none" => \A e \in Deps : dependency'[e] # "down" => e \in wasUp'
  BY SMTT(30), <1>1 DEF HealthInv, HealthData
<1>7. HealthData'
  BY SMTT(30), <1>2, <1>4, <1>5, <1>6 DEF HealthInv, HealthData
<1>8. Heard' = Heard
  BY Zenon, <1>2 DEF Heard
<1>9. ProbeInv'
  BY SMTT(30), <1>2, <1>5, <1>8 DEF HealthInv, ProbeInv, SeenInv, ReadyInv, OverallInv
<1> QED BY Zenon, <1>3, <1>7, <1>9 DEF HealthInv

LEMMA SameStatuses ==
  ASSUME UNCHANGED <<probe, todo, overall, seen, wasUp>>
  PROVE  (SeenInv' <=> SeenInv) /\ (ReadyInv' <=> ReadyInv) /\ (OverallInv' <=> OverallInv)
<1>1. Heard' = Heard
  BY Zenon DEF Heard
<1>2. SeenInv' <=> SeenInv
  BY Zenon, <1>1 DEF SeenInv
<1>3. ReadyInv' <=> ReadyInv
  BY Zenon, <1>1 DEF ReadyInv
<1>4. OverallInv' <=> OverallInv
  BY Zenon DEF OverallInv
<1> QED BY Zenon, <1>2, <1>3, <1>4

LEMMA HealthStepKeeps == HealthInv /\ [HealthNext]_healthVars => HealthInv'
<1> SUFFICES ASSUME HealthInv, [HealthNext]_healthVars PROVE HealthInv'
  OBVIOUS
<1>1. CASE Deadline
  <2>1. expired' \in BOOLEAN
    BY Zenon, <1>1 DEF Deadline
  <2>2. HealthData'
    BY Zenon, <1>1 DEF Deadline, HealthInv, HealthData
  <2>3. ProbeInv'
    BY Zenon, <1>1, SameStatuses DEF Deadline, HealthInv, ProbeInv
  <2> QED BY Zenon, <2>1, <2>2, <2>3 DEF HealthInv
<1>2. CASE Answer
  <2>1. expired' \in BOOLEAN
    BY Zenon, <1>2 DEF Answer, HealthInv
  <2>2. HealthData'
    <3>1. answer' \in {0, 200, 503} /\ UNCHANGED <<dependency, changes, probe, todo, overall, wasUp>>
      BY Zenon, <1>2 DEF Answer
    <3>2. HealthData
      BY Zenon DEF HealthInv
    <3>3. dependency' \in [Deps -> {"up", "slow", "down"}] /\ changes' \in 0..MaxChanges
      BY Zenon, <3>1, <3>2 DEF HealthData
    <3>4. probe' \in {"none", "health", "ready", "live"} /\ todo' \subseteq Checkers
      <4>1. probe \in {"none", "health", "ready", "live"} /\ todo \subseteq Checkers
        BY Zenon, <3>2 DEF HealthData
      <4>2. probe' = probe /\ todo' = todo
        BY Zenon, <3>1
      <4> QED BY <4>1, <4>2
    <3>5. overall' \in Statuses /\ wasUp' \subseteq Deps
      BY Zenon, <3>1, <3>2 DEF HealthData
    <3>6. probe' # "none" => \A d \in Deps : dependency'[d] # "down" => d \in wasUp'
      BY Zenon, <3>1, <3>2 DEF HealthData
    <3>7. answer' \in {0, 200, 503}
      BY Zenon, <3>1
    <3> QED BY Zenon, <3>3, <3>4, <3>5, <3>6, <3>7 DEF HealthData
  <2>3. ProbeInv'
    BY Zenon, <1>2, SameStatuses DEF Answer, HealthInv, ProbeInv
  <2> QED BY Zenon, <2>1, <2>2, <2>3 DEF HealthInv
<1>3. CASE Over
  <2>1. expired' \in BOOLEAN
    BY Zenon, <1>3 DEF Over
  <2>2. HealthData'
    <3>1. overall' \in Statuses /\ answer' \in {0, 200, 503} /\ todo' \subseteq Checkers /\ wasUp' \subseteq Deps
      BY Zenon, <1>3 DEF Over, Statuses
    <3>2. probe' = "none" /\ UNCHANGED <<dependency, changes>>
      BY Zenon, <1>3 DEF Over
    <3> QED BY Zenon, <3>1, <3>2 DEF HealthInv, HealthData
  <2>3. ProbeInv'
    BY Zenon, <1>3 DEF Over, ProbeInv
  <2> QED BY Zenon, <2>1, <2>2, <2>3 DEF HealthInv
<1>4. ASSUME NEW p \in {"health", "ready", "live"}, Start(p) PROVE HealthInv'
  BY Zenon, <1>4, StartKeeps
<1>5. ASSUME NEW d \in Deps, Changes(d) PROVE HealthInv'
  BY Zenon, <1>5, ChangesKeeps
<1>6. ASSUME NEW c \in Checkers, Ask(c) PROVE HealthInv'
  BY ZenonT(30), <1>6, AskKeeps
<1>7. CASE UNCHANGED healthVars
  <2>1. expired' \in BOOLEAN
    BY Zenon, <1>7 DEF healthVars, HealthInv
  <2>2. HealthData'
    BY Zenon, <1>7 DEF healthVars, HealthInv, HealthData
  <2>3. ProbeInv'
    BY Zenon, <1>7, SameStatuses DEF healthVars, HealthInv, ProbeInv
  <2> QED BY Zenon, <2>1, <2>2, <2>3 DEF HealthInv
<1> QED BY Zenon, <1>1, <1>2, <1>3, <1>4, <1>5, <1>6, <1>7 DEF HealthNext

(***************************************************************************)
(* For any finite number of dependencies, going down and coming back while *)
(* they are asked in any order: Handler.Ready answers 200 only when every  *)
(* dependency worked at some time in the probe, and Handler.Health hides   *)
(* an unhealthy dependency only behind a degraded one asked after it.      *)
(***************************************************************************)
THEOREM HealthKept == HealthSpec => []HealthContract
<1> QED BY InitHealth, HealthStepKeeps, HealthInvGives, PTL DEF HealthSpec
=============================================================================
