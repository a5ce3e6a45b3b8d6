------------------------------- MODULE Outbox -------------------------------
(***************************************************************************)
(* messaging/outbox: the transactional outbox table and the dispatchers    *)
(* that drain it to the broker.                                            *)
(*                                                                         *)
(* A writer opens a transaction (created_at is the transaction's now(), so *)
(* rows are ordered by the opening, not by the commit), inserts the event  *)
(* row, commits or rolls back, and kicks a dispatcher.  A dispatcher waits *)
(* for a tick or a kick and runs drain: FetchUnsent is one autocommitted   *)
(* statement whose row locks last only as long as the statement, so the    *)
(* claim is two steps (rows locked, rows returned) and nothing is held     *)
(* while the batch is published and marked.  UPDATE ... RETURNING promises *)
(* no order, so a batch is a set.                                          *)
(*                                                                         *)
(* Dispatchers crash and restart, statements fail, and the broker goes     *)
(* down, until the environment turns calm.  The attempts column is only    *)
(* logged, and is left out.                                                *)
(***************************************************************************)
EXTENDS Naturals, FiniteSets

CONSTANTS
  Events,         \* the events that writers insert, one transaction each
  Dispatchers,    \* dispatcher instances, one per replica
  Batch,          \* d.batch
  Unpublishable,  \* events for which the Publish callback skips with nil
  Environments,   \* the environments a behaviour may start in
  MaxFaults       \* bound: failures after a delivery

(* Failures happen; none does; none does and no interval timer fires. *)
Environment == {"faulty", "calm", "kicksOnly"}

ASSUME OutboxAssumption ==
  /\ IsFiniteSet(Events)
  /\ Batch \in Nat \ {0}
  /\ Unpublishable \subseteq Events
  /\ Environments \subseteq Environment
  /\ MaxFaults \in Nat

VARIABLES
  tx,         \* each event's transaction: "none" "open" "committed" "kicked" "gone"
  createdAt,  \* created_at, as the rank of the transaction's opening
  sent,       \* rows with sent_at set
  pc,         \* where each dispatcher is
  kick,       \* the dispatcher's kick channel holds a token
  locked,     \* rows locked by a dispatcher's running FetchUnsent
  batch,      \* rows of the current batch still to publish
  current,    \* the row published and not yet marked, as a set
  full,       \* the batch in progress had d.batch rows
  brokerUp,   \* the broker accepts messages
  env,        \* the environment
  copies,     \* history: deliveries of each row by each dispatcher
  excused     \* history: failures that hit a dispatcher after a delivery

writer == <<tx, createdAt>>
drainVars == <<locked, batch, current, full>>
vars == <<writer, sent, pc, kick, drainVars, brokerUp, env, copies, excused>>

Count == [Dispatchers -> [Events -> Nat]]

TypeOK ==
  /\ tx \in [Events -> {"none", "open", "committed", "kicked", "gone"}]
  /\ createdAt \in [Events -> Nat]
  /\ sent \subseteq Events
  /\ pc \in [Dispatchers -> {"wait", "fetch", "locked", "publish", "mark", "down"}]
  /\ kick \in [Dispatchers -> BOOLEAN]
  /\ locked \in [Dispatchers -> SUBSET Events]
  /\ batch \in [Dispatchers -> SUBSET Events]
  /\ current \in [Dispatchers -> SUBSET Events]
  /\ full \in [Dispatchers -> BOOLEAN]
  /\ brokerUp \in BOOLEAN
  /\ env \in Environment
  /\ copies \in Count
  /\ excused \in Count
  /\ \A d \in Dispatchers :
       /\ locked[d] # {} => pc[d] = "locked"
       /\ batch[d] # {} => pc[d] \in {"publish", "mark"}
       /\ pc[d] = "publish" => batch[d] # {}
       /\ current[d] # {} => pc[d] = "mark"
       /\ pc[d] = "mark" => \E e \in Events : current[d] = {e}

Init ==
  /\ tx = [e \in Events |-> "none"]
  /\ createdAt = [e \in Events |-> 0]
  /\ sent = {}
  /\ pc = [d \in Dispatchers |-> "wait"]
  /\ kick = [d \in Dispatchers |-> FALSE]
  /\ locked = [d \in Dispatchers |-> {}]
  /\ batch = [d \in Dispatchers |-> {}]
  /\ current = [d \in Dispatchers |-> {}]
  /\ full = [d \in Dispatchers |-> FALSE]
  /\ brokerUp = TRUE
  /\ env \in Environments
  /\ copies = [d \in Dispatchers |-> [e \in Events |-> 0]]
  /\ excused = [d \in Dispatchers |-> [e \in Events |-> 0]]
-----------------------------------------------------------------------------
(* The writer. *)

Committed == {e \in Events : tx[e] \in {"committed", "kicked"}}

(* Insert, in the transaction of the domain write. *)
Insert(e) ==
  /\ tx[e] = "none"
  /\ tx' = [tx EXCEPT ![e] = "open"]
  /\ createdAt' = [createdAt EXCEPT ![e] = Cardinality({f \in Events : tx[f] # "none"}) + 1]
  /\ UNCHANGED <<sent, pc, kick, drainVars, brokerUp, env, copies, excused>>

EndTx(e) ==
  /\ tx[e] = "open"
  /\ \/ /\ tx' = [tx EXCEPT ![e] = "committed"]
        /\ UNCHANGED createdAt
     \/ /\ tx' = [tx EXCEPT ![e] = "gone"]
        /\ createdAt' = [createdAt EXCEPT ![e] = 0]
  /\ UNCHANGED <<sent, pc, kick, drainVars, brokerUp, env, copies, excused>>

(* Faulty variant: an unbuffered channel takes a token only from a         *)
(* dispatcher that is waiting.                                             *)
Kick_unbuffered(e, d) ==
  /\ tx[e] = "committed"
  /\ pc[d] # "down"
  /\ tx' = [tx EXCEPT ![e] = "kicked"]
  /\ kick' = [kick EXCEPT ![d] = @ \/ pc[d] = "wait"]
  /\ UNCHANGED <<createdAt, sent, pc, drainVars, brokerUp, env, copies, excused>>

(* Kick, after the commit: fill the one-slot channel, or coalesce. *)
Kick(e, d) ==
  /\ tx[e] = "committed"
  /\ pc[d] # "down"
  /\ tx' = [tx EXCEPT ![e] = "kicked"]
  /\ kick' = [kick EXCEPT ![d] = TRUE]
  /\ UNCHANGED <<createdAt, sent, pc, drainVars, brokerUp, env, copies, excused>>
-----------------------------------------------------------------------------
(* The dispatcher. *)

(* Faulty variant: a tick without a kick drains nothing. *)
WakeOnTick_needsKick(d) ==
  /\ env # "kicksOnly"
  /\ pc[d] = "wait"
  /\ pc' = [pc EXCEPT ![d] = IF kick[d] THEN "fetch" ELSE @]
  /\ UNCHANGED <<writer, sent, kick, drainVars, brokerUp, env, copies, excused>>

(* Run's select: the ticker, or the kick channel. *)
WakeOnTick(d) ==
  /\ env # "kicksOnly"
  /\ pc[d] = "wait"
  /\ pc' = [pc EXCEPT ![d] = "fetch"]
  /\ UNCHANGED <<writer, sent, kick, drainVars, brokerUp, env, copies, excused>>

WakeOnKick(d) ==
  /\ pc[d] = "wait"
  /\ kick[d]
  /\ kick' = [kick EXCEPT ![d] = FALSE]
  /\ pc' = [pc EXCEPT ![d] = "fetch"]
  /\ UNCHANGED <<writer, sent, drainVars, brokerUp, env, copies, excused>>

Locked == UNION {locked[d] : d \in Dispatchers}

(* Faulty variants: sent_at is not looked at; uncommitted rows are seen. *)
Claimable_resends == {e \in Committed : e \notin Locked}
Claimable_dirtyRead == {e \in Events : tx[e] # "none" /\ e \notin sent /\ e \notin Locked}

(* WHERE sent_at IS NULL ... FOR UPDATE SKIP LOCKED. *)
Claimable == {e \in Committed : e \notin sent /\ e \notin Locked}

(* ORDER BY created_at LIMIT n, over a set of rows. *)
Oldest(n, rows) ==
  {e \in rows : Cardinality({f \in rows : createdAt[f] < createdAt[e]}) < n}

FetchLocks(d) ==
  /\ pc[d] = "fetch"
  /\ pc' = [pc EXCEPT ![d] = "locked"]
  /\ locked' = [locked EXCEPT ![d] = Oldest(Batch, Claimable)]
  /\ UNCHANGED <<writer, sent, kick, batch, current, full, brokerUp, env, copies, excused>>

(* The statement commits: its rows are unlocked and returned.  No rows end *)
(* the drain.                                                              *)
FetchReturns(d) ==
  /\ pc[d] = "locked"
  /\ batch' = [batch EXCEPT ![d] = locked[d]]
  /\ full' = [full EXCEPT ![d] = Cardinality(locked[d]) = Batch]
  /\ locked' = [locked EXCEPT ![d] = {}]
  /\ pc' = [pc EXCEPT ![d] = IF locked[d] = {} THEN "wait" ELSE "publish"]
  /\ UNCHANGED <<writer, sent, kick, current, brokerUp, env, copies, excused>>

(* drain returns: the rest of the batch is forgotten. *)
giveUp(d) ==
  /\ pc' = [pc EXCEPT ![d] = "wait"]
  /\ batch' = [batch EXCEPT ![d] = {}]
  /\ current' = [current EXCEPT ![d] = {}]
  /\ full' = [full EXCEPT ![d] = FALSE]

FetchFails(d) ==
  /\ env = "faulty"
  /\ pc[d] = "locked"
  /\ locked' = [locked EXCEPT ![d] = {}]
  /\ giveUp(d)
  /\ UNCHANGED <<writer, sent, kick, brokerUp, env, copies, excused>>

(* Publish returns nil: the broker has the row, or the callback skips it. *)
Publish(d) ==
  /\ pc[d] = "publish"
  /\ \E e \in batch[d] :
       /\ brokerUp \/ e \in Unpublishable
       /\ batch' = [batch EXCEPT ![d] = @ \ {e}]
       /\ current' = [current EXCEPT ![d] = {e}]
       /\ copies' = IF e \in Unpublishable THEN copies
                                           ELSE [copies EXCEPT ![d][e] = @ + 1]
  /\ pc' = [pc EXCEPT ![d] = "mark"]
  /\ UNCHANGED <<writer, sent, kick, locked, full, brokerUp, env, excused>>

FaultsUsed == {f \in Dispatchers \X Events \X (1..MaxFaults) : f[3] <= excused[f[1]][f[2]]}

FaultAllowed == env = "faulty" /\ Cardinality(FaultsUsed) < MaxFaults

excuse(d, rows) ==
  excused' = [excused EXCEPT ![d] = [e \in Events |-> @[e] + (IF e \in rows THEN 1 ELSE 0)]]

(* Publish returns an error: the broker does not have the row ... *)
PublishFails(d) ==
  /\ pc[d] = "publish"
  /\ ~brokerUp
  /\ batch[d] \ Unpublishable # {}
  /\ giveUp(d)
  /\ UNCHANGED <<writer, sent, kick, locked, brokerUp, env, copies, excused>>

(* ... or has it, and the answer was lost. *)
PublishUnknown(d) ==
  /\ FaultAllowed
  /\ pc[d] = "publish"
  /\ \E e \in batch[d] \ Unpublishable :
       /\ copies' = [copies EXCEPT ![d][e] = @ + 1]
       /\ excuse(d, {e})
  /\ giveUp(d)
  /\ UNCHANGED <<writer, sent, kick, locked, brokerUp, env>>

(* The next row, the next batch after a full one, or the next tick. *)
afterRow(d) ==
  IF batch[d] # {} THEN "publish" ELSE IF full[d] THEN "fetch" ELSE "wait"

(* MarkSent: the UPDATE waits for any row lock held by a running fetch. *)
MarkSent(d) ==
  /\ pc[d] = "mark"
  /\ current[d] \cap Locked = {}
  /\ sent' = sent \cup current[d]
  /\ current' = [current EXCEPT ![d] = {}]
  /\ pc' = [pc EXCEPT ![d] = afterRow(d)]
  /\ full' = [full EXCEPT ![d] = @ /\ batch[d] # {}]
  /\ UNCHANGED <<writer, kick, locked, batch, brokerUp, env, copies, excused>>

MarkSentFails(d) ==
  /\ FaultAllowed
  /\ pc[d] = "mark"
  /\ giveUp(d)
  /\ excuse(d, current[d])
  /\ UNCHANGED <<writer, sent, kick, locked, brokerUp, env, copies>>

(* The process dies, or its context is cancelled under the drain: the      *)
(* batch, the kick token and the statement in progress are lost.           *)
Crash(d) ==
  /\ env = "faulty"
  /\ pc[d] # "down"
  /\ pc[d] = "mark" => FaultAllowed
  /\ pc' = [pc EXCEPT ![d] = "down"]
  /\ kick' = [kick EXCEPT ![d] = FALSE]
  /\ locked' = [locked EXCEPT ![d] = {}]
  /\ batch' = [batch EXCEPT ![d] = {}]
  /\ current' = [current EXCEPT ![d] = {}]
  /\ full' = [full EXCEPT ![d] = FALSE]
  /\ excuse(d, current[d])
  /\ UNCHANGED <<writer, sent, brokerUp, env, copies>>

Restart(d) ==
  /\ pc[d] = "down"
  /\ pc' = [pc EXCEPT ![d] = "wait"]
  /\ UNCHANGED <<writer, sent, kick, drainVars, brokerUp, env, copies, excused>>
-----------------------------------------------------------------------------
(* The environment. *)

BrokerFlips ==
  /\ env = "faulty"
  /\ brokerUp' = ~brokerUp
  /\ UNCHANGED <<writer, sent, pc, kick, drainVars, env, copies, excused>>

BecomeCalm ==
  /\ env = "faulty"
  /\ env' = "calm"
  /\ brokerUp' = TRUE
  /\ UNCHANGED <<writer, sent, pc, kick, drainVars, copies, excused>>

Drain(d) ==
  \/ FetchLocks(d) \/ FetchReturns(d) \/ Publish(d) \/ PublishFails(d) \/ MarkSent(d)

Next ==
  \/ \E e \in Events : Insert(e) \/ EndTx(e) \/ \E d \in Dispatchers : Kick(e, d)
  \/ \E d \in Dispatchers :
       \/ WakeOnTick(d) \/ WakeOnKick(d) \/ Drain(d) \/ Restart(d)
       \/ FetchFails(d) \/ PublishUnknown(d) \/ MarkSentFails(d) \/ Crash(d)
  \/ BrokerFlips \/ BecomeCalm

Spec == Init /\ [][Next]_vars

(***************************************************************************)
(* Crashed replicas are restarted, outages end, timers fire, goroutines    *)
(* and statements make progress, and a writer kicks after its commit.  A   *)
(* transaction need not end.                                               *)
(***************************************************************************)
Fairness ==
  /\ WF_vars(BecomeCalm)
  /\ \A d \in Dispatchers :
       WF_vars(WakeOnTick(d)) /\ WF_vars(WakeOnKick(d)) /\ WF_vars(Drain(d)) /\ WF_vars(Restart(d))
  /\ \A e \in Events : WF_vars(\E d \in Dispatchers : Kick(e, d))

FairSpec == Spec /\ Fairness
-----------------------------------------------------------------------------
Delivered == {e \in Events : \E d \in Dispatchers : copies[d][e] > 0}

(***************************************************************************)
(* Duplicates are only those the code accepts: a dispatcher delivers a row *)
(* once, plus once for each failure that hit it between the delivery and   *)
(* the mark.  Rests on FetchUnsent reading sent_at under the row lock that *)
(* MarkSent needs.                                                         *)
(***************************************************************************)
OneCopyPerFailure ==
  \A d \in Dispatchers, e \in Events : copies[d][e] <= 1 + excused[d][e]

(***************************************************************************)
(* A committed row that was followed by a Kick is sent even when the timer *)
(* never fires: kicks that find the dispatcher busy are not lost, and one  *)
(* token stands for every row behind it.                                   *)
(***************************************************************************)
KickSuffices ==
  \A e \in Events : (env = "kicksOnly" /\ tx[e] = "kicked") ~> e \in sent

(***************************************************************************)
(* outbox.go, lines 29-31: FetchUnsent "atomically claims up to limit      *)
(* unsent rows ... safe for concurrent dispatcher instances".  With no     *)
(* failure of any kind, a row is delivered once.                           *)
(***************************************************************************)
ClaimIsExclusive ==
  \A e \in Events : \A d1, d2 \in Dispatchers :
    copies[d1][e] > 0 /\ copies[d2][e] > 0 => d1 = d2
=============================================================================
