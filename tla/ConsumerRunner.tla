--------------------------- MODULE ConsumerRunner ---------------------------
(***************************************************************************)
(* rabbitmq.ConsumerRunner: replicas that consume one queue, each with its *)
(* own reconnect loop, attempt counters and Dedup.                         *)
(*                                                                         *)
(* As the broker and the amqp091 driver are used: a message is unacked at  *)
(* one consumer at a time, the oldest ready one is delivered first, a      *)
(* closed channel returns what is unacked to the queue, acks and nacks are *)
(* written without waiting and are lost when the channel closes before the *)
(* broker reads them, and a delivery the driver already holds may still be *)
(* handed out after that.                                                  *)
(***************************************************************************)
EXTENDS Naturals, Sequences, FiniteSets

CONSTANTS
  MaxMsg,       \* bound: messages, numbered by their place in the queue
  NoId,         \* those published without a MessageId
  Runners,      \* the replicas
  MaxAttempts,  \* cfg.MaxAttempts (0: unlimited)
  Prefetch,     \* cfg.PrefetchCount
  DedupCap,     \* NewDedup's capacity
  MayCancel     \* whether the owner may cancel the context of Run

Msgs == 1..MaxMsg

ASSUME ConsumerAssumption ==
  /\ MaxMsg \in Nat /\ NoId \subseteq Msgs
  /\ MaxAttempts \in Nat
  /\ Prefetch \in Nat \ {0} /\ DedupCap \in Nat \ {0}
  /\ MayCancel \in BOOLEAN

VARIABLES
  loc,        \* at the broker: "queue", "acked", "dlq", "unacked"
  holder,     \* the set of runners a message is unacked at (one, or none)
  sent,       \* <<message, frame>> written by a runner and not yet read
  link,       \* a runner's channel: "down" "up" "closed" (dead, not noticed)
  buf,        \* deliveries the driver holds for the runner
  pc,         \* "select" "handler" "settle", "exited" (Run returned), "dead"
  cur,        \* the delivery in dispatch, 0 for none
  outcome,    \* what dispatch decided for it
  attempts,   \* r.attempts
  dedup,      \* Dedup.order (Dedup.set holds the same ids)
  cancelled,  \* the context of Run is cancelled
  calm,       \* no more failures
  processed,  \* history: messages some handler run acked
  refused,    \* history: messages some handler run dead-lettered
  requeues,   \* history: handler runs that asked to requeue (saturated)
  marked,     \* history: messages acked in this life of the runner ...
  since       \* ... and, for each of these, the ids acked after it

broker == <<loc, holder, sent>>
memory == <<attempts, dedup, marked, since>>
history == <<processed, refused, requeues>>
dispatchVars == <<pc, cur, outcome>>
vars == <<broker, link, buf, dispatchVars, memory, cancelled, calm, history>>

Frames == {"ack", "requeue", "reject"}

TypeOK ==
  /\ loc \in [Msgs -> {"queue", "unacked", "acked", "dlq"}]
  /\ holder \in [Msgs -> SUBSET Runners]
  /\ sent \in [Runners -> SUBSET (Msgs \X Frames)]
  /\ link \in [Runners -> {"down", "up", "closed"}]
  /\ buf \in [Runners -> Seq(Msgs)]
  /\ pc \in [Runners -> {"select", "handler", "settle", "exited", "dead"}]
  /\ cur \in [Runners -> Msgs \cup {0}]
  /\ outcome \in [Runners -> Frames \cup {"none", "duplicate"}]
  /\ attempts \in [Runners -> [Msgs -> 0..MaxAttempts]]
  /\ dedup \in [Runners -> Seq(Msgs)]
  /\ cancelled \in [Runners -> BOOLEAN]
  /\ calm \in BOOLEAN
  /\ processed \subseteq Msgs
  /\ refused \subseteq Msgs
  /\ requeues \in [Msgs -> 0..MaxAttempts]
  /\ marked \in [Runners -> SUBSET Msgs]
  /\ since \in [Runners -> [Msgs -> SUBSET Msgs]]

Init ==
  /\ loc = [m \in Msgs |-> "queue"]
  /\ holder = [m \in Msgs |-> {}]
  /\ sent = [r \in Runners |-> {}]
  /\ link = [r \in Runners |-> "down"]
  /\ buf = [r \in Runners |-> <<>>]
  /\ pc = [r \in Runners |-> "select"]
  /\ cur = [r \in Runners |-> 0]
  /\ outcome = [r \in Runners |-> "none"]
  /\ attempts = [r \in Runners |-> [m \in Msgs |-> 0]]
  /\ dedup = [r \in Runners |-> <<>>]
  /\ cancelled = [r \in Runners |-> FALSE]
  /\ calm = FALSE
  /\ processed = {}
  /\ refused = {}
  /\ requeues = [m \in Msgs |-> 0]
  /\ marked = [r \in Runners |-> {}]
  /\ since = [r \in Runners |-> [m \in Msgs |-> {}]]
-----------------------------------------------------------------------------
(* The broker *)

Unacked(r) == {m \in Msgs : r \in holder[m]}

Ready == {m \in Msgs : loc[m] = "queue"}

(* The channel of r closes: what is unacked there is ready again, what was *)
(* written and not read is lost.                                           *)
giveBack(r) ==
  /\ loc' = [m \in Msgs |-> IF r \in holder[m] THEN "queue" ELSE loc[m]]
  /\ holder' = [m \in Msgs |-> holder[m] \ {r}]
  /\ sent' = [sent EXCEPT ![r] = {}]

Deliver(r) ==
  /\ link[r] = "up"
  /\ Cardinality(Unacked(r)) < Prefetch
  /\ \E m \in Ready :
       /\ \A n \in Ready : m <= n
       /\ loc' = [loc EXCEPT ![m] = "unacked"]
       /\ holder' = [holder EXCEPT ![m] = {r}]
       /\ buf' = [buf EXCEPT ![r] = Append(@, m)]
  /\ UNCHANGED <<sent, link, dispatchVars, memory, cancelled, calm, history>>

SettledAs(frame) ==
  CASE frame = "ack" -> "acked" [] frame = "requeue" -> "queue" [] frame = "reject" -> "dlq"

ReadFrame(r) ==
  /\ \E f \in sent[r] :
       /\ loc' = [loc EXCEPT ![f[1]] = SettledAs(f[2])]
       /\ holder' = [holder EXCEPT ![f[1]] = {}]
       /\ sent' = [sent EXCEPT ![r] = @ \ {f}]
  /\ UNCHANGED <<link, buf, dispatchVars, memory, cancelled, calm, history>>

Drop(r) ==
  /\ ~calm
  /\ link[r] = "up"
  /\ giveBack(r)
  /\ link' = [link EXCEPT ![r] = "closed"]
  /\ UNCHANGED <<buf, dispatchVars, memory, cancelled, calm, history>>
-----------------------------------------------------------------------------
(* Run and runOnce *)

(* Dial, Channel, Setup, Qos and Consume; a failure of one of them leaves  *)
(* everything as it is until the next round of the loop.                   *)
Connect(r) ==
  /\ pc[r] = "select"
  /\ link[r] = "down"
  /\ link' = [link EXCEPT ![r] = "up"]
  /\ UNCHANGED <<broker, buf, dispatchVars, memory, cancelled, calm, history>>

(* notifyClose, or the deliveries channel is closed: runOnce returns. *)
Notice(r) ==
  /\ pc[r] = "select"
  /\ link[r] = "closed"
  /\ link' = [link EXCEPT ![r] = "down"]
  /\ buf' = [buf EXCEPT ![r] = <<>>]
  /\ UNCHANGED <<broker, dispatchVars, memory, cancelled, calm, history>>

Cancel(r) ==
  /\ MayCancel
  /\ pc[r] # "dead"
  /\ ~cancelled[r]
  /\ cancelled' = [cancelled EXCEPT ![r] = TRUE]
  /\ UNCHANGED <<broker, link, buf, dispatchVars, memory, calm, history>>

(* Faulty variant: the pause before a reconnect does not watch the context. *)
Exit_onlyConnected(r) ==
  /\ pc[r] = "select"
  /\ cancelled[r]
  /\ sent[r] = {}
  /\ link[r] = "up"
  /\ giveBack(r)
  /\ pc' = [pc EXCEPT ![r] = "exited"]
  /\ link' = [link EXCEPT ![r] = "down"]
  /\ buf' = [buf EXCEPT ![r] = <<>>]
  /\ UNCHANGED <<cur, outcome, memory, cancelled, calm, history>>

(* Run returns between two dispatches or while it is not connected.  The   *)
(* deferred ch.Close waits for the broker, which reads what was written.   *)
Exit(r) ==
  /\ pc[r] = "select"
  /\ cancelled[r]
  /\ sent[r] = {}
  /\ giveBack(r)
  /\ pc' = [pc EXCEPT ![r] = "exited"]
  /\ link' = [link EXCEPT ![r] = "down"]
  /\ buf' = [buf EXCEPT ![r] = <<>>]
  /\ UNCHANGED <<cur, outcome, memory, cancelled, calm, history>>
-----------------------------------------------------------------------------
(* dispatch *)

Seen(r, m) == \E i \in DOMAIN dedup[r] : dedup[r][i] = m

(* A delivery is taken, also one of a channel that has closed meanwhile. *)
Take(r) ==
  /\ pc[r] = "select"
  /\ buf[r] # <<>>
  /\ cur' = [cur EXCEPT ![r] = Head(buf[r])]
  /\ buf' = [buf EXCEPT ![r] = Tail(@)]
  /\ \/ /\ Seen(r, Head(buf[r]))
        /\ pc' = [pc EXCEPT ![r] = "settle"]
        /\ outcome' = [outcome EXCEPT ![r] = "duplicate"]
     \/ /\ ~Seen(r, Head(buf[r]))
        /\ pc' = [pc EXCEPT ![r] = "handler"]
        /\ UNCHANGED outcome
  /\ UNCHANGED <<broker, link, memory, cancelled, calm, history>>

(* Faulty variant: one attempt too few. *)
attemptExceeded_early(r, m) == m \notin NoId /\ attempts[r][m] + 2 >= MaxAttempts

(* Does the requeue that is being counted exceed MaxAttempts? *)
attemptExceeded(r, m) ==
  MaxAttempts > 0 /\ m \notin NoId /\ attempts[r][m] + 1 >= MaxAttempts

(* Faulty variant: the counter starts over on a requeue. *)
countAttempt_forgets(r, m) == attempts' = [attempts EXCEPT ![r][m] = 0]

countAttempt(r, m) ==
  attempts' = IF MaxAttempts = 0 \/ m \in NoId THEN attempts
              ELSE [attempts EXCEPT ![r][m] = @ + 1]

(* The handler returns ack, requeue or dead-letter. *)
Handle(r) ==
  /\ pc[r] = "handler"
  /\ pc' = [pc EXCEPT ![r] = "settle"]
  /\ \/ /\ outcome' = [outcome EXCEPT ![r] = "ack"]
        /\ processed' = processed \cup {cur[r]}
        /\ UNCHANGED <<attempts, refused, requeues>>
     \/ /\ outcome' = [outcome EXCEPT ![r] = "reject"]
        /\ refused' = refused \cup {cur[r]}
        /\ UNCHANGED <<attempts, processed, requeues>>
     \/ /\ countAttempt(r, cur[r])
        /\ outcome' = [outcome EXCEPT ![r] =
             IF attemptExceeded(r, cur[r]) THEN "reject" ELSE "requeue"]
        /\ requeues' = [requeues EXCEPT ![cur[r]] = IF @ < MaxAttempts THEN @ + 1 ELSE @]
        /\ UNCHANGED <<processed, refused>>
  /\ UNCHANGED <<broker, link, buf, cur, dedup, marked, since, cancelled, calm>>

(* Ack or Nack writes a frame, or fails because the channel has closed;    *)
(* the error is logged and dispatch goes on.                               *)
write(r, frame) ==
  sent' = IF link[r] = "up" THEN [sent EXCEPT ![r] = @ \cup {<<cur[r], frame>>}] ELSE sent

(* Faulty variant: nothing is marked when the ack could not be written. *)
Mark_afterWrite(r, m) ==
  dedup' = IF m \in NoId \/ link[r] # "up" THEN dedup ELSE [dedup EXCEPT ![r] = Append(@, m)]

Mark(r, m) ==
  dedup' = IF m \in NoId \/ Seen(r, m) THEN dedup
           ELSE [dedup EXCEPT ![r] = Append(IF Len(@) >= DedupCap THEN Tail(@) ELSE @, m)]

forgetAttempts(r, m) == attempts' = [attempts EXCEPT ![r][m] = 0]

(* Records an ack in the history of the runner's life. *)
remember(r, m) ==
  /\ marked' = [marked EXCEPT ![r] = (@ \cup {m}) \ NoId]
  /\ since' = [since EXCEPT ![r] =
       [n \in Msgs |-> IF n = m THEN {} ELSE (@[n] \cup {m}) \ NoId]]

(* Faulty variant: a rejected message is marked as well. *)
Settle_marksAll(r) ==
  /\ pc[r] = "settle"
  /\ write(r, IF outcome[r] = "duplicate" THEN "ack" ELSE outcome[r])
  /\ Mark(r, cur[r])
  /\ forgetAttempts(r, cur[r])
  /\ pc' = [pc EXCEPT ![r] = "select"]
  /\ cur' = [cur EXCEPT ![r] = 0]
  /\ outcome' = [outcome EXCEPT ![r] = "none"]
  /\ UNCHANGED <<loc, holder, link, buf, marked, since, cancelled, calm, history>>

(* The switch at the end of dispatch, and the ack of a duplicate. *)
Settle(r) ==
  /\ pc[r] = "settle"
  /\ \/ /\ outcome[r] = "duplicate"
        /\ write(r, "ack")
        /\ UNCHANGED memory
     \/ /\ outcome[r] = "ack"
        /\ write(r, "ack")
        /\ Mark(r, cur[r])
        /\ forgetAttempts(r, cur[r])
        /\ remember(r, cur[r])
     \/ /\ outcome[r] = "requeue"
        /\ write(r, "requeue")
        /\ UNCHANGED memory
     \/ /\ outcome[r] = "reject"
        /\ write(r, "reject")
        /\ forgetAttempts(r, cur[r])
        /\ UNCHANGED <<dedup, marked, since>>
  /\ pc' = [pc EXCEPT ![r] = "select"]
  /\ cur' = [cur EXCEPT ![r] = 0]
  /\ outcome' = [outcome EXCEPT ![r] = "none"]
  /\ UNCHANGED <<loc, holder, link, buf, cancelled, calm, history>>
-----------------------------------------------------------------------------
(* The process dies (a panicking handler kills it too) with everything it  *)
(* remembers, and is started again.                                        *)
Crash(r) ==
  /\ ~calm
  /\ pc[r] \notin {"exited", "dead"}
  /\ giveBack(r)
  /\ pc' = [pc EXCEPT ![r] = "dead"]
  /\ link' = [link EXCEPT ![r] = "down"]
  /\ buf' = [buf EXCEPT ![r] = <<>>]
  /\ cur' = [cur EXCEPT ![r] = 0]
  /\ outcome' = [outcome EXCEPT ![r] = "none"]
  /\ attempts' = [attempts EXCEPT ![r] = [m \in Msgs |-> 0]]
  /\ dedup' = [dedup EXCEPT ![r] = <<>>]
  /\ marked' = [marked EXCEPT ![r] = {}]
  /\ since' = [since EXCEPT ![r] = [m \in Msgs |-> {}]]
  /\ cancelled' = [cancelled EXCEPT ![r] = FALSE]
  /\ UNCHANGED <<calm, history>>

Restart(r) ==
  /\ pc[r] = "dead"
  /\ pc' = [pc EXCEPT ![r] = "select"]
  /\ UNCHANGED <<broker, link, buf, cur, outcome, memory, cancelled, calm, history>>

BecomeCalm ==
  /\ ~calm
  /\ calm' = TRUE
  /\ UNCHANGED <<broker, link, buf, dispatchVars, memory, cancelled, history>>

Broker(r) == Deliver(r) \/ ReadFrame(r)

Consume(r) == Take(r) \/ Handle(r) \/ Settle(r)

Next ==
  \/ \E r \in Runners :
       \/ Broker(r) \/ Drop(r)
       \/ Notice(r) \/ Connect(r) \/ Consume(r)
       \/ Cancel(r) \/ Exit(r)
       \/ Crash(r) \/ Restart(r)
  \/ BecomeCalm

Spec == Init /\ [][Next]_vars

(***************************************************************************)
(* The broker and the goroutines make progress, handlers return, and dead  *)
(* processes are restarted.  Failures need not end, and a connection has   *)
(* to succeed only once they have.  Go's select picks one of the ready     *)
(* cases at random, so a ready ctx.Done() is not passed over for ever.     *)
(***************************************************************************)
FairSpec ==
  /\ Spec
  /\ \A r \in Runners : /\ WF_vars(Deliver(r))
                        /\ \A m \in Msgs : WF_vars(ReadFrame(r) /\ loc'[m] # loc[m])
                        /\ WF_vars(Consume(r)) /\ WF_vars(Notice(r))
                        /\ WF_vars(calm /\ Connect(r))
                        /\ WF_vars(Restart(r)) /\ SF_vars(Exit(r))
-----------------------------------------------------------------------------
(***************************************************************************)
(* No message is lost: one that the queue has forgotten as acked was acked *)
(* by some run of the handler, whatever deduplication, lost acks, crashes  *)
(* and stale deliveries there were.                                        *)
(***************************************************************************)
AckedWasProcessed == \A m \in Msgs : loc[m] = "acked" => m \in processed

MayDeadLetter(m) ==
  \/ m \in refused
  \/ m \notin NoId /\ MaxAttempts > 0 /\ requeues[m] = MaxAttempts

(***************************************************************************)
(* A message is dead-lettered only when a handler run said so, or when     *)
(* handler runs asked MaxAttempts times to requeue it (lines 42-47), and   *)
(* one without a MessageId only in the former case.                        *)
(***************************************************************************)
DeadLetterNeedsReason == \A m \in Msgs : loc[m] = "dlq" => MayDeadLetter(m)

(***************************************************************************)
(* Dedup (lines 53-57, 244-245): a runner hands a message that it has      *)
(* acked to the handler again only when it has acked DedupCap other ids    *)
(* since then, also when the ack could not be written or was lost.         *)
(***************************************************************************)
ReprocessedOnlyAfterEviction ==
  [][\A r \in Runners :
       pc[r] = "select" /\ pc'[r] = "handler" /\ cur'[r] \in marked[r]
         => Cardinality(since[r][cur'[r]]) >= DedupCap]_vars

(***************************************************************************)
(* MaxAttempts "breaks an infinite redelivery loop": if failures end,      *)
(* every message with an id leaves the queue, whatever handlers answer and *)
(* whatever was lost before, unless every runner is stopped.               *)
(***************************************************************************)
EverySettles ==
  <>calm => \A m \in Msgs \ NoId :
    <>[](loc[m] \in {"acked", "dlq"} \/ \A r \in Runners : pc[r] = "exited")

(***************************************************************************)
(* A cancelled Run returns (or its process dies), also when the broker is  *)
(* never reached again.                                                    *)
(***************************************************************************)
CancelledReturns ==
  \A r \in Runners : cancelled[r] ~> (pc[r] = "exited" \/ ~cancelled[r])

(***************************************************************************)
(* Redelivery ends and so does a cancelled Run.                            *)
(***************************************************************************)
RunnerProgress ==
  /\ EverySettles
  /\ CancelledReturns
=============================================================================
