-------------------------- MODULE ReliablePublisher --------------------------
(***************************************************************************)
(* rabbitmq.ReliablePublisher shared by concurrent goroutines.             *)
(*                                                                         *)
(* The mutex guards only the conn/ch pointers: publishOnce copies the      *)
(* pointer and then writes without the lock, and dial swaps the pointer    *)
(* and closes the old connection after the unlock, so another goroutine's  *)
(* redial can close the connection a call is using.  A connection and its  *)
(* channel are one object here.                                            *)
(*                                                                         *)
(* As the amqp091 driver is used: a write on a closed channel returns      *)
(* ErrClosed and stores nothing; any other write error is returned as it   *)
(* is; a channel that closes completes its pending confirms as not acked.  *)
(***************************************************************************)
EXTENDS Naturals

CONSTANTS
  Callers,   \* goroutines that call Publish
  MaxConns,  \* bound: connection objects alive at once, 2 per caller and 1
  Modes,     \* the values of cfg.Confirms to consider
  MayClose   \* whether the owner may call Close

ASSUME PublisherAssumption ==
  MaxConns \in Nat \ {0} /\ Modes \subseteq BOOLEAN /\ MayClose \in BOOLEAN

(* Connection objects are numbered; one that nobody refers to is reused. *)
Conns == 1..MaxConns
NoConn == 0

VARIABLES
  confirms,  \* cfg.Confirms
  conn,      \* p.conn (and p.ch)
  open,      \* the connections that are open
  closed,    \* Close was called
  pc,        \* where each caller is in Publish
  try,       \* 1 before the redial, 2 after it
  ch,        \* publishOnce's local copy of the pointer
  fresh,     \* the connection dial has opened and not yet installed
  old,       \* the connection dial has replaced and not yet closed
  transit,   \* the message is written and the broker has not read it
  confirm,   \* the deferred confirm: "none" "pending" "acked" "nacked"
  result,    \* what the last Publish returned: "none" "nil" "err"
  stored,    \* history: copies of this call's message the broker stored
  hit        \* history: a failure of network, broker or context hit this call

call == <<pc, try, ch, fresh, old, transit, confirm, result, stored, hit>>
shared == <<confirms, conn, open, closed>>
vars == <<shared, call>>

TypeOK ==
  /\ confirms \in BOOLEAN
  /\ conn \in Conns \cup {NoConn}
  /\ open \subseteq Conns
  /\ closed \in BOOLEAN
  /\ pc \in [Callers -> {"idle", "read", "write", "confirm", "dial", "swap", "closeOld"}]
  /\ try \in [Callers -> {1, 2}]
  /\ ch \in [Callers -> Conns \cup {NoConn}]
  /\ fresh \in [Callers -> Conns \cup {NoConn}]
  /\ old \in [Callers -> Conns \cup {NoConn}]
  /\ transit \in [Callers -> BOOLEAN]
  /\ confirm \in [Callers -> {"none", "pending", "acked", "nacked"}]
  /\ result \in [Callers -> {"none", "nil", "err"}]
  /\ stored \in [Callers -> 0..1]
  /\ hit \in [Callers -> BOOLEAN]

(* NewReliablePublisher: the initial dial succeeds, or fails and is left   *)
(* to the first Publish.                                                   *)
Init ==
  /\ confirms \in Modes
  /\ conn \in {NoConn, 1}
  /\ open = {conn} \ {NoConn}
  /\ closed = FALSE
  /\ pc = [g \in Callers |-> "idle"]
  /\ try = [g \in Callers |-> 1]
  /\ ch = [g \in Callers |-> NoConn]
  /\ fresh = [g \in Callers |-> NoConn]
  /\ old = [g \in Callers |-> NoConn]
  /\ transit = [g \in Callers |-> FALSE]
  /\ confirm = [g \in Callers |-> "none"]
  /\ result = [g \in Callers |-> "none"]
  /\ stored = [g \in Callers |-> 0]
  /\ hit = [g \in Callers |-> FALSE]
-----------------------------------------------------------------------------
(* Publish *)

(* A caller has one message in transit at a time (a bound), and nobody     *)
(* starts to publish after Close.                                          *)
Begin(g) ==
  /\ pc[g] = "idle"
  /\ ~transit[g]
  /\ ~closed
  /\ pc' = [pc EXCEPT ![g] = "read"]
  /\ try' = [try EXCEPT ![g] = 1]
  /\ result' = [result EXCEPT ![g] = "none"]
  /\ stored' = [stored EXCEPT ![g] = 0]
  /\ hit' = [hit EXCEPT ![g] = FALSE]
  /\ UNCHANGED <<shared, ch, fresh, old, transit, confirm>>

return(g, res) ==
  /\ pc' = [pc EXCEPT ![g] = "idle"]
  /\ result' = [result EXCEPT ![g] = res]
  /\ confirm' = [confirm EXCEPT ![g] = "none"]

(* publishWithRetry on ErrClosed: redial after the first try, give up      *)
(* after the second.                                                       *)
closedErr(g) ==
  \/ /\ try[g] = 1
     /\ pc' = [pc EXCEPT ![g] = "dial"]
     /\ UNCHANGED <<result, confirm>>
  \/ try[g] = 2 /\ return(g, "err")

(* publishOnce copies p.ch under the lock. *)
ReadChannel(g) ==
  /\ pc[g] = "read"
  /\ ch' = [ch EXCEPT ![g] = conn]
  /\ \/ conn = NoConn /\ closedErr(g)
     \/ /\ conn # NoConn
        /\ pc' = [pc EXCEPT ![g] = "write"]
        /\ UNCHANGED <<result, confirm>>
  /\ UNCHANGED <<shared, try, fresh, old, transit, stored, hit>>

(* The write goes to the copied channel, whatever p.ch is by now. *)
Write(g) ==
  /\ pc[g] = "write"
  /\ ch[g] \in open
  /\ transit' = [transit EXCEPT ![g] = TRUE]
  /\ \/ ~confirms /\ return(g, "nil")
     \/ /\ confirms
        /\ pc' = [pc EXCEPT ![g] = "confirm"]
        /\ confirm' = [confirm EXCEPT ![g] = "pending"]
        /\ UNCHANGED result
  /\ UNCHANGED <<shared, try, ch, fresh, old, stored, hit>>

WriteClosed(g) ==
  /\ pc[g] = "write"
  /\ ch[g] \notin open
  /\ closedErr(g)
  /\ UNCHANGED <<shared, try, ch, fresh, old, transit, stored, hit>>

(* A write error that is not ErrClosed. *)
WriteFails(g) ==
  /\ pc[g] = "write"
  /\ return(g, "err")
  /\ hit' = [hit EXCEPT ![g] = TRUE]
  /\ UNCHANGED <<shared, try, ch, fresh, old, transit, stored>>

(* Faulty variants: a nack is taken for an answer; a nack is retried as a  *)
(* closed channel is.                                                      *)
Confirmed_anyAnswer(g) ==
  /\ pc[g] = "confirm"
  /\ confirm[g] \in {"acked", "nacked"}
  /\ return(g, "nil")
  /\ UNCHANGED <<shared, try, ch, fresh, old, transit, stored, hit>>
Confirmed_retriesNack(g) ==
  /\ pc[g] = "confirm"
  /\ \/ confirm[g] = "acked" /\ return(g, "nil")
     \/ confirm[g] = "nacked" /\ closedErr(g)
  /\ UNCHANGED <<shared, try, ch, fresh, old, transit, stored, hit>>

(* dc.Done(): acked or not. *)
Confirmed(g) ==
  /\ pc[g] = "confirm"
  /\ \/ confirm[g] = "acked" /\ return(g, "nil")
     \/ confirm[g] = "nacked" /\ return(g, "err")
  /\ UNCHANGED <<shared, try, ch, fresh, old, transit, stored, hit>>

(* Faulty variant: the context is not watched while the answer is due. *)
ContextDone_late(g) ==
  /\ pc[g] = "confirm"
  /\ confirm[g] # "pending"
  /\ return(g, "err")
  /\ hit' = [hit EXCEPT ![g] = TRUE]
  /\ UNCHANGED <<shared, try, ch, fresh, old, transit, stored>>

(* ctx.Done() during the wait for the confirm. *)
ContextDone(g) ==
  /\ pc[g] = "confirm"
  /\ return(g, "err")
  /\ hit' = [hit EXCEPT ![g] = TRUE]
  /\ UNCHANGED <<shared, try, ch, fresh, old, transit, stored>>
-----------------------------------------------------------------------------
(* dial *)

InUse(c) == c = conn \/ c \in open \/ \E g \in Callers : c \in {ch[g], fresh[g], old[g]}

(* amqp.Dial, Channel, Confirm and ExchangeDeclare: all of them, or none. *)
Dial(g) ==
  /\ pc[g] = "dial"
  /\ \E c \in Conns :
       /\ ~InUse(c)
       /\ \A k \in 1..c - 1 : InUse(k)
       /\ fresh' = [fresh EXCEPT ![g] = c]
       /\ open' = open \cup {c}
  /\ pc' = [pc EXCEPT ![g] = "swap"]
  /\ UNCHANGED <<confirms, conn, closed, try, ch, old, transit, confirm, result, stored, hit>>

DialFails(g) ==
  /\ pc[g] = "dial"
  /\ return(g, "err")
  /\ hit' = [hit EXCEPT ![g] = TRUE]
  /\ UNCHANGED <<shared, try, ch, fresh, old, transit, stored>>

Swap(g) ==
  /\ pc[g] = "swap"
  /\ old' = [old EXCEPT ![g] = conn]
  /\ conn' = fresh[g]
  /\ fresh' = [fresh EXCEPT ![g] = NoConn]
  /\ pc' = [pc EXCEPT ![g] = "closeOld"]
  /\ UNCHANGED <<confirms, open, closed, try, ch, transit, confirm, result, stored, hit>>

(* Connections close: what was written and not read is lost, pending       *)
(* confirms complete as not acked.                                         *)
shut(cs) ==
  /\ open' = open \ cs
  /\ transit' = [g \in Callers |-> transit[g] /\ ch[g] \notin cs]
  /\ confirm' = [g \in Callers |->
       IF ch[g] \in cs /\ confirm[g] = "pending" THEN "nacked" ELSE confirm[g]]

(* Faulty variant: the replaced connection is left open. *)
CloseOld_leaks(g) ==
  /\ pc[g] = "closeOld"
  /\ old' = [old EXCEPT ![g] = NoConn]
  /\ pc' = [pc EXCEPT ![g] = "read"]
  /\ try' = [try EXCEPT ![g] = 2]
  /\ UNCHANGED <<shared, ch, fresh, transit, confirm, result, stored, hit>>

(* old.Close(), and the second publishOnce. *)
CloseOld(g) ==
  /\ pc[g] = "closeOld"
  /\ shut({old[g]})
  /\ old' = [old EXCEPT ![g] = NoConn]
  /\ pc' = [pc EXCEPT ![g] = "read"]
  /\ try' = [try EXCEPT ![g] = 2]
  /\ UNCHANGED <<confirms, conn, closed, ch, fresh, result, stored, hit>>
-----------------------------------------------------------------------------
(* Close: closes what p.conn refers to and leaves the pointers in place. *)
Close ==
  /\ MayClose
  /\ ~closed
  /\ closed' = TRUE
  /\ shut({conn})
  /\ UNCHANGED <<confirms, conn, pc, try, ch, fresh, old, result, stored, hit>>

(* The broker reads a message and stores it, then answers; or refuses it. *)
Store(g) ==
  /\ transit[g]
  /\ ch[g] \in open
  /\ transit' = [transit EXCEPT ![g] = FALSE]
  /\ stored' = [stored EXCEPT ![g] = @ + 1]
  /\ UNCHANGED <<shared, pc, try, ch, fresh, old, confirm, result, hit>>

BrokerAck(g) ==
  /\ confirm[g] = "pending"
  /\ ~transit[g]
  /\ confirm' = [confirm EXCEPT ![g] = "acked"]
  /\ UNCHANGED <<shared, pc, try, ch, fresh, old, transit, result, stored, hit>>

BrokerNack(g) ==
  /\ confirm[g] = "pending"
  /\ transit[g]
  /\ confirm' = [confirm EXCEPT ![g] = "nacked"]
  /\ transit' = [transit EXCEPT ![g] = FALSE]
  /\ hit' = [hit EXCEPT ![g] = TRUE]
  /\ UNCHANGED <<shared, pc, try, ch, fresh, old, result, stored>>

(* A connection drops under the calls that are using it. *)
Drop(c) ==
  /\ c \in open
  /\ shut({c})
  /\ hit' = [g \in Callers |-> hit[g] \/ (pc[g] # "idle" /\ c \in {conn, ch[g], fresh[g]})]
  /\ UNCHANGED <<confirms, conn, closed, pc, try, ch, fresh, old, result, stored>>

Publishing(g) ==
  \/ ReadChannel(g) \/ Write(g) \/ WriteClosed(g) \/ Confirmed(g)
  \/ Dial(g) \/ Swap(g) \/ CloseOld(g)

Broker(g) == Store(g) \/ BrokerAck(g)

Next ==
  \/ \E g \in Callers :
       \/ Begin(g) \/ Publishing(g) \/ ContextDone(g) \/ WriteFails(g) \/ DialFails(g)
       \/ Broker(g) \/ BrokerNack(g)
  \/ \E c \in Conns : Drop(c)
  \/ Close

Spec == Init /\ [][Next]_vars

(***************************************************************************)
(* Goroutines run and contexts have deadlines (PublishJSON sets one).  The *)
(* broker need not read or confirm anything, and failures need not end.    *)
(***************************************************************************)
Fairness ==
  \A g \in Callers : WF_vars(Publishing(g)) /\ WF_vars(ContextDone(g))

FairSpec == Spec /\ Fairness
-----------------------------------------------------------------------------
(***************************************************************************)
(* PublisherConfig, lines 23-26: with Confirms, a Publish that returned    *)
(* nil left its message at the broker, whatever connections were replaced  *)
(* under it.  (TypeOK adds that no call leaves two copies: only a write on *)
(* a closed channel, which stores nothing, is tried again.)                *)
(***************************************************************************)
NilMeansStored ==
  \A g \in Callers : confirms /\ result[g] = "nil" => stored[g] = 1

(***************************************************************************)
(* No connection is leaked by concurrent redials: an open connection is    *)
(* the installed one, or one that a dial in progress installs or closes.   *)
(***************************************************************************)
NoConnectionLeak ==
  \A c \in open : c = conn \/ \E g \in Callers : c \in {fresh[g], old[g]}

(***************************************************************************)
(* Every Publish returns, also when the broker never confirms.             *)
(***************************************************************************)
PublishReturns == \A g \in Callers : pc[g] # "idle" ~> pc[g] = "idle"

(***************************************************************************)
(* Lines 32-33, "one automatic retry on a closed channel. Safe for         *)
(* concurrent use": a Publish that no failure hit succeeds.                *)
(***************************************************************************)
FailsOnlyWhenHit == \A g \in Callers : result[g] = "err" => hit[g]

(***************************************************************************)
(* What Publish reports is what the broker has: nil means stored, and no   *)
(* call leaves two copies, although a write on a closed channel is tried   *)
(* again.                                                                  *)
(***************************************************************************)
StoredAsReported ==
  /\ TypeOK
  /\ NilMeansStored
==============================================================================
