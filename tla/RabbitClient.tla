---------------------------- MODULE RabbitClient ----------------------------
(***************************************************************************)
(* rabbitmq.Client: one connection and channel with a reconnect loop, the  *)
(* topology it declares, and a publisher and a consumer on its channel.    *)
(*                                                                         *)
(* As the driver is used: NotifyClose on a connection that is closed       *)
(* already, and a close by the client itself, close the listener without   *)
(* an error; a channel may be closed by the broker on its own, for a       *)
(* command it refuses; its consumers then end.                             *)
(***************************************************************************)
EXTENDS Naturals

VARIABLES
  conn,       \* c.conn: "up", "down"
  channel,    \* c.channel: "open", "closed"
  dialled,    \* a connection that connect has dialled and not yet installed
  stray,      \* connections open that nothing refers to any more (saturated)
  loopAt,     \* reconnectLoop: "register" "deaf" "watch" "pause" "ended"
  done,       \* c.done is closed
  quiet,      \* no more failures
  topology,   \* what the broker has of DeclareQueueWithDLQ's six declarations
  declaring,  \* how many of these the call in progress has made, 7 for no call
  consumer,   \* the goroutine of Consume: "none", "running", "handling", "over"
  message     \* the fate of the message that is in flight

rabbitVars == <<conn, channel, dialled, stray, loopAt, done, quiet, topology, declaring,
                consumer, message>>
link == <<conn, channel, dialled, stray, loopAt, done>>
traffic == <<topology, declaring, consumer, message>>

Steps == <<"exchange", "dlx", "dlq", "bindDlq", "queue", "bindQueue">>
Declared == {Steps[i] : i \in 1..6}

RabbitTypeOK ==
  /\ conn \in {"up", "down"} /\ channel \in {"open", "closed"}
  /\ dialled \in BOOLEAN /\ stray \in 0..1
  /\ loopAt \in {"register", "deaf", "watch", "pause", "ended"}
  /\ done \in BOOLEAN /\ quiet \in BOOLEAN
  /\ topology \subseteq Declared /\ declaring \in 0..7
  /\ consumer \in {"none", "running", "handling", "over"}
  /\ message \in {"none", "queue", "unacked", "acked", "dlq", "unroutable", "lost"}
  /\ message = "unacked" => consumer = "handling" /\ channel = "open"

(* NewClient has connected and started the loop. *)
RabbitInit ==
  /\ conn = "up" /\ channel = "open" /\ dialled = FALSE /\ stray = 0
  /\ loopAt = "register" /\ done = FALSE /\ quiet = FALSE
  /\ topology = {} /\ declaring = 7 /\ consumer = "none" /\ message = "none"
-----------------------------------------------------------------------------
(* The channel closes: its consumer's deliveries end, what it had not      *)
(* settled is back in the queue, and a declaration in progress fails.      *)
channelCloses ==
  /\ channel' = "closed"
  /\ consumer' = IF consumer = "running" THEN "over" ELSE consumer
  /\ message' = IF message = "unacked" THEN "queue" ELSE message
  /\ declaring' = 7
  /\ UNCHANGED topology

ConnectionDrops ==
  /\ ~quiet /\ conn = "up"
  /\ conn' = "down"
  /\ channelCloses
  /\ UNCHANGED <<dialled, stray, loopAt, done, quiet>>

ChannelException ==
  /\ ~quiet /\ channel = "open"
  /\ channelCloses
  /\ UNCHANGED <<conn, dialled, stray, loopAt, done, quiet>>

Quieten ==
  /\ ~quiet
  /\ quiet' = TRUE
  /\ UNCHANGED <<link, traffic>>
-----------------------------------------------------------------------------
(* reconnectLoop and connect *)

(* NotifyClose: on a connection that has gone already it hears nothing. *)
RegisterNotify ==
  /\ loopAt = "register"
  /\ loopAt' = IF conn = "up" THEN "watch" ELSE "deaf"
  /\ UNCHANGED <<conn, channel, dialled, stray, done, quiet, traffic>>

(* The listener's channel is closed without an error: the loop is over. *)
NotOk ==
  /\ loopAt = "deaf" \/ (loopAt = "watch" /\ conn = "down" /\ done)
  /\ loopAt' = "ended"
  /\ UNCHANGED <<conn, channel, dialled, stray, done, quiet, traffic>>

(* Faulty variant: any close is taken for the end. *)
NoticeDrop_ends ==
  /\ loopAt = "watch" /\ conn = "down"
  /\ loopAt' = "ended"
  /\ UNCHANGED <<conn, channel, dialled, stray, done, quiet, traffic>>

NoticeDrop ==
  /\ loopAt = "watch" /\ conn = "down" /\ ~done
  /\ loopAt' = "pause"
  /\ UNCHANGED <<conn, channel, dialled, stray, done, quiet, traffic>>

DoneSeen ==
  /\ done /\ ~dialled
  /\ loopAt \in {"watch", "deaf", "pause"}
  /\ loopAt' = "ended"
  /\ UNCHANGED <<conn, channel, dialled, stray, done, quiet, traffic>>

(* connect dials; a failure means another, longer pause. *)
Dial ==
  /\ loopAt = "pause" /\ ~dialled
  /\ dialled' = TRUE
  /\ UNCHANGED <<conn, channel, stray, loopAt, done, quiet, traffic>>

(* Faulty variant: the connection stays open when its channel fails. *)
NoChannel_leaks ==
  /\ dialled /\ ~quiet
  /\ dialled' = FALSE
  /\ stray' = 1
  /\ UNCHANGED <<conn, channel, loopAt, done, quiet, traffic>>

(* No channel on the new connection: it is closed again. *)
NoChannel ==
  /\ dialled /\ ~quiet
  /\ dialled' = FALSE
  /\ UNCHANGED <<conn, channel, stray, loopAt, done, quiet, traffic>>

(* The new connection and channel are installed, also after Close. *)
Install ==
  /\ dialled
  /\ dialled' = FALSE
  /\ stray' = IF conn = "up" THEN 1 ELSE stray
  /\ conn' = "up" /\ channel' = "open"
  /\ loopAt' = "register"
  /\ UNCHANGED <<done, quiet, traffic>>

Close ==
  /\ ~done
  /\ done' = TRUE
  /\ conn' = "down"
  /\ channelCloses
  /\ UNCHANGED <<dialled, stray, loopAt, quiet>>
-----------------------------------------------------------------------------
(* Topology, Publish and Consume on the client's channel *)

(* Faulty variant: the queue is declared first and its dead letters last. *)
Step_queueFirst(i) == <<"exchange", "queue", "bindQueue", "dlx", "dlq", "bindDlq">>[i]

(* DeclareQueueWithDLQ: what its i-th call declares. *)
Step(i) == Steps[i]

DeclareQueueWithDLQ ==
  /\ channel = "open"
  /\ \/ declaring = 7 /\ declaring' = 0 /\ UNCHANGED topology
     \/ /\ declaring < 6
        /\ declaring' = declaring + 1
        /\ topology' = topology \cup {Step(declaring + 1)}
     \/ declaring = 6 /\ declaring' = 7 /\ UNCHANGED topology
  /\ UNCHANGED <<link, quiet, consumer, message>>

(* Not mandatory: the broker drops what no binding takes. *)
Publish ==
  /\ channel = "open"
  /\ message \notin {"queue", "unacked"}
  /\ message' = IF {"exchange", "queue", "bindQueue"} \subseteq topology
                THEN "queue" ELSE "unroutable"
  /\ UNCHANGED <<link, quiet, topology, declaring, consumer>>

Consume ==
  /\ channel = "open" /\ "queue" \in topology
  /\ consumer \in {"none", "over"}
  /\ consumer' = "running"
  /\ UNCHANGED <<link, quiet, topology, declaring, message>>

HandleDelivery ==
  /\ consumer = "running" /\ channel = "open"
  /\ message = "queue"
  /\ message' = "unacked" /\ consumer' = "handling"
  /\ UNCHANGED <<link, quiet, topology, declaring>>

(* A dead-lettered message needs the dead-letter exchange and, the key "#" *)
(* taking every message of a topic exchange, the queue bound to it.        *)
deadLettered == IF {"dlx", "dlq", "bindDlq"} \subseteq topology THEN "dlq" ELSE "lost"

(* Faulty variant: a handler's error is not answered with a Nack.          *)
Settle_withoutNack ==
  /\ consumer = "handling"
  /\ \/ message = "unacked" /\ message' \in {"acked", "unacked"} /\ consumer' = "running"
     \/ message # "unacked" /\ UNCHANGED message /\ consumer' = "over"
  /\ UNCHANGED <<link, quiet, topology, declaring>>

(* The handler returns: Ack or, on an error, Nack without requeue.  On a   *)
(* channel that has closed neither reaches the broker.                     *)
Settle ==
  /\ consumer = "handling"
  /\ \/ message = "unacked" /\ message' \in {"acked", deadLettered} /\ consumer' = "running"
     \/ message # "unacked" /\ UNCHANGED message /\ consumer' = "over"
  /\ UNCHANGED <<link, quiet, topology, declaring>>
-----------------------------------------------------------------------------
Reconnect == RegisterNotify \/ NotOk \/ NoticeDrop \/ DoneSeen \/ Dial \/ Install

RabbitNext ==
  \/ ConnectionDrops \/ ChannelException \/ Quieten
  \/ Reconnect \/ NoChannel \/ Close
  \/ DeclareQueueWithDLQ \/ Publish \/ Consume \/ HandleDelivery \/ Settle

RabbitSpec == RabbitInit /\ [][RabbitNext]_rabbitVars
-----------------------------------------------------------------------------
(***************************************************************************)
(* A message the queue has taken is never lost by a Nack: the queue exists *)
(* only once its dead letters have a place, also when DeclareQueueWithDLQ  *)
(* fails half way or is repeated.                                          *)
(***************************************************************************)
DeadLettersKept == message # "lost"

(***************************************************************************)
(* A client never has two connections open: what connect does not install  *)
(* it closes, and it dials only after the old connection has gone.         *)
(***************************************************************************)
OneConnection == stray = 0 /\ ~(dialled /\ conn = "up")

(***************************************************************************)
(* "with automatic reconnect" (client.go line 11), as far as the code goes *)
(* with it: when failures end, a connection that the loop watched when it  *)
(* dropped comes back, unless the client is closed.  (A drop between       *)
(* connect and NotifyClose ends the loop, lines 73-75.)                    *)
(***************************************************************************)
ConnectionReturns ==
  <>quiet => ((conn = "down" /\ loopAt = "watch") ~> (conn = "up" \/ done))

(***************************************************************************)
(* What rabbitmq.Client promises: dead letters have a place, and there is  *)
(* never a second connection.                                              *)
(***************************************************************************)
RabbitContract ==
  /\ RabbitTypeOK
  /\ DeadLettersKept
  /\ OneConnection
=============================================================================
