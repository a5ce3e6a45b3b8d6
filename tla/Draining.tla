------------------------------ MODULE Draining ------------------------------
(***************************************************************************)
(* The end of a service: Server.Start waits for a signal and drains the    *)
(* requests, then main stops the AuditWorker that middleware.Audit feeds.  *)
(* Requests also pass auditing.Middleware, which publishes their record    *)
(* from a goroutine that nobody waits for.  A route's audit middleware is  *)
(* inside Recovery, so a panic passes it by.                               *)
(***************************************************************************)
EXTENDS Naturals, Sequences, Functions

CONSTANTS
  HttpReqs,     \* requests
  QueueSize     \* capacity of AuditWorker.events

ASSUME QueueAssumption == QueueSize \in Nat \ {0}

VARIABLES
  server,     \* Start: "serving", "draining", "returned"; then "exited"
  forced,     \* shutdown returned because of ShutdownTimeout or a failed listener
  request,    \* "new", "running", "returned", "sent", "over", "panicked"
  outcome,    \* of its handler: [status, action]
  events,     \* AuditWorker.events
  eventsClosed,   \* the channel is closed
  emitting,   \* the event drain is emitting, {} for none
  drained,    \* drain has returned: wg is done
  emitted, failed, dropped, refused,   \* history: what became of the events
  record      \* auditing.Publisher: "none", "going", "stored", "failed", "lost"

drainVars == <<server, forced, request, outcome, events, eventsClosed, emitting, drained, emitted,
               failed, dropped, refused, record>>
workerVars == <<events, eventsClosed, emitting, drained, emitted, failed, dropped, refused>>

statusesToAudit == {200, 201, 204}

DrainTypeOK ==
  /\ server \in {"serving", "draining", "returned", "stopping", "exited"} /\ forced \in BOOLEAN
  /\ request \in [HttpReqs -> {"new", "running", "returned", "sent", "over", "panicked"}]
  /\ outcome \in [HttpReqs -> [status : {200, 500}, action : BOOLEAN]]
  /\ Len(events) <= QueueSize /\ Range(events) \subseteq HttpReqs
  /\ emitting \subseteq HttpReqs /\ eventsClosed \in BOOLEAN /\ drained \in BOOLEAN
  /\ record \in [HttpReqs -> {"none", "going", "stored", "failed", "lost"}]

DrainInit ==
  /\ server = "serving" /\ forced = FALSE
  /\ request = [r \in HttpReqs |-> "new"]
  /\ outcome = [r \in HttpReqs |-> [status |-> 200, action |-> FALSE]]
  /\ events = <<>> /\ eventsClosed = FALSE /\ emitting = {} /\ drained = FALSE
  /\ emitted = {} /\ failed = {} /\ dropped = {} /\ refused = {}
  /\ record = [r \in HttpReqs |-> "none"]
-----------------------------------------------------------------------------
(* Server.Start                                                            *)

Serve(r) ==
  /\ server = "serving" /\ request[r] = "new"
  /\ request' = [request EXCEPT ![r] = "running"]
  /\ UNCHANGED <<server, forced, outcome, workerVars, record>>

Signal ==
  /\ server = "serving" /\ server' = "draining"
  /\ UNCHANGED <<forced, request, outcome, workerVars, record>>

(* ListenAndServe fails: Start returns at once, handlers still run.        *)
ListenFails ==
  /\ server = "serving" /\ server' = "returned" /\ forced' = TRUE
  /\ UNCHANGED <<request, outcome, workerVars, record>>

InFlight == {r \in HttpReqs : request[r] \in {"running", "returned", "sent"}}

(* Faulty variant: shutdown does not wait for the requests.                *)
Drained_atOnce ==
  /\ server = "draining" /\ server' = "returned"
  /\ UNCHANGED <<forced, request, outcome, workerVars, record>>

Drained ==
  /\ server = "draining" /\ InFlight = {} /\ server' = "returned"
  /\ UNCHANGED <<forced, request, outcome, workerVars, record>>

ShutdownTimeout ==
  /\ server = "draining" /\ InFlight # {}
  /\ server' = "returned" /\ forced' = TRUE
  /\ UNCHANGED <<request, outcome, workerVars, record>>
-----------------------------------------------------------------------------
(* A request, from its handler's return to its own                         *)

alive == server # "exited"

HandlerReturns(r) ==
  /\ alive /\ request[r] = "running"
  /\ \E s \in {200, 500}, a \in BOOLEAN :
       outcome' = [outcome EXCEPT ![r] = [status |-> s, action |-> a]]
  /\ request' = [request EXCEPT ![r] = "returned"]
  /\ UNCHANGED <<server, forced, workerVars, record>>

HandlerPanics(r) ==
  /\ alive /\ request[r] = "running"
  /\ request' = [request EXCEPT ![r] = "panicked"]
  /\ UNCHANGED <<server, forced, outcome, workerVars, record>>

(* Faulty variant: the limit of the queue is not respected.                *)
Send_unbounded(r) ==
  /\ alive /\ request[r] = "returned" /\ ~eventsClosed
  /\ request' = [request EXCEPT ![r] = "sent"] /\ events' = Append(events, r)
  /\ UNCHANGED <<server, forced, outcome, eventsClosed, emitting, drained, emitted, failed, dropped,
                 refused, record>>

(* AuditWorker.Send: queued, dropped when the queue is full, or a panic on *)
(* the closed channel, which ends the request at Recovery.                 *)
Send(r) ==
  /\ alive /\ request[r] = "returned"
  /\ request' = [request EXCEPT ![r] = IF eventsClosed THEN "over" ELSE "sent"]
  /\ events' = IF eventsClosed \/ Len(events) = QueueSize THEN events ELSE Append(events, r)
  /\ refused' = IF eventsClosed THEN refused \cup {r} ELSE refused
  /\ dropped' = IF ~eventsClosed /\ Len(events) = QueueSize THEN dropped \cup {r} ELSE dropped
  /\ UNCHANGED <<server, forced, outcome, eventsClosed, emitting, drained, emitted, failed, record>>

(* Faulty variant: every request that set an action is published.          *)
Audited_anyStatus(r) ==
  /\ alive /\ request[r] = "sent"
  /\ request' = [request EXCEPT ![r] = "over"]
  /\ record' = [record EXCEPT ![r] = IF outcome[r].action THEN "going" ELSE @]
  /\ UNCHANGED <<server, forced, outcome, workerVars>>

(* auditing.Middleware after the handler: go pub.Publish(rec)              *)
Audited(r) ==
  /\ alive /\ request[r] = "sent"
  /\ request' = [request EXCEPT ![r] = "over"]
  /\ record' = [record EXCEPT ![r] =
       IF outcome[r].action /\ outcome[r].status \in statusesToAudit THEN "going" ELSE @]
  /\ UNCHANGED <<server, forced, outcome, workerVars>>

PublishRecord(r) ==
  /\ alive /\ record[r] = "going"
  /\ \E to \in {"stored", "failed"} : record' = [record EXCEPT ![r] = to]
  /\ UNCHANGED <<server, forced, request, outcome, workerVars>>
-----------------------------------------------------------------------------
(* AuditWorker                                                             *)

TakeEvent ==
  /\ alive /\ emitting = {} /\ events # <<>>
  /\ emitting' = {Head(events)} /\ events' = Tail(events)
  /\ UNCHANGED <<server, forced, request, outcome, eventsClosed, drained, emitted, failed, dropped,
                 refused, record>>

(* Emit's error is only logged.                                            *)
EmitReturns ==
  /\ alive /\ emitting # {} /\ emitting' = {}
  /\ \/ emitted' = emitted \cup emitting /\ UNCHANGED failed
     \/ failed' = failed \cup emitting /\ UNCHANGED emitted
  /\ UNCHANGED <<server, forced, request, outcome, events, eventsClosed, drained, dropped, refused,
                 record>>

(* Faulty variant: drain ends as soon as the channel is closed.            *)
DrainReturns_atClose ==
  /\ alive /\ eventsClosed /\ emitting = {} /\ ~drained
  /\ drained' = TRUE
  /\ UNCHANGED <<server, forced, request, outcome, events, eventsClosed, emitting, emitted, failed,
                 dropped, refused, record>>

DrainReturns ==
  /\ alive /\ eventsClosed /\ events = <<>> /\ emitting = {} /\ ~drained
  /\ drained' = TRUE
  /\ UNCHANGED <<server, forced, request, outcome, events, eventsClosed, emitting, emitted, failed,
                 dropped, refused, record>>

(* Faulty variant: Stop waits for drain before it closes the channel.      *)
StopWorker_waitsFirst ==
  /\ server = "returned" /\ drained /\ server' = "stopping" /\ eventsClosed' = TRUE
  /\ UNCHANGED <<forced, request, outcome, events, emitting, drained, emitted, failed, dropped,
                 refused, record>>

(* main, after Start has returned: worker.Stop, which closes and waits     *)
StopWorker ==
  /\ server = "returned" /\ server' = "stopping" /\ eventsClosed' = TRUE
  /\ UNCHANGED <<forced, request, outcome, events, emitting, drained, emitted, failed, dropped,
                 refused, record>>

Exit ==
  /\ server = "stopping" /\ drained /\ server' = "exited"
  /\ record' = [r \in HttpReqs |-> IF record[r] = "going" THEN "lost" ELSE record[r]]
  /\ UNCHANGED <<forced, request, outcome, workerVars>>

(* What runs by itself once the signal is there, handlers excepted.        *)
Wind == Drained \/ ShutdownTimeout \/ TakeEvent \/ EmitReturns \/ DrainReturns \/ StopWorker \/ Exit

DrainNext ==
  \/ Signal \/ ListenFails \/ Wind
  \/ \E r \in HttpReqs : \/ Serve(r) \/ HandlerReturns(r) \/ HandlerPanics(r) \/ Send(r)
                         \/ Audited(r) \/ PublishRecord(r)

DrainSpec == DrainInit /\ [][DrainNext]_drainVars
-----------------------------------------------------------------------------
(***************************************************************************)
(* Stop flushes: when it returns, the event of every request that passed   *)
(* the audit middleware has been emitted or its failure logged, or it was  *)
(* dropped at a full queue, or came after the channel was closed.          *)
(***************************************************************************)
EventsAccountedFor ==
  server = "exited" =>
    /\ events = <<>> /\ emitting = {}
    /\ \A r \in HttpReqs : request[r] \in {"sent", "over"} =>
         r \in emitted \cup failed \cup dropped \cup refused

(***************************************************************************)
(* Send meets a closed channel, and panics, only for a request that        *)
(* outlived ShutdownTimeout or a failed listener: a graceful shutdown      *)
(* hands Stop a service without requests.                                  *)
(***************************************************************************)
SendPanicsOnlyWhenForced == refused # {} => forced

(***************************************************************************)
(* An audit record goes out only for a request whose handler set an action *)
(* and answered 200, 201 or 204; it is lost only at the end of the process *)
(* which does not wait for Publish, even after a graceful shutdown.        *)
(***************************************************************************)
RecordsTrue ==
  \A r \in HttpReqs :
    /\ record[r] # "none" => outcome[r] = [status |-> 200, action |-> TRUE] /\ request[r] = "over"
    /\ record[r] = "lost" => server = "exited"
    /\ request[r] = "over" /\ outcome[r] = [status |-> 200, action |-> TRUE] /\ r \notin refused
         => record[r] # "none"

(***************************************************************************)
(* A signal ends the process, though a handler may hang: ShutdownTimeout   *)
(* bounds the wait and Stop's close lets drain finish.                     *)
(***************************************************************************)
SignalEnds == server = "draining" ~> server = "exited"

(***************************************************************************)
(* What the end of a service promises: audit events and records are        *)
(* accounted for, and Send panics only after a forced shutdown.            *)
(***************************************************************************)
DrainContract ==
  /\ DrainTypeOK
  /\ EventsAccountedFor
  /\ SendPanicsOnlyWhenForced
  /\ RecordsTrue
=============================================================================
