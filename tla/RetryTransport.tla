--------------------------- MODULE RetryTransport ---------------------------
(***************************************************************************)
(* resilience.NewHTTPClient: the retrying RoundTripper, with concurrent    *)
(* requests sharing one circuit breaker (module CircuitBreaker).           *)
(*                                                                         *)
(* A request slot in Calls runs RoundTrip again and again.  Each run picks *)
(* a method that is or is not in retryMethods and one kind of body:        *)
(*   "none"     no body;                                                   *)
(*   "getBody"  the caller supplied GetBody;                               *)
(*   "stream"   a body without GetBody that can be read to its end;        *)
(*   "broken"   a body without GetBody whose reading fails.                *)
(* Durations are not modelled: a wait ends when its timer fires or its     *)
(* context is done.  A client without a breaker behaves like one whose     *)
(* breaker never reaches its threshold.                                    *)
(***************************************************************************)
EXTENDS Naturals

CONSTANTS
  Calls, FailureThreshold, Cooldown, FnMayPanic,  \* of the shared breaker
  MaxAttempts,                                    \* Policy.MaxAttempts
  Bodies                                          \* the kinds of body requests have

VARIABLES
  state, failures, sinceOpen, probeInFlight,      \* the breaker
  pc, admittedIn, streak, upstream,
  phase,      \* where each request is in RoundTrip
  req,        \* the request: retryable method, kind of body
  retryable,  \* RoundTrip's local retryable
  attempt,    \* RoundTrip's loop counter
  body,       \* req.Body: "none", "full" or "spent"
  getBody,    \* req.GetBody # nil
  ctxDone,    \* req.Context().Err() # nil
  open,       \* responses of this request whose body is not closed
  result,     \* what RoundTrip returned
  sends,      \* history: round trips made on the wire
  lateSends,  \* history: those made after the context was done
  short       \* history: a round trip was made with a spent body

breaker == <<state, failures, sinceOpen, probeInFlight, pc, admittedIn, streak, upstream>>
local == <<req, retryable, getBody>>
history == <<sends, lateSends, short>>
vars == <<breaker, phase, local, attempt, body, ctxDone, open, result, history>>

Breaker == INSTANCE CircuitBreaker

BodyKind == {"none", "getBody", "stream", "broken"}

ASSUME TransportAssumption ==
  /\ MaxAttempts \in Nat /\ Bodies \subseteq BodyKind
  /\ FailureThreshold \in Nat \ {0} /\ Cooldown \in Nat \ {0} /\ FnMayPanic \in BOOLEAN

(* Policy.attempts *)
policyAttempts == IF MaxAttempts < 1 THEN 1 ELSE MaxAttempts

TypeOK ==
  /\ Breaker!TypeOK
  /\ phase \in [Calls -> {"done", "loop", "call", "wire", "backoff"}]
  /\ req \in [Calls -> [method : BOOLEAN, body : BodyKind]]
  /\ retryable \in [Calls -> BOOLEAN]
  /\ attempt \in [Calls -> 1..policyAttempts]
  /\ body \in [Calls -> {"none", "full", "spent"}]
  /\ getBody \in [Calls -> BOOLEAN]
  /\ ctxDone \in [Calls -> BOOLEAN]
  /\ open \in [Calls -> 0..policyAttempts]
  /\ result \in [Calls -> {"none", "resp", "err", "ErrOpen", "ctxErr"}]
  /\ sends \in [Calls -> 0..policyAttempts]
  /\ lateSends \in [Calls -> 0..policyAttempts]
  /\ short \in [Calls -> BOOLEAN]

Init ==
  /\ Breaker!Init
  /\ phase = [r \in Calls |-> "done"]
  /\ req = [r \in Calls |-> [method |-> FALSE, body |-> "none"]]
  /\ retryable = [r \in Calls |-> FALSE]
  /\ attempt = [r \in Calls |-> 1]
  /\ body = [r \in Calls |-> "none"]
  /\ getBody = [r \in Calls |-> FALSE]
  /\ ctxDone = [r \in Calls |-> FALSE]
  /\ open = [r \in Calls |-> 0]
  /\ result = [r \in Calls |-> "none"]
  /\ sends = [r \in Calls |-> 0]
  /\ lateSends = [r \in Calls |-> 0]
  /\ short = [r \in Calls |-> FALSE]
-----------------------------------------------------------------------------
(* bufferBody is tried only where a replay would need it. *)
needsBuffer(m, kind) == m /\ kind \in {"stream", "broken"}

(* Faulty variant: retries stay on when the body could not be buffered. *)
StaysRetryable_ignoresError(m, kind) == m

StaysRetryable(m, kind) == m /\ kind # "broken"

(* RoundTrip up to its loop: decide retryable, buffer the body.  A failed  *)
(* bufferBody has already read and closed the body.                        *)
Start(r) ==
  /\ phase[r] = "done"
  /\ \E m \in BOOLEAN, kind \in Bodies :
       /\ req' = [req EXCEPT ![r] = [method |-> m, body |-> kind]]
       /\ retryable' = [retryable EXCEPT ![r] = StaysRetryable(m, kind)]
       /\ getBody' = [getBody EXCEPT ![r] =
            kind = "getBody" \/ (needsBuffer(m, kind) /\ kind = "stream")]
       /\ body' = [body EXCEPT ![r] =
            CASE kind = "none" -> "none"
              [] needsBuffer(m, kind) /\ kind = "broken" -> "spent"
              [] OTHER -> "full"]
  /\ attempt' = [attempt EXCEPT ![r] = 1]
  /\ phase' = [phase EXCEPT ![r] = "loop"]
  /\ ctxDone' = [ctxDone EXCEPT ![r] = FALSE]
  /\ open' = [open EXCEPT ![r] = 0]
  /\ result' = [result EXCEPT ![r] = "none"]
  /\ sends' = [sends EXCEPT ![r] = 0]
  /\ lateSends' = [lateSends EXCEPT ![r] = 0]
  /\ short' = [short EXCEPT ![r] = FALSE]
  /\ UNCHANGED breaker

(* RoundTrip returns: its locals, the request body and the context with    *)
(* them, are gone.                                                         *)
return(r, res) ==
  /\ phase' = [phase EXCEPT ![r] = "done"]
  /\ result' = [result EXCEPT ![r] = res]
  /\ attempt' = [attempt EXCEPT ![r] = 1]
  /\ body' = [body EXCEPT ![r] = "none"]
  /\ ctxDone' = [ctxDone EXCEPT ![r] = FALSE]

(* RoundTrip goes on to sleepCtx. *)
backOff(r) ==
  /\ phase' = [phase EXCEPT ![r] = "backoff"]
  /\ UNCHANGED <<result, attempt, body, ctxDone>>

(* The head of the loop: the context check. *)
LoopCancelled(r) ==
  /\ phase[r] = "loop"
  /\ ctxDone[r]
  /\ return(r, "ctxErr")
  /\ UNCHANGED <<breaker, local, open, history>>

(* GetBody, when the caller supplied it, may fail. *)
ResetBodyFails(r) ==
  /\ phase[r] = "loop"
  /\ ~ctxDone[r]
  /\ req[r].body = "getBody"
  /\ return(r, "err")
  /\ UNCHANGED <<breaker, local, open, history>>

(* Faulty variants: the body is not rewound; the context is not checked. *)
LoopHead_noReset(r) ==
  /\ phase[r] = "loop"
  /\ ~ctxDone[r]
  /\ phase' = [phase EXCEPT ![r] = "call"]
  /\ UNCHANGED <<breaker, local, attempt, body, ctxDone, open, result, history>>
LoopHead_noCtxCheck(r) ==
  /\ phase[r] = "loop"
  /\ body' = [body EXCEPT ![r] = IF getBody[r] THEN "full" ELSE @]
  /\ phase' = [phase EXCEPT ![r] = "call"]
  /\ UNCHANGED <<breaker, local, attempt, ctxDone, open, result, history>>

(* resetBody, then on to the attempt. *)
LoopHead(r) ==
  /\ phase[r] = "loop"
  /\ ~ctxDone[r]
  /\ body' = [body EXCEPT ![r] = IF getBody[r] THEN "full" ELSE @]
  /\ phase' = [phase EXCEPT ![r] = "call"]
  /\ UNCHANGED <<breaker, local, attempt, ctxDone, open, result, history>>

LastAttempt(r) == attempt[r] = (IF retryable[r] THEN policyAttempts ELSE 1)

(* The attempt failed without a response: out of attempts, or back off. *)
failed(r, res) ==
  \/ LastAttempt(r) /\ return(r, res)
  \/ ~LastAttempt(r) /\ backOff(r)

(* The breaker refuses: no response, and ErrOpen is retried as any error. *)
Refused(r) ==
  /\ phase[r] = "call"
  /\ Breaker!Reject(r)
  /\ failed(r, "ErrOpen")
  /\ UNCHANGED <<local, open, history>>

(* The breaker admits: base.RoundTrip consumes the body it is given. *)
Send(r) ==
  /\ phase[r] = "call"
  /\ Breaker!Admit(r)
  /\ phase' = [phase EXCEPT ![r] = "wire"]
  /\ body' = [body EXCEPT ![r] = IF @ = "none" THEN @ ELSE "spent"]
  /\ sends' = [sends EXCEPT ![r] = @ + 1]
  /\ lateSends' = [lateSends EXCEPT ![r] = @ + (IF ctxDone[r] THEN 1 ELSE 0)]
  /\ short' = [short EXCEPT ![r] = @ \/ body[r] = "spent"]
  /\ UNCHANGED <<local, attempt, ctxDone, open, result>>

(* A response with a status that is not retried is handed to the caller. *)
Answered(r) ==
  /\ phase[r] = "wire"
  /\ Breaker!FinishWith(r, "nil")
  /\ open' = [open EXCEPT ![r] = @ + 1]
  /\ return(r, "resp")
  /\ UNCHANGED <<local, history>>

(* Faulty variants: the response of a failed attempt is not closed, or is  *)
(* closed twice.                                                           *)
drain_forgotten(n) == n
drain_twice(n) == n - 2

(* drain: closes the response just received. *)
drain(n) == n - 1

(* A retryable status: a breaker failure, yet a response for the loop. *)
RetryableStatus(r) ==
  /\ phase[r] = "wire"
  /\ Breaker!FinishWith(r, "err")
  /\ \/ /\ LastAttempt(r)
        /\ open' = [open EXCEPT ![r] = @ + 1]
        /\ return(r, "resp")
     \/ /\ ~LastAttempt(r)
        /\ open' = [open EXCEPT ![r] = drain(@ + 1)]
        /\ backOff(r)
  /\ UNCHANGED <<local, history>>

(* A transport error, the context's own included. *)
TransportError(r) ==
  /\ phase[r] = "wire"
  /\ Breaker!FinishWith(r, "err")
  /\ failed(r, "err")
  /\ UNCHANGED <<local, open, history>>

(* Faulty variant: the attempt is not counted. *)
Wake_notCounted(r) ==
  /\ phase[r] = "backoff"
  /\ phase' = [phase EXCEPT ![r] = "loop"]
  /\ UNCHANGED <<breaker, local, attempt, body, ctxDone, open, result, history>>

(* sleepCtx: the timer fires (it may, even when the context is also done). *)
Wake(r) ==
  /\ phase[r] = "backoff"
  /\ attempt' = [attempt EXCEPT ![r] = @ + 1]
  /\ phase' = [phase EXCEPT ![r] = "loop"]
  /\ UNCHANGED <<breaker, local, body, ctxDone, open, result, history>>

SleepCancelled(r) ==
  /\ phase[r] = "backoff"
  /\ ctxDone[r]
  /\ return(r, "ctxErr")
  /\ UNCHANGED <<breaker, local, open, history>>

(* The caller cancels, or the client timeout passes. *)
Cancel(r) ==
  /\ phase[r] # "done"
  /\ ~ctxDone[r]
  /\ ctxDone' = [ctxDone EXCEPT ![r] = TRUE]
  /\ UNCHANGED <<breaker, phase, local, attempt, body, open, result, history>>

Tick ==
  /\ Breaker!Tick
  /\ UNCHANGED <<phase, local, attempt, body, ctxDone, open, result, history>>

Step(r) ==
  \/ LoopCancelled(r) \/ ResetBodyFails(r) \/ LoopHead(r)
  \/ Refused(r) \/ Send(r)
  \/ Answered(r) \/ RetryableStatus(r) \/ TransportError(r)
  \/ Wake(r) \/ SleepCancelled(r)

Next == Tick \/ \E r \in Calls : Start(r) \/ Step(r) \/ Cancel(r)

Spec == Init /\ [][Next]_vars

(* A goroutine in RoundTrip keeps running: timers fire, and the transport  *)
(* returns (it has a timeout or its peer closes the connection).           *)
FairSpec == Spec /\ \A r \in Calls : WF_vars(Step(r))
-----------------------------------------------------------------------------
(***************************************************************************)
(* A request whose method is not retryable, or whose body could not be     *)
(* buffered, reaches the wire at most once, and any other at most          *)
(* MaxAttempts times, the refused attempts counting against the cap.       *)
(***************************************************************************)
SendsBounded ==
  \A r \in Calls :
    sends[r] <= IF req[r].method /\ req[r].body # "broken" THEN policyAttempts ELSE 1

(***************************************************************************)
(* Every round trip carries the request's whole body, whichever attempt it *)
(* is, unless the body cannot be read at all.                              *)
(***************************************************************************)
BodyReplayed == \A r \in Calls : short[r] => req[r].body = "broken"

(***************************************************************************)
(* No response is leaked: the only response left open is the one that      *)
(* RoundTrip returned, whichever way the loop was left.                    *)
(***************************************************************************)
NoResponseLeak ==
  \A r \in Calls : open[r] = IF result[r] = "resp" THEN 1 ELSE 0

(***************************************************************************)
(* Once its context is done a request makes at most one more round trip    *)
(* (the one already past the check), even when backoff timers win the race *)
(* against the cancellation.                                               *)
(***************************************************************************)
CancelStopsRetries == \A r \in Calls : lateSends[r] <= 1

(***************************************************************************)
(* Every RoundTrip returns, however the shared breaker moves under it.     *)
(***************************************************************************)
Terminates == \A r \in Calls : phase[r] # "done" ~> phase[r] = "done"

(***************************************************************************)
(* What RoundTrip promises about one request, whatever other requests do   *)
(* to the shared breaker: it is sent as often as its method and policy     *)
(* allow, each time with its whole body and not after cancellation, and no *)
(* response is left open.                                                  *)
(***************************************************************************)
RoundTripContract ==
  /\ TypeOK
  /\ SendsBounded
  /\ BodyReplayed
  /\ NoResponseLeak
  /\ CancelStopsRetries
=============================================================================
