---------------------------- MODULE CircuitBreaker ----------------------------
(***************************************************************************)
(* resilience.CircuitBreaker shared by concurrent callers of Execute.      *)
(*                                                                         *)
(* beforeCall and afterCall each hold the breaker's mutex, so each is one  *)
(* step; the wrapped function runs between them without the lock.  The     *)
(* function may return nil, an error, the ErrOpen of a nested breaker, or  *)
(* (when FnMayPanic) panic, in which case Execute never reaches afterCall. *)
(*                                                                         *)
(* The code stores openedAt and compares now - openedAt with the cooldown; *)
(* the model keeps that difference in sinceOpen, saturated at Cooldown.    *)
(* failures is saturated at FailureThreshold: the code only asks whether   *)
(* it has reached the threshold.  Neither saturation is observable.        *)
(***************************************************************************)
EXTENDS Naturals, FiniteSets

CONSTANTS
  Calls,             \* goroutines that call Execute, each again and again
  FailureThreshold,  \* consecutive failures that trip the breaker
  Cooldown,          \* clock ticks the breaker stays open
  FnMayPanic         \* whether the wrapped function may panic

ASSUME BreakerAssumption ==
  /\ FailureThreshold \in Nat \ {0}
  /\ Cooldown \in Nat \ {0}
  /\ FnMayPanic \in BOOLEAN

VARIABLES
  state,             \* b.state
  failures,          \* b.failures
  sinceOpen,         \* b.now() - b.openedAt
  probeInFlight,     \* b.probeInFlight
  pc,                \* where each caller is in Execute
  admittedIn,        \* the breaker state that admitted each running call, else "closed"
  streak,            \* history: failures recorded since the last success
  upstream           \* environment: whether calls may still fail

breakerVars == <<state, failures, sinceOpen, probeInFlight>>
vars == <<breakerVars, pc, admittedIn, streak, upstream>>

State == {"closed", "open", "halfOpen"}
Outcome == {"nil", "err", "ErrOpen"}

TypeOK ==
  /\ state \in State
  /\ failures \in 0..FailureThreshold
  /\ sinceOpen \in 0..Cooldown
  /\ probeInFlight \in BOOLEAN
  /\ pc \in [Calls -> {"idle", "running"}]
  /\ admittedIn \in [Calls -> State]
  /\ streak \in 0..FailureThreshold
  /\ upstream \in {"flaky", "healthy"}

NewCircuitBreaker ==
  /\ state = "closed"
  /\ failures = 0
  /\ sinceOpen = 0
  /\ probeInFlight = FALSE

Init ==
  /\ NewCircuitBreaker
  /\ pc = [c \in Calls |-> "idle"]
  /\ admittedIn = [c \in Calls |-> "closed"]
  /\ streak = 0
  /\ upstream = "flaky"
-----------------------------------------------------------------------------
Saturate(n) == IF n < FailureThreshold THEN n ELSE FailureThreshold

CooldownElapsed == state = "open" /\ sinceOpen >= Cooldown

(* The state and the probe flag as refresh leaves them. *)
RefreshedState == IF CooldownElapsed THEN "halfOpen" ELSE state
RefreshedProbe == ~CooldownElapsed /\ probeInFlight

refresh ==
  /\ state' = RefreshedState
  /\ probeInFlight' = RefreshedProbe
  /\ UNCHANGED <<failures, sinceOpen>>

trip ==
  /\ state' = "open"
  /\ sinceOpen' = 0

(* Faulty variant: a probe success closes but does not clear the count. *)
reset_keepsFailures == state' = "closed" /\ failures' = failures

reset == state' = "closed" /\ failures' = 0

(* State(): a reader that only refreshes. *)
Observe ==
  /\ refresh
  /\ UNCHANGED <<pc, admittedIn, streak, upstream>>

(* Faulty variants: no probe is ever admitted; any number of them is. *)
Admits_noProbe == RefreshedState = "closed"
Admits_everyProbe == RefreshedState # "open"

(* beforeCall lets a call through: closed, or half-open with no probe. *)
Admits ==
  \/ RefreshedState = "closed"
  \/ RefreshedState = "halfOpen" /\ ~RefreshedProbe

Admit(c) ==
  /\ pc[c] = "idle"
  /\ Admits
  /\ state' = RefreshedState
  /\ probeInFlight' = (RefreshedState = "halfOpen" \/ RefreshedProbe)
  /\ pc' = [pc EXCEPT ![c] = "running"]
  /\ admittedIn' = [admittedIn EXCEPT ![c] = RefreshedState]
  /\ UNCHANGED <<failures, sinceOpen, streak, upstream>>

(* beforeCall returns ErrOpen: open, or half-open with a probe in flight. *)
Reject(c) ==
  /\ pc[c] = "idle"
  /\ ~Admits
  /\ refresh
  /\ UNCHANGED <<pc, admittedIn, streak, upstream>>

IsFailure(outcome) == outcome = "err"

(* Faulty variant: one failure too early. *)
ThresholdReached_early(n) == n + 1 >= FailureThreshold

ThresholdReached(n) == n >= FailureThreshold

(* afterCall: any call that ends while half-open decides the probe; in the *)
(* two other states the "closed" branch runs, whichever of them it is.     *)
afterCall(outcome) ==
  \/ /\ state = "halfOpen"
     /\ probeInFlight' = FALSE
     /\ \/ IsFailure(outcome) /\ trip /\ UNCHANGED failures
        \/ ~IsFailure(outcome) /\ reset /\ UNCHANGED sinceOpen
  \/ /\ state # "halfOpen"
     /\ IsFailure(outcome)
     /\ failures' = Saturate(failures + 1)
     /\ IF ThresholdReached(failures') THEN trip ELSE UNCHANGED <<state, sinceOpen>>
     /\ UNCHANGED probeInFlight
  \/ /\ state # "halfOpen"
     /\ ~IsFailure(outcome)
     /\ failures' = 0
     /\ UNCHANGED <<state, sinceOpen, probeInFlight>>

leave(c) ==
  /\ pc' = [pc EXCEPT ![c] = "idle"]
  /\ admittedIn' = [admittedIn EXCEPT ![c] = "closed"]

(* The wrapped function returns and Execute records its outcome. *)
FinishWith(c, outcome) ==
  /\ pc[c] = "running"
  /\ afterCall(outcome)
  /\ streak' = IF outcome = "err" THEN Saturate(streak + 1) ELSE 0
  /\ leave(c)
  /\ UNCHANGED upstream

Finish(c) ==
  \E outcome \in IF upstream = "healthy" THEN {"nil"} ELSE Outcome : FinishWith(c, outcome)

(* A panic unwinds Execute past afterCall, which is not deferred. *)
Panic(c) ==
  /\ FnMayPanic
  /\ upstream = "flaky"
  /\ pc[c] = "running"
  /\ leave(c)
  /\ UNCHANGED <<breakerVars, streak, upstream>>

Tick ==
  /\ sinceOpen < Cooldown
  /\ sinceOpen' = sinceOpen + 1
  /\ UNCHANGED <<state, failures, probeInFlight, pc, admittedIn, streak, upstream>>

Heal ==
  /\ upstream = "flaky"
  /\ upstream' = "healthy"
  /\ UNCHANGED <<breakerVars, pc, admittedIn, streak>>

Next ==
  \/ Observe \/ Tick \/ Heal
  \/ \E c \in Calls : Admit(c) \/ Reject(c) \/ Finish(c) \/ Panic(c)

Spec == Init /\ [][Next]_vars

(***************************************************************************)
(* Time passes, a running call ends (every outbound client has a timeout), *)
(* and the service keeps receiving requests, so some call is attempted.    *)
(***************************************************************************)
Fairness ==
  /\ WF_vars(Tick)
  /\ \A c \in Calls : WF_vars(Finish(c) \/ Panic(c))
  /\ WF_vars(\E c \in Calls : Admit(c))

FairSpec == Spec /\ Fairness
-----------------------------------------------------------------------------
Running == {c \in Calls : pc[c] = "running"}

(***************************************************************************)
(* The counter and the probe flag agree with the state: a closed breaker   *)
(* is always below its threshold (trip does not clear failures, so this    *)
(* rests on reset clearing it), the probe flag is raised only while        *)
(* half-open, and the counter never exceeds the failures really seen since *)
(* the last success.                                                       *)
(***************************************************************************)
CountersAgree ==
  /\ state = "closed" => failures < FailureThreshold
  /\ probeInFlight => state = "halfOpen"
  /\ failures <= streak

(***************************************************************************)
(* The breaker opens from closed only after FailureThreshold failures were *)
(* recorded with no success between them, however calls interleave.        *)
(***************************************************************************)
TripNeedsStreak ==
  [][state = "closed" /\ state' = "open" => streak' = FailureThreshold]_vars

(* The probe panicked: its slot is taken and no running call can free it. *)
ProbeLost ==
  state = "halfOpen" /\ probeInFlight /\ Running = {}

(***************************************************************************)
(* Once calls stop failing the breaker closes and never opens again,       *)
(* whatever was in flight when the dependency recovered.  The one way not  *)
(* to heal is to have lost the probe: afterCall is not deferred, so after  *)
(* a panic of the probe nothing ever takes the breaker out of half-open.   *)
(***************************************************************************)
HealsForGood == (upstream = "healthy") ~> ([](state = "closed") \/ []ProbeLost)

(***************************************************************************)
(* Line 141 of circuitbreaker.go, "only one probe at a time": of the calls *)
(* still running, at most one was admitted by a half-open breaker.         *)
(***************************************************************************)
OneProbeAtATime ==
  Cardinality({c \in Running : admittedIn[c] = "halfOpen"}) <= 1
=============================================================================
