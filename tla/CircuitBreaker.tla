--------------------------- MODULE CircuitBreaker ---------------------------
(***************************************************************************)
(* The circuit breaker around sends                                        *)
(* (infrastructure/circuit-breaker/CircuitBreaker.ts), enabled, with any   *)
(* number of operations running through execute() at once.                 *)
(*                                                                         *)
(* An operation may outlive the state it was admitted in: a stale outcome  *)
(* counts like a fresh one.  An outcome, what is recorded of it, and the   *)
(* finally block are one turn of the event loop, hence one step.           *)
(*                                                                         *)
(* Time passes in units; nextAttempt is kept as the units left until then. *)
(* It is read in the state "open" only and taken as 0 elsewhere.           *)
(***************************************************************************)
EXTENDS Naturals, FiniteSets

CONSTANTS
  Ops,               \* calls of execute() that may overlap
  FailureThreshold,  \* config.failureThreshold
  HalfOpenRequests,  \* config.halfOpenRequests
  ResetTimeout       \* config.resetTimeout

ASSUME CircuitBreakerAssumption ==
  /\ IsFiniteSet(Ops)
  /\ FailureThreshold \in Nat \ {0}
  /\ HalfOpenRequests \in Nat \ {0}
  /\ ResetTimeout \in Nat \ {0}

VARIABLES
  state,
  failures,          \* counted up to FailureThreshold only
  successCount,
  halfOpenInFlight,
  coolDown,          \* units until nextAttempt
  running,           \* running[o]: is o in execute(), and countedAsProbe
  current,           \* history: probes admitted since it was last half-opened
  quiet              \* history: units since a failure was recorded

breakerCounters == <<failures, successCount, halfOpenInFlight>>
breakerVars == <<state, breakerCounters, coolDown, running, current, quiet>>

TypeOK ==
  /\ state \in {"closed", "open", "half-open"}
  /\ failures \in 0 .. FailureThreshold
  /\ successCount \in 0 .. HalfOpenRequests
  /\ halfOpenInFlight \in 0 .. HalfOpenRequests
  /\ coolDown \in 0 .. ResetTimeout
  /\ running \in [Ops -> {"idle", "plain", "probe"}]
  /\ current \subseteq Ops
  /\ quiet \in 0 .. ResetTimeout

BreakerInit ==
  /\ state = "closed"
  /\ failures = 0 /\ successCount = 0 /\ halfOpenInFlight = 0
  /\ coolDown = 0
  /\ running = [o \in Ops |-> "idle"]
  /\ current = {} /\ quiet = ResetTimeout

(***************************************************************************)
(* execute(), up to the call of the operation.                             *)
(***************************************************************************)

Starts(o, how) ==
  /\ running[o] = "idle"
  /\ running' = [running EXCEPT ![o] = how]
  /\ UNCHANGED quiet

Begin(o) ==
  /\ state = "closed"
  /\ Starts(o, "plain")
  /\ UNCHANGED <<state, breakerCounters, coolDown, current>>

(* isOpen() half-opens the breaker on the first call after nextAttempt.    *)
HalfOpen(o) ==
  /\ state = "open" /\ coolDown = 0
  /\ Starts(o, "probe")
  /\ state' = "half-open"
  /\ successCount' = 0 /\ halfOpenInFlight' = 1
  /\ current' = {o}
  /\ UNCHANGED <<failures, coolDown>>

(* A mistake: one probe too many. *)
ProbeBeyondLimit(o) ==
  /\ state = "half-open" /\ halfOpenInFlight <= HalfOpenRequests
  /\ Starts(o, "probe")
  /\ halfOpenInFlight' = halfOpenInFlight + 1
  /\ current' = current \union {o}
  /\ UNCHANGED <<state, failures, successCount, coolDown>>

Probe(o) ==
  /\ state = "half-open" /\ halfOpenInFlight < HalfOpenRequests
  /\ Starts(o, "probe")
  /\ halfOpenInFlight' = halfOpenInFlight + 1
  /\ current' = current \union {o}
  /\ UNCHANGED <<state, failures, successCount, coolDown>>

(***************************************************************************)
(* execute(), from the outcome on.                                         *)
(***************************************************************************)

(* The finally block, for a counter that recordX has left at n. *)
Released(o, n) == IF running[o] = "probe" /\ n > 0 THEN n - 1 ELSE n

Ends(o) ==
  /\ running[o] # "idle"
  /\ running' = [running EXCEPT ![o] = "idle"]

(* A mistake: closing leaves the success count as it was. *)
RecordSuccessKeepingCount(o) ==
  /\ \/ /\ state = "half-open" /\ successCount + 1 >= HalfOpenRequests
        /\ state' = "closed"
        /\ failures' = 0 /\ successCount' = successCount + 1 /\ halfOpenInFlight' = 0
        /\ current' = {}
     \/ /\ state = "half-open" /\ successCount + 1 < HalfOpenRequests
        /\ successCount' = successCount + 1
        /\ halfOpenInFlight' = Released(o, halfOpenInFlight)
        /\ current' = current \ {o}
        /\ UNCHANGED <<state, failures>>
     \/ /\ state # "half-open"
        /\ failures' = IF state = "closed" THEN 0 ELSE failures
        /\ halfOpenInFlight' = Released(o, halfOpenInFlight)
        /\ UNCHANGED <<state, successCount, current>>
  /\ UNCHANGED <<coolDown, quiet>>

(* recordSuccess, then the finally block. *)
RecordSuccess(o) ==
  /\ \/ /\ state = "half-open" /\ successCount + 1 >= HalfOpenRequests
        /\ state' = "closed"
        /\ failures' = 0 /\ successCount' = 0 /\ halfOpenInFlight' = 0
        /\ current' = {}
     \/ /\ state = "half-open" /\ successCount + 1 < HalfOpenRequests
        /\ successCount' = successCount + 1
        /\ halfOpenInFlight' = Released(o, halfOpenInFlight)
        /\ current' = current \ {o}
        /\ UNCHANGED <<state, failures>>
     \/ /\ state # "half-open"
        /\ failures' = IF state = "closed" THEN 0 ELSE failures
        /\ halfOpenInFlight' = Released(o, halfOpenInFlight)
        /\ UNCHANGED <<state, successCount, current>>
  /\ UNCHANGED <<coolDown, quiet>>

OneMoreFailure == IF failures < FailureThreshold THEN failures + 1 ELSE failures

(* A mistake: an open breaker takes no notice of late failures. *)
RecordFailureUnlessOpen(o) ==
  /\ failures' = OneMoreFailure
  /\ quiet' = 0
  /\ IF state # "open" /\ (failures' = FailureThreshold \/ state = "half-open")
     THEN /\ state' = "open"
          /\ successCount' = 0 /\ halfOpenInFlight' = 0
          /\ coolDown' = ResetTimeout
          /\ current' = {}
     ELSE /\ halfOpenInFlight' = Released(o, halfOpenInFlight)
          /\ UNCHANGED <<state, successCount, coolDown, current>>

(* A mistake: the slots of probes still running stay taken. *)
RecordFailureKeepingSlots(o) ==
  /\ failures' = OneMoreFailure
  /\ quiet' = 0
  /\ halfOpenInFlight' = Released(o, halfOpenInFlight)
  /\ IF failures' = FailureThreshold \/ state = "half-open"
     THEN /\ state' = "open"
          /\ successCount' = 0
          /\ coolDown' = ResetTimeout
          /\ current' = {}
     ELSE UNCHANGED <<state, successCount, coolDown, current>>

(* recordFailure, then the finally block: a failure that comes late extends *)
(* the open state.                                                         *)
RecordFailure(o) ==
  /\ failures' = OneMoreFailure
  /\ quiet' = 0
  /\ IF failures' = FailureThreshold \/ state = "half-open"
     THEN /\ state' = "open"
          /\ successCount' = 0 /\ halfOpenInFlight' = 0
          /\ coolDown' = ResetTimeout
          /\ current' = {}
     ELSE /\ halfOpenInFlight' = Released(o, halfOpenInFlight)
          /\ UNCHANGED <<state, successCount, coolDown, current>>

Succeed(o) == Ends(o) /\ RecordSuccess(o)
Fail(o)    == Ends(o) /\ RecordFailure(o)

(* A mistake: the slot is given back by recordX only. *)
DeclineKeepingSlot(o) ==
  /\ Ends(o)
  /\ current' = current \ {o}
  /\ UNCHANGED <<state, breakerCounters, coolDown, quiet>>

(* RetryAfterDeclined: nothing is recorded, the finally block runs. *)
Decline(o) ==
  /\ Ends(o)
  /\ halfOpenInFlight' = Released(o, halfOpenInFlight)
  /\ current' = current \ {o}
  /\ UNCHANGED <<state, failures, successCount, coolDown, quiet>>

(***************************************************************************)
(* Everything else.                                                        *)
(***************************************************************************)

(* reset(): operations that are running stay running. *)
Reset ==
  /\ state' = "closed"
  /\ failures' = 0 /\ successCount' = 0 /\ halfOpenInFlight' = 0
  /\ coolDown' = 0
  /\ current' = {}
  /\ UNCHANGED <<running, quiet>>

Tick ==
  /\ coolDown' = IF coolDown > 0 THEN coolDown - 1 ELSE 0
  /\ quiet' = IF quiet < ResetTimeout THEN quiet + 1 ELSE quiet
  /\ UNCHANGED <<state, breakerCounters, running, current>>

Next ==
  \/ \E o \in Ops : Begin(o) \/ HalfOpen(o) \/ Probe(o)
  \/ \E o \in Ops : Succeed(o) \/ Fail(o) \/ Decline(o)
  \/ Reset
  \/ Tick

(* Time passes, and every operation ends (ResilientTransport aborts a send *)
(* at its deadline).  Nobody owes a call of execute() or reset().          *)
Fairness ==
  /\ WF_breakerVars(Tick)
  /\ \A o \in Ops : WF_breakerVars(Succeed(o) \/ Fail(o) \/ Decline(o))

Spec == BreakerInit /\ [][Next]_breakerVars /\ Fairness
-----------------------------------------------------------------------------
(***************************************************************************)
(* Properties.                                                             *)
(***************************************************************************)

(* Whatever outcomes arrive in whatever state, the counters are those of   *)
(* the state: an open breaker has reached the threshold and holds no probe *)
(* slot, a closed one starts from nothing after every recovery.            *)
CountersFitState ==
  /\ state = "closed" => failures < FailureThreshold
  /\ state # "closed" => failures = FailureThreshold
  /\ state # "half-open" => successCount = 0 /\ halfOpenInFlight = 0
  /\ state = "half-open" => successCount < HalfOpenRequests
  /\ state # "open" => coolDown = 0

(* A taken slot belongs to a running probe of the present half-open state: *)
(* no interleaving of trips, recoveries and late probes leaks one.         *)
NoLeakedSlot == halfOpenInFlight <= Cardinality(current)

(* The breaker is not half-opened before ResetTimeout has passed since the *)
(* latest failure, those included that were recorded while it was open.    *)
HalfOpensAfterQuiet ==
  [][state = "open" /\ state' = "half-open" => quiet = ResetTimeout]_breakerVars

(* A call would be admitted now. *)
Admits ==
  \/ state = "closed"
  \/ state = "open" /\ coolDown = 0
  \/ state = "half-open" /\ halfOpenInFlight < HalfOpenRequests

(* The breaker never shuts for good: neither by late failures that extend  *)
(* the open state nor by probes that end in no verdict.                    *)
AlwaysAdmitsAgain == []<>Admits

(* README.md:452: "bounded half-open probes".                              *)
ProbesBounded == Cardinality(current) <= HalfOpenRequests
=============================================================================
