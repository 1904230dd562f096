------------------------- MODULE ResilientTransport -------------------------
(***************************************************************************)
(* The sending of batches with retries, a shared Retry-After floor, a      *)
(* deadline per send, cancellation and a dead letter queue                 *)
(* (infrastructure/transport/ResilientTransport.ts) over a Loki transport, *)
(* whose requests pass through dispatch().                                 *)
(*                                                                         *)
(* Time passes in units and all times are kept as the units left until     *)
(* then.  The circuit breaker is any ICircuitBreaker: it may refuse a      *)
(* send; the dead letter queue may keep any part of a batch.  The wire     *)
(* transport takes as long as it likes, but one whose signal was aborted   *)
(* does settle.                                                            *)
(***************************************************************************)
EXTENDS Integers, FiniteSets

CONSTANTS
  Sends,       \* calls of send(), each made once
  MaxRetries,  \* config.maxRetries
  Budget,      \* config.sendTimeoutMillis
  Backoffs,    \* delays before a retry: retryDelay, doubled, with jitter
  Floors,      \* delays that a Retry-After field may ask for
  Never,       \* the floor of a delay too large to represent
  Lag,         \* how late the event loop may run a due timer
  Size,        \* entries in a batch
  HasDlq       \* is there a dead letter queue

ASSUME ResilientTransportAssumption ==
  /\ IsFiniteSet(Sends)
  /\ MaxRetries \in Nat
  /\ Budget \in Nat \ {0}
  /\ Backoffs \subseteq Nat
  /\ Never \in Nat /\ Never > Budget
  /\ Floors \subseteq 0 .. Never
  /\ Lag \in Nat
  /\ Size \in Nat \ {0}
  /\ HasDlq \in BOOLEAN

VARIABLES
  phase,      \* phase[s]: where send s is
  attempt,    \* attempt[s]: the attempt it makes or waits for
  left,       \* left[s]: units until its deadline
  wake,       \* wake[s]: units until the timer it sleeps on is due
  aborted,    \* aborted[s]: "no", or the reason given to its controller
  floor,      \* notBefore
  destroyed,
  totalSends,
  metrics,    \* the other counters
  acked,      \* history: sends whose request the collector acknowledged
  owed        \* history: delays the collector asked for, not yet over

sends == <<phase, attempt, left, wake, aborted>>
vars  == <<sends, floor, destroyed, totalSends, metrics, acked, owed>>

Sleeping == {"backoff", "gate"}                    \* in waitUntil, on a timer
WithWire == {"preparing", "requested", "refused"}  \* the wire transport is due
Turns    == {"yield", "woken", "answered"}         \* a promise continuation is
Ended    == {"sent", "failed"}
Pending  == Sleeping \union WithWire \union Turns

(* A floor that is so long over that no send remembers when. *)
LongOver == -Lag - 1

Counters == {"successfulSends", "failedSends", "failedSendEntries",
             "dlqEnqueuedEntries", "unretainedSendEntries", "deadlineExceeded",
             "backpressureDeclines", "retryAttempts", "retriedRequests"}

TypeOK ==
  /\ phase \in [Sends -> Pending \union Ended \union {"idle", "enqueueing"}]
  /\ attempt \in [Sends -> 0 .. MaxRetries]
  /\ left \in [Sends -> -Lag .. Budget]
  /\ wake \in [Sends -> -Lag .. Never]
  /\ aborted \in [Sends -> {"no", "deadline", "closed"}]
  /\ floor \in LongOver .. Never
  /\ destroyed \in BOOLEAN
  /\ totalSends \in Nat
  /\ metrics \in [Counters -> Nat]
  /\ acked \subseteq Sends
  /\ owed \subseteq 1 .. Never

(* A send has its whole budget left until it is made. *)
Init ==
  /\ phase = [s \in Sends |-> "idle"]
  /\ attempt = [s \in Sends |-> 0]
  /\ left = [s \in Sends |-> Budget]
  /\ wake = [s \in Sends |-> 0]
  /\ aborted = [s \in Sends |-> "no"]
  /\ floor = LongOver
  /\ destroyed = FALSE
  /\ totalSends = 0 /\ metrics = [c \in Counters |-> 0]
  /\ acked = {} /\ owed = {}

Goes(s, p) == phase' = [phase EXCEPT ![s] = p]
Later(a, b) == IF a > b THEN a ELSE b

(* The metrics with the counters in cs one higher. *)
Counting(cs) == [c \in Counters |-> IF c \in cs THEN metrics[c] + 1 ELSE metrics[c]]

(***************************************************************************)
(* The catch block of send(), up to its await: the reason of an abort      *)
(* stands before why the send failed; a destroyed transport keeps nothing. *)
(***************************************************************************)
Fails(s, why) ==
  LET failure == IF aborted[s] # "no" THEN aborted[s] ELSE why
      counted == Counting({"failedSends"}
                   \union (IF failure = "deadline" THEN {"deadlineExceeded"} ELSE {})
                   \union (IF why = "declined" THEN {"backpressureDeclines"} ELSE {}))
      kept    == HasDlq /\ ~ destroyed
  IN  /\ Goes(s, IF kept THEN "enqueueing" ELSE "failed")
      /\ metrics' = [counted EXCEPT
           !["failedSendEntries"] = @ + Size,
           !["unretainedSendEntries"] = IF kept THEN @ ELSE @ + Size]
      /\ wake' = [wake EXCEPT ![s] = 0]
      /\ UNCHANGED <<attempt, left, aborted>>

(***************************************************************************)
(* Waiting.                                                                *)
(***************************************************************************)

(* A mistake: a floor beyond the deadline is waited for like any other. *)
WaitForAnyFloor(s, d) ==
  IF aborted[s] # "no" THEN "aborted"
  ELSE IF left[s] <= 0 \/ d >= left[s] THEN "deadline"
  ELSE IF Later(d, floor) <= 0 THEN "pass" ELSE "sleep"

(* One round of waitUntil, for a retry of its own due in d units. *)
WaitUntil(s, d) ==
  IF aborted[s] # "no" THEN "aborted"
  ELSE IF floor >= left[s] THEN "declined"
  ELSE IF left[s] <= 0 \/ d >= left[s] THEN "deadline"
  ELSE IF Later(d, floor) <= 0 THEN "pass" ELSE "sleep"

(* The timer of one round. *)
Sleeps(s, p, d) ==
  /\ Goes(s, p)
  /\ wake' = [wake EXCEPT ![s] = Later(d, floor)]
  /\ UNCHANGED <<left, aborted, metrics>>

(* retryOperation, from the wait before attempt n on: once the wait is     *)
(* over the operation starts.                                              *)
Attempt(s, n, d) ==
  \/ /\ WaitUntil(s, d) = "pass"
     /\ Goes(s, "preparing")
     /\ attempt' = [attempt EXCEPT ![s] = n]
     /\ metrics' = Counting((IF n > 0 THEN {"retryAttempts"} ELSE {})
                     \union (IF n = 1 THEN {"retriedRequests"} ELSE {}))
     /\ wake' = [wake EXCEPT ![s] = 0]
     /\ UNCHANGED <<left, aborted>>
  \/ /\ WaitUntil(s, d) = "sleep"
     /\ Sleeps(s, "backoff", d)
     /\ attempt' = [attempt EXCEPT ![s] = n]
  \/ /\ WaitUntil(s, d) \notin {"pass", "sleep"}
     /\ Fails(s, WaitUntil(s, d))

(* dispatch, from its wait on: the request is for the next turn.  What it  *)
(* throws is not retried.                                                  *)
Gate(s) ==
  \/ /\ WaitUntil(s, 0) = "pass"
     /\ Goes(s, "yield")
     /\ wake' = [wake EXCEPT ![s] = 0]
     /\ UNCHANGED <<attempt, left, aborted, metrics>>
  \/ /\ WaitUntil(s, 0) = "sleep"
     /\ Sleeps(s, "gate", 0)
     /\ UNCHANGED attempt
  \/ /\ WaitUntil(s, 0) \notin {"pass", "sleep"}
     /\ Fails(s, WaitUntil(s, 0))

(***************************************************************************)
(* One send.                                                               *)
(***************************************************************************)

(* send(): the breaker refuses, or the first attempt begins. *)
Send(s) ==
  /\ phase[s] = "idle" /\ ~ destroyed
  /\ totalSends' = totalSends + 1
  /\ Fails(s, "error") \/ Attempt(s, 0, 0)
  /\ UNCHANGED <<floor, destroyed, acked, owed>>

BackoffEnds(s) ==
  /\ phase[s] = "backoff" /\ wake[s] <= 0
  /\ Attempt(s, attempt[s], 0)
  /\ UNCHANGED <<floor, destroyed, totalSends, acked, owed>>

(* The wire transport has a body to send, or its wait for the floor ends.  *)
Dispatch(s) ==
  /\ phase[s] \in {"preparing", "gate"} /\ wake[s] <= 0
  /\ Gate(s)
  /\ UNCHANGED <<floor, destroyed, totalSends, acked, owed>>

(* A mistake: the request is made as soon as the wait is over. *)
RequestUnchecked(s) ==
  /\ phase[s] = "yield"
  /\ Goes(s, "requested")
  /\ UNCHANGED <<attempt, left, wake, aborted, metrics, floor, destroyed,
                 totalSends, acked, owed>>

(* dispatch, after its wait: what changed in the turn that the await took  *)
(* is checked again, and then the request is made.                         *)
Request(s) ==
  /\ phase[s] = "yield"
  /\ \/ /\ aborted[s] = "no" /\ left[s] > 0 /\ floor <= 0
        /\ Goes(s, "requested")
        /\ UNCHANGED <<attempt, left, wake, aborted, metrics>>
     \/ /\ aborted[s] = "no" /\ left[s] > 0 /\ floor > 0
        /\ Gate(s)
     \/ /\ aborted[s] = "no" /\ left[s] <= 0
        /\ Fails(s, IF floor >= left[s] THEN "declined" ELSE "deadline")
     \/ /\ aborted[s] # "no"
        /\ Fails(s, "aborted")
  /\ UNCHANGED <<floor, destroyed, totalSends, acked, owed>>

(* The head of an answer that is no success; a 429 or 5xx may ask for a    *)
(* delay.  The error that follows repeats that, to no effect.              *)
Refuse(s, f) ==
  /\ phase[s] = "requested"
  /\ Goes(s, "refused")
  /\ floor' = Later(floor, f)
  /\ owed' = IF f > 0 THEN owed \union {f} ELSE owed
  /\ UNCHANGED <<attempt, left, wake, aborted, destroyed, totalSends, metrics, acked>>

(* A mistake: one retry too many. *)
OneMoreRetry(s) == attempt[s] <= MaxRetries

RetryLeft(s) == attempt[s] < MaxRetries

(* The catch block of retryOperation, for an error of the wire transport:  *)
(* it prepared, requested or read the answer in vain.                      *)
WireFails(s, retryable) ==
  /\ phase[s] \in WithWire
  /\ \/ /\ aborted[s] # "no"
        /\ Fails(s, "aborted")
     \/ /\ aborted[s] = "no" /\ floor >= left[s]
        /\ Fails(s, "declined")
     \/ /\ aborted[s] = "no" /\ floor < left[s]
        /\ IF retryable /\ RetryLeft(s)
           THEN \E d \in Backoffs : Attempt(s, attempt[s] + 1, d)
           ELSE Fails(s, "error")
  /\ UNCHANGED <<floor, destroyed, totalSends, acked, owed>>

(* The request is acknowledged, as far as the check in retryOperation.     *)
Respond(s) ==
  /\ phase[s] = "requested"
  /\ acked' = acked \union {s}
  /\ IF aborted[s] = "no"
     THEN Goes(s, "answered") /\ UNCHANGED <<attempt, left, wake, aborted, metrics>>
     ELSE Fails(s, "aborted")
  /\ UNCHANGED <<floor, destroyed, totalSends, owed>>

(* send(), after the breaker has recorded the success. *)
Succeed(s) ==
  /\ phase[s] = "answered"
  /\ IF aborted[s] = "no"
     THEN /\ Goes(s, "sent")
          /\ metrics' = Counting({"successfulSends"})
          /\ UNCHANGED <<attempt, left, wake, aborted>>
     ELSE Fails(s, "aborted")
  /\ UNCHANGED <<floor, destroyed, totalSends, acked, owed>>

(* The rejection of a wait whose signal was aborted arrives in send(). *)
Woken(s) ==
  /\ phase[s] = "woken"
  /\ Fails(s, "aborted")
  /\ UNCHANGED <<floor, destroyed, totalSends, acked, owed>>

(* A mistake: what the queue did not take is not counted. *)
EnqueuedInPart(s, n) ==
  /\ phase[s] = "enqueueing"
  /\ Goes(s, "failed")
  /\ metrics' = [metrics EXCEPT !["dlqEnqueuedEntries"] = @ + n]
  /\ UNCHANGED <<attempt, left, wake, aborted, floor, destroyed, totalSends, acked, owed>>

(* enqueueToDlq and the rest of the catch block: the queue took n entries, *)
(* none when it rejected.                                                  *)
Enqueued(s, n) ==
  /\ phase[s] = "enqueueing"
  /\ Goes(s, "failed")
  /\ metrics' = [metrics EXCEPT !["dlqEnqueuedEntries"] = @ + n,
                                !["unretainedSendEntries"] = @ + Size - n]
  /\ UNCHANGED <<attempt, left, wake, aborted, floor, destroyed, totalSends, acked, owed>>

(***************************************************************************)
(* Aborting, and time.                                                     *)
(***************************************************************************)

(* controller.abort(why) for the sends in ss: sleepers are woken, the wire *)
(* transport hears of it.                                                  *)
Abort(ss, why) ==
  /\ aborted' = [s \in Sends |->
                   IF s \in ss /\ aborted[s] = "no" THEN why ELSE aborted[s]]
  /\ phase' = [s \in Sends |->
                 IF s \in ss /\ phase[s] \in Sleeping THEN "woken" ELSE phase[s]]
  /\ wake' = [s \in Sends |->
                IF s \in ss /\ phase[s] \in Sleeping THEN 0 ELSE wake[s]]

(* A mistake: only a send that sleeps is aborted. *)
DeadlineOfSleepers(s) ==
  /\ phase[s] \in Sleeping /\ left[s] <= 0 /\ aborted[s] = "no"
  /\ Abort({s}, "deadline")
  /\ UNCHANGED <<attempt, left, floor, destroyed, totalSends, metrics, acked, owed>>

(* The timer of send().  What a promise continues comes before a timer; on *)
(* a send that enqueues the abort has no effect.                           *)
Deadline(s) ==
  /\ phase[s] \in Sleeping \union WithWire /\ left[s] <= 0 /\ aborted[s] = "no"
  /\ Abort({s}, "deadline")
  /\ UNCHANGED <<attempt, left, floor, destroyed, totalSends, metrics, acked, owed>>

Destroy ==
  /\ ~ destroyed
  /\ destroyed' = TRUE
  /\ Abort({s \in Sends : phase[s] \in Pending}, "closed")
  /\ UNCHANGED <<attempt, left, floor, totalSends, metrics, acked, owed>>

(* No due timer is more than Lag late. *)
Punctual ==
  \A s \in Sends :
    /\ phase[s] \in Sleeping => wake[s] > -Lag
    /\ phase[s] \in Pending /\ aborted[s] = "no" => left[s] > -Lag

(* One unit passes.  Deadlines and floors that are long over stay as they  *)
(* are; a floor too far away is never over.                                *)
Tick ==
  /\ Punctual
  /\ left' = [s \in Sends |->
                IF phase[s] \in Pending /\ left[s] > -Lag THEN left[s] - 1 ELSE left[s]]
  /\ wake' = [s \in Sends |-> IF phase[s] \in Sleeping THEN wake[s] - 1 ELSE wake[s]]
  /\ floor' = IF floor \in {Never, LongOver} THEN floor ELSE floor - 1
  /\ owed' = {d \in 1 .. Never : d + 1 \in owed \ {Never}} \union (owed \intersect {Never})
  /\ UNCHANGED <<phase, attempt, aborted, destroyed, totalSends, metrics, acked>>

Next ==
  \/ \E s \in Sends :
       \/ Send(s) \/ BackoffEnds(s) \/ Dispatch(s) \/ Request(s)
       \/ Respond(s) \/ Succeed(s) \/ Woken(s) \/ Deadline(s)
       \/ \E f \in Floors \union {LongOver} : Refuse(s, f)
       \/ \E retryable \in BOOLEAN : WireFails(s, retryable)
       \/ \E n \in 0 .. Size : Enqueued(s, n)
  \/ Destroy
  \/ Tick

(***************************************************************************)
(* Promises continue, timers fire, the dead letter queue answers, and the  *)
(* wire transport settles once its signal was aborted: it checks the       *)
(* signal before a request and passes it to every request.                 *)
(***************************************************************************)
Fairness ==
  /\ WF_vars(Tick)
  /\ \A s \in Sends :
       /\ WF_vars(BackoffEnds(s)) /\ WF_vars(phase[s] = "gate" /\ Dispatch(s))
       /\ WF_vars(Request(s)) /\ WF_vars(Succeed(s)) /\ WF_vars(Woken(s))
       /\ WF_vars(Deadline(s))
       /\ WF_vars(aborted[s] # "no" /\ WireFails(s, FALSE))
       /\ WF_vars(\E n \in 0 .. Size : Enqueued(s, n))

Spec == Init /\ [][Next]_vars /\ Fairness
-----------------------------------------------------------------------------
(***************************************************************************)
(* Properties.                                                             *)
(***************************************************************************)

(* No request is made while any delay that any answer asked for is not     *)
(* over, whatever changed between the end of a wait and the request; none  *)
(* beyond the send's deadline and none once the transport was destroyed.   *)
FloorRespected ==
  [][\A s \in Sends :
       phase[s] # "requested" /\ phase'[s] = "requested"
         => owed = {} /\ left[s] > 0 /\ ~ destroyed]_vars

(* Nobody sleeps past the send's deadline, however far the floor is, and   *)
(* nobody at all once the transport was destroyed.                         *)
NoHopelessSleep ==
  \A s \in Sends : phase[s] \in Sleeping => wake[s] < left[s] /\ ~ destroyed

At(ps) == Cardinality({s \in Sends : phase[s] \in ps})

(* Every send is counted once, as what it came to, and each entry of a     *)
(* failed batch as retained or not; a failure has one cause at most; a     *)
(* success was acknowledged, and an acknowledged batch is not taken for a  *)
(* failed one unless the send was aborted.                                 *)
BatchesAccounted ==
  /\ totalSends = At(Pending) + metrics["successfulSends"] + metrics["failedSends"]
  /\ metrics["successfulSends"] = At({"sent"})
  /\ metrics["failedSendEntries"] = Size * metrics["failedSends"]
  /\ metrics["failedSendEntries"] =
       metrics["dlqEnqueuedEntries"] + metrics["unretainedSendEntries"]
         + Size * At({"enqueueing"})
  /\ metrics["deadlineExceeded"] + metrics["backpressureDeclines"]
       <= metrics["failedSends"]
  /\ \A s \in Sends :
       /\ phase[s] = "sent" => s \in acked
       /\ s \in acked /\ phase[s] \in {"enqueueing", "failed"} => aborted[s] # "no"

(* Every send comes to an end: no floor, however far, and no wire          *)
(* transport, however slow, keeps it.                                      *)
EverySendEnds ==
  \A s \in Sends : phase[s] # "idle" ~> phase[s] \in Ended
=============================================================================
