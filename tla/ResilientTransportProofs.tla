---------------------- MODULE ResilientTransportProofs ----------------------
(***************************************************************************)
(* Proved of ResilientTransport for any number of sends, any budget, any   *)
(* delays and any lag: its types, that nobody sleeps in vain, that no      *)
(* request is made below a floor that any answer asked for, and that every *)
(* batch is accounted for.  At the end, of RetryAfter: that what the       *)
(* fields of an answer ask for is what becomes of them.                    *)
(***************************************************************************)
EXTENDS ResilientTransport, RetryAfter, SumTheorems

USE ResilientTransportAssumption DEF ResilientTransportAssumption

AllPhases == Pending \union Ended \union {"idle", "enqueueing"}
Reasons   == {"no", "deadline", "closed"}

(* destroy() has aborted every send that was pending, and none came since. *)
ClosedAborts ==
  destroyed => \A s \in Sends : phase[s] \in Pending => aborted[s] # "no"

(* The floor is no lower than any delay that is not over.                  *)
OwedBelowFloor == \A d \in owed : d <= floor

(* The part of the invariant that is about the sends. *)
SendInv ==
  /\ phase \in [Sends -> AllPhases]
  /\ attempt \in [Sends -> 0 .. MaxRetries]
  /\ left \in [Sends -> -Lag .. Budget]
  /\ wake \in [Sends -> -Lag .. Never]
  /\ aborted \in [Sends -> Reasons]
  /\ metrics \in [Counters -> Nat]
  /\ destroyed \in BOOLEAN
  /\ ClosedAborts
  /\ NoHopelessSleep

SharedInv ==
  /\ floor \in LongOver .. Never
  /\ totalSends \in Nat
  /\ acked \subseteq Sends
  /\ owed \subseteq 1 .. Never
  /\ OwedBelowFloor

IInv == SendInv /\ SharedInv

-----------------------------------------------------------------------------
(* What fails, attempts or waits goes to phase p, at attempt n, with w     *)
(* units to sleep; whatever is pending after it was not aborted before.    *)
Moves(s, p, n, w) ==
  /\ p \in AllPhases \ {"requested"}
  /\ n \in 0 .. MaxRetries
  /\ w \in -Lag .. Never
  /\ p \in Pending => aborted[s] = "no"
  /\ p \in Sleeping => w < left[s]
  /\ phase' = [phase EXCEPT ![s] = p]
  /\ attempt' = [attempt EXCEPT ![s] = n]
  /\ wake' = [wake EXCEPT ![s] = w]
  /\ metrics' \in [Counters -> Nat]
  /\ UNCHANGED <<left, aborted>>

Moved(s) ==
  \E p \in AllPhases, n \in 0 .. MaxRetries, w \in -Lag .. Never : Moves(s, p, n, w)

LEMMA CountingKeeps ==
  ASSUME SendInv, NEW cs
  PROVE  Counting(cs) \in [Counters -> Nat]
<1>1. \A c \in Counters : metrics[c] \in Nat
  BY DEF SendInv
<1> QED
  BY <1>1 DEF Counting

LEMMA FailsMoves ==
  ASSUME SendInv, NEW s \in Sends, NEW why, Fails(s, why)
  PROVE  Moved(s)
<1> DEFINE failure == IF aborted[s] # "no" THEN aborted[s] ELSE why
           cs == {"failedSends"}
                   \union (IF failure = "deadline" THEN {"deadlineExceeded"} ELSE {})
                   \union (IF why = "declined" THEN {"backpressureDeclines"} ELSE {})
           counted == Counting(cs)
           kept == HasDlq /\ ~ destroyed
           p    == IF kept THEN "enqueueing" ELSE "failed"
           more == IF kept THEN counted["unretainedSendEntries"]
                   ELSE counted["unretainedSendEntries"] + Size
<1>1. counted \in [Counters -> Nat]
  BY CountingKeeps
<1>2. /\ metrics' = [counted EXCEPT !["failedSendEntries"] = @ + Size,
                                    !["unretainedSendEntries"] = IF kept THEN @ ELSE @ + Size]
      /\ phase' = [phase EXCEPT ![s] = p]
      /\ wake' = [wake EXCEPT ![s] = 0]
      /\ UNCHANGED <<attempt, left, aborted>>
  BY DEF Fails, Goes
<1> HIDE DEF counted, kept
<1>3. metrics' \in [Counters -> Nat]
  BY <1>1, <1>2 DEF Counters
<1>4. attempt' = [attempt EXCEPT ![s] = attempt[s]] /\ attempt[s] \in 0 .. MaxRetries
  BY <1>2 DEF SendInv
<1>5. p \in AllPhases \ {"requested"} /\ p \notin Pending /\ p \notin Sleeping
  BY DEF AllPhases, Ended, Pending, Sleeping, WithWire, Turns
<1>6. 0 \in -Lag .. Never
  OBVIOUS
<1> HIDE DEF p
<1>7. Moves(s, p, attempt[s], 0)
  BY <1>2, <1>3, <1>4, <1>5, <1>6 DEF Moves
<1> QED
  BY <1>4, <1>5, <1>6, <1>7 DEF Moved

(* A round of waitUntil that sleeps ends before the deadline.              *)
LEMMA SleepIsShort ==
  ASSUME SendInv, floor \in LongOver .. Never, NEW s \in Sends, NEW d \in Nat,
         WaitUntil(s, d) = "sleep"
  PROVE  /\ Later(d, floor) \in -Lag .. Never
         /\ Later(d, floor) < left[s]
         /\ aborted[s] = "no"
<1>1. aborted[s] = "no"
  BY DEF WaitUntil
<1>2. /\ ~ (floor >= left[s]) /\ ~ (left[s] <= 0 \/ d >= left[s])
      /\ ~ (Later(d, floor) <= 0)
  BY <1>1 DEF WaitUntil
<1>3. left[s] \in -Lag .. Budget
  BY DEF SendInv
<1> QED
  BY <1>1, <1>2, <1>3 DEF Later, LongOver

LEMMA AttemptMoves ==
  ASSUME SendInv, floor \in LongOver .. Never, NEW s \in Sends,
         NEW n \in 0 .. MaxRetries, NEW d \in Nat, Attempt(s, n, d)
  PROVE  Moved(s)
<1> USE DEF AllPhases, Ended, Pending, Sleeping, WithWire, Turns
<1>1. CASE WaitUntil(s, d) = "pass"
  <2>1. /\ phase' = [phase EXCEPT ![s] = "preparing"]
        /\ attempt' = [attempt EXCEPT ![s] = n]
        /\ wake' = [wake EXCEPT ![s] = 0]
        /\ UNCHANGED <<left, aborted>>
        /\ \E cs : metrics' = Counting(cs)
    BY <1>1 DEF Attempt, Goes
  <2>2. metrics' \in [Counters -> Nat]
    BY <2>1, CountingKeeps
  <2>3. aborted[s] = "no"
    BY <1>1 DEF WaitUntil
  <2>4. Moves(s, "preparing", n, 0)
    BY <2>1, <2>2, <2>3 DEF Moves
  <2> QED
    BY <2>4 DEF Moved
<1>2. CASE WaitUntil(s, d) = "sleep"
  <2>1. /\ phase' = [phase EXCEPT ![s] = "backoff"]
        /\ attempt' = [attempt EXCEPT ![s] = n]
        /\ wake' = [wake EXCEPT ![s] = Later(d, floor)]
        /\ UNCHANGED <<left, aborted, metrics>>
    BY <1>2 DEF Attempt, Sleeps, Goes
  <2>2. Moves(s, "backoff", n, Later(d, floor))
    BY <1>2, <2>1, SleepIsShort DEF Moves, SendInv
  <2> QED
    BY <1>2, <2>2, SleepIsShort DEF Moved
<1>3. CASE WaitUntil(s, d) \notin {"pass", "sleep"}
  BY <1>3, FailsMoves DEF Attempt
<1> QED
  BY <1>1, <1>2, <1>3

LEMMA GateMoves ==
  ASSUME SendInv, floor \in LongOver .. Never, NEW s \in Sends, Gate(s)
  PROVE  Moved(s)
<1> USE DEF AllPhases, Ended, Pending, Sleeping, WithWire, Turns
<1>0. attempt = [attempt EXCEPT ![s] = attempt[s]] /\ attempt[s] \in 0 .. MaxRetries
  BY DEF SendInv
<1>1. CASE WaitUntil(s, 0) = "pass"
  <2>1. /\ phase' = [phase EXCEPT ![s] = "yield"]
        /\ wake' = [wake EXCEPT ![s] = 0]
        /\ UNCHANGED <<attempt, left, aborted, metrics>>
    BY <1>1 DEF Gate, Goes
  <2>2. aborted[s] = "no"
    BY <1>1 DEF WaitUntil
  <2>3. Moves(s, "yield", attempt[s], 0)
    BY <1>0, <2>1, <2>2 DEF Moves, SendInv
  <2> QED
    BY <1>0, <2>3 DEF Moved
<1>2. CASE WaitUntil(s, 0) = "sleep"
  <2>1. /\ phase' = [phase EXCEPT ![s] = "gate"]
        /\ wake' = [wake EXCEPT ![s] = Later(0, floor)]
        /\ UNCHANGED <<attempt, left, aborted, metrics>>
    BY <1>2 DEF Gate, Sleeps, Goes
  <2>2. Moves(s, "gate", attempt[s], Later(0, floor))
    BY <1>0, <1>2, <2>1, SleepIsShort DEF Moves, SendInv
  <2> QED
    BY <1>0, <1>2, <2>2, SleepIsShort DEF Moved
<1>3. CASE WaitUntil(s, 0) \notin {"pass", "sleep"}
  BY <1>3, FailsMoves DEF Gate
<1> QED
  BY <1>1, <1>2, <1>3

(* Moving keeps the invariant, and makes no request.                       *)
LEMMA MovedKeeps ==
  ASSUME SendInv, NEW s \in Sends, Moved(s),
         aborted[s] = "no" => ~ destroyed,
         UNCHANGED destroyed
  PROVE  /\ SendInv'
         /\ \A t \in Sends : phase'[t] = "requested" => phase[t] = "requested"
<1>1. PICK p \in AllPhases, n \in 0 .. MaxRetries, w \in -Lag .. Never :
        Moves(s, p, n, w)
  BY DEF Moved
<1>2. /\ phase' \in [Sends -> AllPhases] /\ attempt' \in [Sends -> 0 .. MaxRetries]
      /\ left' \in [Sends -> -Lag .. Budget] /\ wake' \in [Sends -> -Lag .. Never]
      /\ aborted' \in [Sends -> Reasons] /\ metrics' \in [Counters -> Nat]
      /\ destroyed' \in BOOLEAN
  BY <1>1 DEF Moves, SendInv
<1>3. \A t \in Sends : \/ t = s /\ phase'[t] = p /\ wake'[t] = w
                       \/ t # s /\ phase'[t] = phase[t] /\ wake'[t] = wake[t]
  BY <1>1 DEF Moves, SendInv
<1>4. ClosedAborts'
  BY <1>1, <1>3 DEF Moves, SendInv, ClosedAborts
<1>5. p \in Sleeping => p \in Pending
  BY DEF Pending
<1>6. NoHopelessSleep'
  BY <1>1, <1>3, <1>5 DEF Moves, SendInv, NoHopelessSleep
<1>7. \A t \in Sends : phase'[t] = "requested" => phase[t] = "requested"
  BY <1>1, <1>3 DEF Moves
<1> QED
  BY <1>2, <1>4, <1>6, <1>7 DEF SendInv

-----------------------------------------------------------------------------
(* What a send goes on to is no request, but by the action of that name.   *)
Requests(s) == phase[s] = "yield" /\ aborted[s] = "no" /\ left[s] > 0 /\ floor <= 0

LEMMA SendKeeps ==
  ASSUME IInv, NEW s \in Sends,
         \/ Send(s)
         \/ BackoffEnds(s)
         \/ Dispatch(s)
         \/ Woken(s)
         \/ \E retryable \in BOOLEAN : WireFails(s, retryable)
  PROVE  /\ SendInv'
         /\ \A t \in Sends : phase'[t] = "requested" => phase[t] = "requested"
<1>1. attempt[s] \in 0 .. MaxRetries
  BY DEF IInv, SendInv
<1>2. phase[s] \in Pending => (aborted[s] = "no" => ~ destroyed)
  BY DEF IInv, SendInv, ClosedAborts
<1>3. SendInv /\ floor \in LongOver .. Never
  BY DEF IInv, SharedInv
<1>4. CASE Send(s)
  <2>1. Moved(s)
    BY <1>3, <1>4, FailsMoves, AttemptMoves DEF Send
  <2> QED
    BY <1>3, <1>4, <2>1, MovedKeeps DEF Send
<1>5. CASE BackoffEnds(s)
  <2>1. Moved(s)
    BY <1>1, <1>3, <1>5, AttemptMoves DEF BackoffEnds
  <2>2. phase[s] \in Pending
    BY <1>5 DEF BackoffEnds, Pending, Sleeping
  <2> QED
    BY <1>2, <1>3, <1>5, <2>1, <2>2, MovedKeeps DEF BackoffEnds
<1>6. CASE Dispatch(s)
  <2>1. Moved(s)
    BY <1>3, <1>6, GateMoves DEF Dispatch
  <2>2. phase[s] \in Pending
    BY <1>6 DEF Dispatch, Pending, Sleeping, WithWire
  <2> QED
    BY <1>2, <1>3, <1>6, <2>1, <2>2, MovedKeeps DEF Dispatch
<1>7. CASE Woken(s)
  <2>1. Moved(s)
    BY <1>3, <1>7, FailsMoves DEF Woken
  <2>2. phase[s] \in Pending
    BY <1>7 DEF Woken, Pending, Turns
  <2> QED
    BY <1>2, <1>3, <1>7, <2>1, <2>2, MovedKeeps DEF Woken
<1>8. ASSUME NEW retryable \in BOOLEAN, WireFails(s, retryable)
      PROVE  /\ SendInv'
             /\ \A t \in Sends : phase'[t] = "requested" => phase[t] = "requested"
  <2>1. ASSUME NEW d \in Backoffs, RetryLeft(s), Attempt(s, attempt[s] + 1, d)
        PROVE  Moved(s)
    <3>1. attempt[s] + 1 \in 0 .. MaxRetries /\ d \in Nat
      BY <1>1, <2>1 DEF RetryLeft
    <3> QED
      BY <1>3, <2>1, <3>1, AttemptMoves
  <2>2. Moved(s)
    BY <1>3, <1>8, <2>1, FailsMoves DEF WireFails
  <2>3. phase[s] \in Pending /\ UNCHANGED destroyed
    BY <1>8 DEF WireFails, Pending
  <2> QED
    BY <1>2, <1>3, <2>2, <2>3, MovedKeeps
<1> QED
  BY <1>4, <1>5, <1>6, <1>7, <1>8

(* The turns that go on without Moved: a request, its answer, success, and *)
(* the dead letter queue's answer.                                         *)
LEMMA TurnKeeps ==
  ASSUME IInv, NEW s \in Sends,
         \/ Request(s)
         \/ \E f \in Floors \union {LongOver} : Refuse(s, f)
         \/ Respond(s)
         \/ Succeed(s)
         \/ \E n \in 0 .. Size : Enqueued(s, n)
  PROVE  /\ SendInv'
         /\ \A t \in Sends : phase'[t] = "requested"
                               => phase[t] = "requested" \/ (t = s /\ Requests(s))
<1> USE DEF AllPhases, Ended, Pending, Sleeping, WithWire, Turns, Requests
<1>1. /\ SendInv /\ floor \in LongOver .. Never
      /\ phase[s] \in Pending => (aborted[s] = "no" => ~ destroyed)
  BY DEF IInv, SharedInv, SendInv, ClosedAborts
<1>2. ASSUME NEW q \in AllPhases \ Sleeping,
             phase' = [phase EXCEPT ![s] = q],
             q \in Pending => phase[s] \in Pending,
             UNCHANGED <<attempt, left, wake, aborted, destroyed>>,
             metrics' \in [Counters -> Nat]
      PROVE  SendInv'
  <2>1. \A t \in Sends : phase'[t] = IF t = s THEN q ELSE phase[t]
    BY <1>1, <1>2 DEF SendInv
  <2>2. ClosedAborts'
    BY <1>1, <1>2, <2>1 DEF SendInv, ClosedAborts
  <2>3. NoHopelessSleep'
    BY <1>1, <1>2, <2>1 DEF SendInv, NoHopelessSleep
  <2>4. phase' \in [Sends -> AllPhases]
    BY <1>1, <1>2 DEF SendInv
  <2> QED
    BY <1>1, <1>2, <2>2, <2>3, <2>4 DEF SendInv
<1>3. CASE Request(s)
  <2>1. CASE Requests(s) /\ Goes(s, "requested")
             /\ UNCHANGED <<attempt, left, wake, aborted, metrics, destroyed>>
    <3>1. SendInv'
      BY <1>1, <1>2, <2>1 DEF Goes, Requests, SendInv
    <3> QED
      BY <1>1, <2>1, <3>1 DEF Goes, SendInv
  <2>2. CASE Moved(s)
    BY <1>1, <1>3, <2>2, MovedKeeps DEF Request
  <2> QED
    BY <1>1, <1>3, <2>1, <2>2, GateMoves, FailsMoves DEF Request, Requests
<1>4. ASSUME NEW f \in Floors \union {LongOver}, Refuse(s, f)
      PROVE  /\ SendInv'
             /\ \A t \in Sends : phase'[t] = "requested" => phase[t] = "requested"
  <2>1. SendInv'
    BY <1>1, <1>2, <1>4 DEF Refuse, Goes, SendInv
  <2> QED
    BY <1>1, <1>4, <2>1 DEF Refuse, Goes, SendInv
<1>5. CASE Respond(s)
  <2>1. CASE aborted[s] = "no"
    <3>1. SendInv'
      BY <1>1, <1>2, <1>5, <2>1 DEF Respond, Goes, SendInv
    <3> QED
      BY <1>1, <1>5, <2>1, <3>1 DEF Respond, Goes, SendInv
  <2>2. CASE aborted[s] # "no"
    <3>1. Moved(s)
      BY <1>1, <1>5, <2>2, FailsMoves DEF Respond
    <3> QED
      BY <1>1, <1>5, <2>2, <3>1, MovedKeeps DEF Respond
  <2> QED
    BY <2>1, <2>2
<1>6. CASE Succeed(s)
  <2>1. CASE aborted[s] = "no"
    <3>1. metrics' \in [Counters -> Nat]
      BY <1>1, <1>6, <2>1, CountingKeeps DEF Succeed
    <3>2. SendInv'
      BY <1>1, <1>2, <1>6, <2>1, <3>1 DEF Succeed, Goes, SendInv
    <3> QED
      BY <1>1, <1>6, <2>1, <3>2 DEF Succeed, Goes, SendInv
  <2>2. CASE aborted[s] # "no"
    <3>1. Moved(s)
      BY <1>1, <1>6, <2>2, FailsMoves DEF Succeed
    <3> QED
      BY <1>1, <1>6, <2>2, <3>1, MovedKeeps DEF Succeed
  <2> QED
    BY <2>1, <2>2
<1>7. ASSUME NEW n \in 0 .. Size, Enqueued(s, n)
      PROVE  /\ SendInv'
             /\ \A t \in Sends : phase'[t] = "requested" => phase[t] = "requested"
  <2>1. metrics' \in [Counters -> Nat]
    <3>1. metrics' = [metrics EXCEPT !["dlqEnqueuedEntries"] = @ + n,
                                     !["unretainedSendEntries"] = @ + Size - n]
      BY <1>7 DEF Enqueued
    <3>2. \A m \in Nat : m + n \in Nat /\ m + Size - n \in Nat
      OBVIOUS
    <3> QED
      BY <1>1, <3>1, <3>2 DEF SendInv, Counters
  <2>2. SendInv'
    BY <1>1, <1>2, <1>7, <2>1 DEF Enqueued, Goes, SendInv
  <2> QED
    BY <1>1, <1>7, <2>2 DEF Enqueued, Goes, SendInv
<1> QED
  BY <1>3, <1>4, <1>5, <1>6, <1>7

(* An abort leaves no sleeper among those it reaches.                      *)
LEMMA AbortKeeps ==
  ASSUME IInv, NEW ss \in SUBSET Sends, NEW why \in {"deadline", "closed"},
         Abort(ss, why), UNCHANGED <<attempt, left, metrics>>,
         \/ UNCHANGED destroyed
         \/ destroyed' = TRUE /\ ss = {s \in Sends : phase[s] \in Pending}
  PROVE  /\ SendInv'
         /\ \A t \in Sends : phase'[t] = "requested" => phase[t] = "requested"
<1> USE DEF AllPhases, Ended, Pending, Sleeping, WithWire, Turns
<1>1. SendInv
  BY DEF IInv
<1>2. /\ phase' \in [Sends -> AllPhases] /\ attempt' \in [Sends -> 0 .. MaxRetries]
      /\ left' \in [Sends -> -Lag .. Budget] /\ metrics' \in [Counters -> Nat]
      /\ aborted' \in [Sends -> Reasons]
  BY <1>1 DEF Abort, SendInv, Reasons
<1>3. wake' \in [Sends -> -Lag .. Never]
  BY <1>1 DEF Abort, SendInv
<1>4. destroyed' \in BOOLEAN
  BY <1>1 DEF SendInv
<1>5. \A t \in Sends :
        /\ t \in ss => aborted'[t] # "no"
        /\ aborted[t] # "no" => aborted'[t] = aborted[t]
        /\ t \in ss => phase'[t] \notin Sleeping
        /\ t \notin ss => phase'[t] = phase[t] /\ wake'[t] = wake[t]
        /\ phase'[t] \in Pending => phase[t] \in Pending
        /\ phase'[t] = "requested" => phase[t] = "requested"
  BY DEF Abort
<1>6. ClosedAborts'
  BY <1>1, <1>5 DEF SendInv, ClosedAborts
<1>7. NoHopelessSleep'
  BY <1>1, <1>5 DEF SendInv, NoHopelessSleep
<1> QED
  BY <1>2, <1>3, <1>4, <1>5, <1>6, <1>7 DEF SendInv

LEMMA TickKeeps ==
  ASSUME IInv, Tick
  PROVE  IInv' /\ UNCHANGED phase
<1>1. /\ left' \in [Sends -> -Lag .. Budget]
      /\ wake' \in [Sends -> -Lag .. Never]
  BY DEF IInv, SendInv, Tick, Punctual
<1>2. ClosedAborts'
  BY DEF IInv, SendInv, Tick, ClosedAborts
<1>3. NoHopelessSleep'
  BY DEF IInv, SendInv, Tick, Punctual, NoHopelessSleep
<1>4. floor' \in LongOver .. Never
  BY DEF IInv, SharedInv, Tick, LongOver
<1>5. owed' \subseteq 1 .. Never /\ OwedBelowFloor'
  BY DEF IInv, SharedInv, Tick, OwedBelowFloor, LongOver
<1> QED
  BY <1>1, <1>2, <1>3, <1>4, <1>5 DEF IInv, SendInv, SharedInv, Tick

-----------------------------------------------------------------------------
LEMMA InitEstablishes == Init => IInv
<1> SUFFICES ASSUME Init PROVE IInv
  OBVIOUS
<1>1. /\ phase \in [Sends -> AllPhases] /\ attempt \in [Sends -> 0 .. MaxRetries]
      /\ left \in [Sends -> -Lag .. Budget] /\ wake \in [Sends -> -Lag .. Never]
      /\ aborted \in [Sends -> Reasons] /\ metrics \in [Counters -> Nat]
  BY DEF Init, AllPhases, Reasons
<1>2. destroyed \in BOOLEAN
  BY Zenon DEF Init
<1>3. ClosedAborts /\ NoHopelessSleep
  BY DEF Init, ClosedAborts, NoHopelessSleep, Sleeping
<1>4. SharedInv
  BY DEF Init, SharedInv, OwedBelowFloor, LongOver
<1> QED
  BY <1>1, <1>2, <1>3, <1>4 DEF IInv, SendInv

(* What an answer asks for raises the floor at least as far.               *)
LEMMA SharedKeeps ==
  ASSUME IInv, Next
  PROVE  SharedInv'
<1>1. SharedInv
  BY DEF IInv
<1>2. ASSUME UNCHANGED <<floor, owed>>, totalSends' \in Nat, acked' \subseteq Sends
      PROVE  SharedInv'
  BY <1>1, <1>2 DEF SharedInv, OwedBelowFloor
<1>3. ASSUME NEW s \in Sends,
             \/ Send(s) \/ BackoffEnds(s) \/ Dispatch(s) \/ Request(s)
             \/ Respond(s) \/ Succeed(s) \/ Woken(s) \/ Deadline(s)
             \/ \E retryable \in BOOLEAN : WireFails(s, retryable)
             \/ \E n \in 0 .. Size : Enqueued(s, n)
      PROVE  SharedInv'
  BY <1>1, <1>2, <1>3 DEF SharedInv, Send, BackoffEnds, Dispatch, Request, Respond,
       Succeed, Woken, Deadline, WireFails, Enqueued
<1>4. ASSUME NEW s \in Sends, NEW f \in Floors \union {LongOver}, Refuse(s, f)
      PROVE  SharedInv'
  <2>1. /\ floor' = Later(floor, f)
        /\ owed' = IF f > 0 THEN owed \union {f} ELSE owed
        /\ UNCHANGED <<totalSends, acked>>
    BY <1>4 DEF Refuse
  <2>2. floor' \in LongOver .. Never /\ floor <= floor' /\ f <= floor'
    BY <1>1, <2>1 DEF SharedInv, Later, LongOver
  <2>3. owed' \subseteq 1 .. Never
    BY <1>1, <2>1 DEF SharedInv, LongOver
  <2>4. OwedBelowFloor'
    BY <1>1, <2>1, <2>2 DEF SharedInv, OwedBelowFloor, LongOver
  <2> QED
    BY <1>1, <2>1, <2>2, <2>3, <2>4 DEF SharedInv
<1>5. CASE Destroy
  BY <1>1, <1>2, <1>5 DEF SharedInv, Destroy
<1>6. CASE Tick
  BY <1>6, TickKeeps DEF IInv
<1> QED
  BY <1>3, <1>4, <1>5, <1>6 DEF Next

(* A step keeps the sends' part, and only Request(s) makes a request.      *)
LEMMA SendsKeep ==
  ASSUME IInv, Next
  PROVE  /\ SendInv'
         /\ \A t \in Sends : phase'[t] = "requested"
                               => phase[t] = "requested" \/ Requests(t)
<1>1. ASSUME NEW s \in Sends, Deadline(s)
      PROVE  /\ SendInv'
             /\ \A t \in Sends : phase'[t] = "requested" => phase[t] = "requested"
  BY <1>1, AbortKeeps DEF Deadline
<1>2. ASSUME Destroy
      PROVE  /\ SendInv'
             /\ \A t \in Sends : phase'[t] = "requested" => phase[t] = "requested"
  <2>1. {s \in Sends : phase[s] \in Pending} \in SUBSET Sends
    OBVIOUS
  <2> QED
    BY <1>2, <2>1, AbortKeeps DEF Destroy
<1>3. CASE Tick
  BY <1>3, TickKeeps DEF IInv
<1> QED
  BY <1>1, <1>2, <1>3, SendKeeps, TurnKeeps DEF Next

LEMMA StepKeeps == IInv /\ [Next]_vars => IInv'
<1> SUFFICES ASSUME IInv, [Next]_vars PROVE IInv'
  OBVIOUS
<1>1. CASE Next
  BY <1>1, SharedKeeps, SendsKeep DEF IInv
<1>2. CASE UNCHANGED vars
  BY <1>2 DEF vars, sends, IInv, SendInv, SharedInv, ClosedAborts, OwedBelowFloor,
       NoHopelessSleep
<1> QED
  BY <1>1, <1>2

LEMMA Invariance == Spec => []IInv
<1>1. Init => IInv
  BY InitEstablishes
<1>2. IInv /\ [Next]_vars => IInv'
  BY StepKeeps
<1> QED
  BY <1>1, <1>2, PTL DEF Spec

(* Counters, times and phases keep their types: no send makes more than    *)
(* MaxRetries retries, and no timer is later than the event loop is.       *)
THEOREM TypeCorrect == Spec => []TypeOK
<1>1. IInv => TypeOK
  BY DEF IInv, SendInv, SharedInv, TypeOK, AllPhases, Reasons
<1> QED
  BY <1>1, Invariance, PTL

(* No send sleeps past its own deadline, and none in a destroyed transport.*)
THEOREM NobodySleepsInVain == Spec => []NoHopelessSleep
<1>1. IInv => NoHopelessSleep
  BY DEF IInv, SendInv
<1> QED
  BY <1>1, Invariance, PTL

(* However many answers raise the floor in whatever order, no request is   *)
(* made before all the delays they asked for are over, past its deadline   *)
(* or after destroy().                                                     *)
THEOREM FloorAlwaysRespected == Spec => FloorRespected
<1>1. ASSUME IInv, [Next]_vars, NEW s \in Sends,
             phase[s] # "requested", phase'[s] = "requested"
      PROVE  owed = {} /\ left[s] > 0 /\ ~ destroyed
  <2>1. Requests(s)
    BY <1>1, SendsKeep DEF vars, sends
  <2>2. ~ destroyed
    BY <1>1, <2>1 DEF IInv, SendInv, ClosedAborts, Requests, Pending, Turns
  <2>3. ASSUME NEW d \in owed PROVE FALSE
    <3>1. d \in 1 .. Never /\ d <= floor /\ floor \in LongOver .. Never
      BY <1>1, <2>3 DEF IInv, SharedInv, OwedBelowFloor
    <3>2. floor <= 0
      BY <2>1 DEF Requests
    <3> QED
      BY <3>1, <3>2 DEF LongOver
  <2>4. owed = {}
    BY <2>3
  <2> QED
    BY <2>1, <2>2, <2>4 DEF Requests
<1>2. IInv /\ [Next]_vars =>
        [\A s \in Sends :
           phase[s] # "requested" /\ phase'[s] = "requested"
             => owed = {} /\ left[s] > 0 /\ ~ destroyed]_vars
  BY <1>1
<1> QED
  BY <1>2, Invariance, PTL DEF Spec, FloorRespected

-----------------------------------------------------------------------------
(***************************************************************************)
(* The accounts.                                                           *)
(***************************************************************************)

(* The metrics m account for n sends, of which p are pending, a were sent  *)
(* and e have a batch that the dead letter queue is considering.           *)
Accounted(p, a, e, n, m) ==
  /\ n = p + m["successfulSends"] + m["failedSends"]
  /\ m["successfulSends"] = a
  /\ m["failedSendEntries"] = Size * m["failedSends"]
  /\ m["failedSendEntries"] = m["dlqEnqueuedEntries"] + m["unretainedSendEntries"]
                                + Size * e
  /\ m["deadlineExceeded"] + m["backpressureDeclines"] <= m["failedSends"]

AccountInv ==
  Accounted(At(Pending), At({"sent"}), At({"enqueueing"}), totalSends, metrics)

(* What was acknowledged is on its way to be counted as a success, unless  *)
(* the send was aborted.                                                   *)
AckInv ==
  \A s \in Sends :
    /\ phase[s] \in {"answered", "sent"} => s \in acked
    /\ s \in acked => \/ phase[s] \in {"answered", "sent"}
                      \/ phase[s] \in {"enqueueing", "failed"} /\ aborted[s] # "no"

(* A send that fails is counted with one cause, and one that goes on       *)
(* changes no account.                                                     *)
FailsOnce(s) == \E why : Fails(s, why) /\ (why = "declined" => aborted[s] = "no")

SameAccounts(m, m1) ==
  \A c \in Counters \ {"retryAttempts", "retriedRequests"} : m1[c] = m[c]

Passes(s) ==
  \E p \in Pending \ {"answered"} :
    /\ phase' = [phase EXCEPT ![s] = p]
    /\ SameAccounts(metrics, metrics')
    /\ UNCHANGED aborted

GoesOn(s) == FailsOnce(s) \/ Passes(s)

-----------------------------------------------------------------------------
(* How many sends are in the phases ps, when s goes to phase p. *)
AtOf(f, ps) == Cardinality({t \in Sends : f[t] \in ps})

Changes(f, g, s, p) == DOMAIN f = Sends /\ g = [f EXCEPT ![s] = p]

LEMMA AtMoves ==
  ASSUME NEW f, NEW s \in Sends, NEW p, NEW g, NEW ps, Changes(f, g, s, p)
  PROVE  /\ AtOf(f, ps) \in Nat /\ AtOf(g, ps) \in Nat
         /\ p \in ps /\ f[s] \notin ps => AtOf(g, ps) = AtOf(f, ps) + 1
         /\ p \notin ps /\ f[s] \in ps => AtOf(g, ps) = AtOf(f, ps) - 1
         /\ p \in ps /\ f[s] \in ps => AtOf(g, ps) = AtOf(f, ps)
         /\ p \notin ps /\ f[s] \notin ps => AtOf(g, ps) = AtOf(f, ps)
<1> DEFINE F == {t \in Sends : f[t] \in ps}
           G == {t \in Sends : g[t] \in ps}
<1>1. IsFiniteSet(F) /\ IsFiniteSet(G)
  BY FS_Subset
<1>2. \A t \in Sends : g[t] = IF t = s THEN p ELSE f[t]
  BY DEF Changes
<1>3. AtOf(f, ps) = Cardinality(F) /\ AtOf(g, ps) = Cardinality(G)
  BY DEF AtOf
<1>4. Cardinality(F) \in Nat /\ Cardinality(G) \in Nat
  BY <1>1, FS_CardinalityType
<1>5. ASSUME p \in ps, f[s] \notin ps
      PROVE  Cardinality(G) = Cardinality(F) + 1
  <2>1. G = F \union {s} /\ s \notin F
    BY <1>2, <1>5
  <2> HIDE DEF F, G
  <2> QED
    BY <1>1, <2>1, FS_AddElement
<1>6. ASSUME p \notin ps, f[s] \in ps
      PROVE  Cardinality(G) = Cardinality(F) - 1
  <2>1. G = F \ {s} /\ s \in F
    BY <1>2, <1>6
  <2> HIDE DEF F, G
  <2> QED
    BY <1>1, <2>1, FS_RemoveElement
<1>7. ASSUME p \in ps <=> f[s] \in ps
      PROVE  G = F
  BY <1>2, <1>7
<1> QED
  BY <1>3, <1>4, <1>5, <1>6, <1>7

(* Nobody changes sides. *)
LEMMA AtStays ==
  ASSUME NEW f, NEW g, NEW ps, \A t \in Sends : f[t] \in ps <=> g[t] \in ps
  PROVE  AtOf(g, ps) = AtOf(f, ps)
<1>1. {t \in Sends : g[t] \in ps} = {t \in Sends : f[t] \in ps}
  OBVIOUS
<1> QED
  BY <1>1 DEF AtOf

(* The accounts in terms of AtOf, now and next. *)
LEMMA AccountByPhase ==
  /\ AccountInv <=> Accounted(AtOf(phase, Pending), AtOf(phase, {"sent"}),
                              AtOf(phase, {"enqueueing"}), totalSends, metrics)
  /\ AccountInv' <=> Accounted(AtOf(phase', Pending), AtOf(phase', {"sent"}),
                               AtOf(phase', {"enqueueing"}), totalSends', metrics')
<1>1. \A ps : At(ps) = AtOf(phase, ps) /\ At(ps)' = AtOf(phase', ps)
  BY DEF At, AtOf
<1>2. /\ At(Pending) = AtOf(phase, Pending) /\ At({"sent"}) = AtOf(phase, {"sent"})
      /\ At({"enqueueing"}) = AtOf(phase, {"enqueueing"})
  BY DEF At, AtOf
<1>3. AccountInv' <=> Accounted(AtOf(phase', Pending), AtOf(phase', {"sent"}),
                               AtOf(phase', {"enqueueing"}), totalSends', metrics')
  BY DEF AccountInv, Accounted, At, AtOf, Pending, Sleeping, WithWire, Turns
<1> QED
  BY <1>2, <1>3 DEF AccountInv

(* From metrics m to m1 a failure is counted, whose batch the dead letter  *)
(* queue is offered or not.                                                *)
FailureOf(m, m1, e, e1) ==
  /\ m \in [Counters -> Nat] /\ m1 \in [Counters -> Nat]
  /\ m1["successfulSends"] = m["successfulSends"]
  /\ m1["failedSends"] = m["failedSends"] + 1
  /\ m1["failedSendEntries"] = m["failedSendEntries"] + Size
  /\ m1["dlqEnqueuedEntries"] = m["dlqEnqueuedEntries"]
  /\ \/ e1 = e + 1 /\ m1["unretainedSendEntries"] = m["unretainedSendEntries"]
     \/ e1 = e /\ m1["unretainedSendEntries"] = m["unretainedSendEntries"] + Size
  /\ m1["deadlineExceeded"] + m1["backpressureDeclines"]
       <= m["deadlineExceeded"] + m["backpressureDeclines"] + 1

(* Arithmetic of the accounts: a failure keeps them. *)
LEMMA FailureCounted ==
  ASSUME NEW p \in Nat, NEW a \in Nat, NEW e \in Nat, NEW n \in Nat,
         NEW p1 \in Nat, NEW e1 \in Nat, NEW n1 \in Nat, NEW m, NEW m1,
         FailureOf(m, m1, e, e1),
         Accounted(p, a, e, n, m), n1 - p1 = n - p + 1
  PROVE  Accounted(p1, a, e1, n1, m1)
<1> USE DEF FailureOf
<1>1. \A x, y \in Nat : y = x + 1 => Size * y = Size * x + Size
  OBVIOUS
<1>2. PICK ok \in Nat, fl \in Nat, fe \in Nat, dq \in Nat, un \in Nat, un1 \in Nat,
           de \in Nat, bp \in Nat, de1 \in Nat, bp1 \in Nat :
        /\ ok = m["successfulSends"] /\ fl = m["failedSends"]
        /\ fe = m["failedSendEntries"] /\ dq = m["dlqEnqueuedEntries"]
        /\ un = m["unretainedSendEntries"] /\ un1 = m1["unretainedSendEntries"]
        /\ de = m["deadlineExceeded"] /\ bp = m["backpressureDeclines"]
        /\ de1 = m1["deadlineExceeded"] /\ bp1 = m1["backpressureDeclines"]
  BY DEF Counters
<1>3. /\ n = p + ok + fl /\ ok = a /\ fe = Size * fl /\ fe = dq + un + Size * e
      /\ de + bp <= fl
  BY <1>2 DEF Accounted
<1>4. n1 = p1 + ok + (fl + 1)
  BY <1>3
<1>5. fe + Size = Size * (fl + 1)
  BY <1>1, <1>3
<1>6. fe + Size = dq + un1 + Size * e1
  <2>1. PICK x \in Nat, x1 \in Nat : x = Size * e /\ x1 = Size * e1
    OBVIOUS
  <2>2. CASE e1 = e + 1 /\ un1 = un
    <3>1. x1 = x + Size
      BY <1>1, <2>1, <2>2
    <3> QED
      BY <1>3, <2>1, <2>2, <3>1
  <2>3. CASE e1 = e /\ un1 = un + Size
    BY <1>3, <2>1, <2>3
  <2> QED
    BY <1>2, <2>2, <2>3
<1>7. de1 + bp1 <= fl + 1
  BY <1>2, <1>3
<1> QED
  BY <1>2, <1>3, <1>4, <1>5, <1>6, <1>7 DEF Accounted

(* What the catch block of send() counts. *)
LEMMA FailsCounts ==
  ASSUME SendInv, NEW s \in Sends, NEW why, Fails(s, why),
         why = "declined" => aborted[s] = "no"
  PROVE  \E q \in {"enqueueing", "failed"} :
           /\ phase' = [phase EXCEPT ![s] = q]
           /\ metrics' \in [Counters -> Nat]
           /\ metrics'["successfulSends"] = metrics["successfulSends"]
           /\ metrics'["failedSends"] = metrics["failedSends"] + 1
           /\ metrics'["failedSendEntries"] = metrics["failedSendEntries"] + Size
           /\ metrics'["dlqEnqueuedEntries"] = metrics["dlqEnqueuedEntries"]
           /\ metrics'["unretainedSendEntries"] = metrics["unretainedSendEntries"]
                + IF q = "enqueueing" THEN 0 ELSE Size
           /\ metrics'["deadlineExceeded"] + metrics'["backpressureDeclines"]
                <= metrics["deadlineExceeded"] + metrics["backpressureDeclines"] + 1
           /\ UNCHANGED aborted
<1> DEFINE failure == IF aborted[s] # "no" THEN aborted[s] ELSE why
           cs == {"failedSends"}
                   \union (IF failure = "deadline" THEN {"deadlineExceeded"} ELSE {})
                   \union (IF why = "declined" THEN {"backpressureDeclines"} ELSE {})
           counted == Counting(cs)
           kept == HasDlq /\ ~ destroyed
           q    == IF kept THEN "enqueueing" ELSE "failed"
<1>1. /\ metrics' = [counted EXCEPT !["failedSendEntries"] = @ + Size,
                                    !["unretainedSendEntries"] = IF kept THEN @ ELSE @ + Size]
      /\ phase' = [phase EXCEPT ![s] = q]
      /\ UNCHANGED aborted
  BY DEF Fails, Goes
<1>2. /\ "failedSends" \in cs
      /\ "deadlineExceeded" \notin cs \/ "backpressureDeclines" \notin cs
      /\ \A c \in {"successfulSends", "failedSendEntries", "dlqEnqueuedEntries",
                   "unretainedSendEntries"} : c \notin cs
  OBVIOUS
<1> HIDE DEF cs
<1>3. /\ counted \in [Counters -> Nat]
      /\ \A c \in Counters : counted[c] = IF c \in cs THEN metrics[c] + 1 ELSE metrics[c]
      /\ \A c \in Counters : metrics[c] \in Nat
  BY CountingKeeps DEF Counting, SendInv
<1> HIDE DEF counted, kept
<1>4. metrics' \in [Counters -> Nat]
  BY <1>1, <1>3 DEF Counters
<1>5. /\ metrics'["successfulSends"] = metrics["successfulSends"]
      /\ metrics'["failedSends"] = metrics["failedSends"] + 1
      /\ metrics'["failedSendEntries"] = metrics["failedSendEntries"] + Size
      /\ metrics'["dlqEnqueuedEntries"] = metrics["dlqEnqueuedEntries"]
      /\ metrics'["unretainedSendEntries"] = metrics["unretainedSendEntries"]
           + IF kept THEN 0 ELSE Size
  BY <1>1, <1>2, <1>3 DEF Counters
<1>6. /\ metrics'["deadlineExceeded"] = counted["deadlineExceeded"]
      /\ metrics'["backpressureDeclines"] = counted["backpressureDeclines"]
  BY <1>1, <1>3 DEF Counters
<1>7. metrics'["deadlineExceeded"] + metrics'["backpressureDeclines"]
        <= metrics["deadlineExceeded"] + metrics["backpressureDeclines"] + 1
  BY <1>2, <1>3, <1>6 DEF Counters
<1> QED
  BY <1>1, <1>4, <1>5, <1>7

(* A retry that is tried or waited for. *)
LEMMA AttemptGoesOn ==
  ASSUME NEW s \in Sends, NEW n, NEW d, Attempt(s, n, d)
  PROVE  GoesOn(s)
<1> USE DEF Pending, Sleeping, WithWire, Turns
<1>1. CASE WaitUntil(s, d) = "pass"
  <2>1. /\ phase' = [phase EXCEPT ![s] = "preparing"] /\ UNCHANGED aborted
        /\ SameAccounts(metrics, metrics')
    BY <1>1 DEF Attempt, Goes, Counting, SameAccounts
  <2> QED
    BY <2>1 DEF GoesOn, Passes
<1>2. CASE WaitUntil(s, d) = "sleep"
  BY <1>2 DEF Attempt, Sleeps, Goes, GoesOn, Passes, SameAccounts
<1>3. CASE WaitUntil(s, d) \notin {"pass", "sleep"}
  <2>1. WaitUntil(s, d) = "declined" => aborted[s] = "no"
    BY DEF WaitUntil
  <2>2. Fails(s, WaitUntil(s, d))
    BY <1>3 DEF Attempt
  <2> QED
    BY <2>1, <2>2 DEF GoesOn, FailsOnce
<1> QED
  BY <1>1, <1>2, <1>3

(* A wait for the floor before a request. *)
LEMMA GateGoesOn ==
  ASSUME NEW s \in Sends, Gate(s)
  PROVE  GoesOn(s)
<1> USE DEF Pending, Sleeping, WithWire, Turns
<1>1. CASE WaitUntil(s, 0) = "pass"
  BY <1>1 DEF Gate, Goes, GoesOn, Passes, SameAccounts
<1>2. CASE WaitUntil(s, 0) = "sleep"
  BY <1>2 DEF Gate, Sleeps, Goes, GoesOn, Passes, SameAccounts
<1>3. CASE WaitUntil(s, 0) \notin {"pass", "sleep"}
  <2>1. WaitUntil(s, 0) = "declined" => aborted[s] = "no"
    BY DEF WaitUntil
  <2>2. Fails(s, WaitUntil(s, 0))
    BY <1>3 DEF Gate
  <2> QED
    BY <2>1, <2>2 DEF GoesOn, FailsOnce
<1> QED
  BY <1>1, <1>2, <1>3


-----------------------------------------------------------------------------
(* A send that passes on changes no account but the number of those that   *)
(* are pending, when it has just been made.                                *)
LEMMA PassingCounted ==
  ASSUME NEW p \in Nat, NEW a \in Nat, NEW e \in Nat, NEW n \in Nat,
         NEW p1 \in Nat, NEW n1 \in Nat, NEW m, NEW m1,
         m \in [Counters -> Nat], SameAccounts(m, m1),
         Accounted(p, a, e, n, m), n1 - p1 = n - p
  PROVE  Accounted(p1, a, e, n1, m1)
<1>1. /\ m1["successfulSends"] = m["successfulSends"]
      /\ m1["failedSends"] = m["failedSends"]
      /\ m1["failedSendEntries"] = m["failedSendEntries"]
      /\ m1["dlqEnqueuedEntries"] = m["dlqEnqueuedEntries"]
      /\ m1["unretainedSendEntries"] = m["unretainedSendEntries"]
      /\ m1["deadlineExceeded"] = m["deadlineExceeded"]
      /\ m1["backpressureDeclines"] = m["backpressureDeclines"]
  BY DEF SameAccounts, Counters
<1>2. PICK x \in Nat, y \in Nat : x = m["successfulSends"] /\ y = m["failedSends"]
  BY DEF Counters
<1>3. n1 = p1 + m["successfulSends"] + m["failedSends"]
  <2>1. n = p + x + y
    BY <1>2 DEF Accounted
  <2>2. n1 = p1 + x + y
    BY <2>1
  <2> QED
    BY <1>2, <2>2
<1> QED
  BY <1>1, <1>3 DEF Accounted

(* Whether it passes on or fails, a send keeps the accounts. *)
LEMMA GoesOnAccounts ==
  ASSUME IInv, AccountInv, NEW s \in Sends, GoesOn(s),
         \/ phase[s] \in Pending /\ totalSends' = totalSends
         \/ phase[s] = "idle" /\ totalSends' = totalSends + 1
  PROVE  AccountInv'
<1> DEFINE P == AtOf(phase, Pending)
           A == AtOf(phase, {"sent"})
           E == AtOf(phase, {"enqueueing"})
           P1 == AtOf(phase', Pending)
           A1 == AtOf(phase', {"sent"})
           E1 == AtOf(phase', {"enqueueing"})
<1>1. Accounted(P, A, E, totalSends, metrics)
  BY AccountByPhase
<1>2. /\ DOMAIN phase = Sends /\ metrics \in [Counters -> Nat] /\ totalSends \in Nat
      /\ SendInv
  BY DEF IInv, SendInv, SharedInv
<1>3. ASSUME NEW p, phase' = [phase EXCEPT ![s] = p]
      PROVE  /\ P \in Nat /\ A \in Nat /\ E \in Nat
             /\ P1 \in Nat /\ A1 \in Nat /\ E1 \in Nat
             /\ p # "sent" => A1 = A
             /\ p \in Pending => totalSends' - P1 = totalSends - P /\ E1 = E
             /\ p \notin Pending => totalSends' - P1 = totalSends - P + 1
             /\ p = "enqueueing" => E1 = E + 1
             /\ p = "failed" => E1 = E
  <2>0. ASSUME NEW ps
        PROVE
          /\ AtOf(phase, ps) \in Nat /\ AtOf(phase', ps) \in Nat
          /\ p \in ps /\ phase[s] \notin ps => AtOf(phase', ps) = AtOf(phase, ps) + 1
          /\ p \notin ps /\ phase[s] \in ps => AtOf(phase', ps) = AtOf(phase, ps) - 1
          /\ p \in ps /\ phase[s] \in ps => AtOf(phase', ps) = AtOf(phase, ps)
          /\ p \notin ps /\ phase[s] \notin ps => AtOf(phase', ps) = AtOf(phase, ps)
    <3> HIDE DEF P, A, E, P1, A1, E1
    <3>1. Changes(phase, phase', s, p)
      BY <1>2, <1>3 DEF Changes
    <3> QED
      BY <3>1, AtMoves
  <2>1. /\ P \in Nat /\ P1 \in Nat
        /\ p \in Pending /\ phase[s] \notin Pending => P1 = P + 1
        /\ p \notin Pending /\ phase[s] \in Pending => P1 = P - 1
        /\ (p \in Pending <=> phase[s] \in Pending) => P1 = P
    BY <2>0
  <2>2. /\ A \in Nat /\ A1 \in Nat
        /\ (p \in {"sent"} <=> phase[s] \in {"sent"}) => A1 = A
    BY <2>0
  <2>3. /\ E \in Nat /\ E1 \in Nat
        /\ p \in {"enqueueing"} /\ phase[s] \notin {"enqueueing"} => E1 = E + 1
        /\ (p \in {"enqueueing"} <=> phase[s] \in {"enqueueing"}) => E1 = E
    BY <2>0
  <2>4. /\ phase[s] \notin {"sent", "enqueueing"}
        /\ \A x \in Pending : x \notin {"sent", "enqueueing"}
    BY DEF Pending, Sleeping, WithWire, Turns
  <2>9. "idle" \notin Pending
    BY DEF Pending, Sleeping, WithWire, Turns
  <2> HIDE DEF P, A, E, P1, A1, E1
  <2>5. p # "sent" => A1 = A
    BY <2>2, <2>4
  <2>6. p \in Pending => totalSends' - P1 = totalSends - P /\ E1 = E
    BY <1>2, <2>1, <2>3, <2>4, <2>9
  <2>7. p \notin Pending => totalSends' - P1 = totalSends - P + 1
    BY <1>2, <2>1, <2>9
  <2>8. (p = "enqueueing" => E1 = E + 1) /\ (p = "failed" => E1 = E)
    BY <2>3, <2>4
  <2> QED
    BY <2>1, <2>2, <2>3, <2>5, <2>6, <2>7, <2>8
<1> HIDE DEF P, A, E, P1, A1, E1
<1>4. totalSends' \in Nat
  BY <1>2
<1>5. CASE Passes(s)
  <2>1. PICK p \in Pending \ {"answered"} :
          phase' = [phase EXCEPT ![s] = p] /\ SameAccounts(metrics, metrics')
    BY <1>5 DEF Passes
  <2>2. /\ P \in Nat /\ A \in Nat /\ E \in Nat /\ P1 \in Nat
        /\ A1 = A /\ E1 = E /\ totalSends' - P1 = totalSends - P
    <3>1. p # "sent"
      BY DEF Pending, Sleeping, WithWire, Turns
    <3> QED
      BY <1>3, <2>1, <3>1
  <2>3. Accounted(P1, A, E, totalSends', metrics')
    BY <1>1, <1>2, <1>4, <2>1, <2>2, PassingCounted
  <2>4. Accounted(P1, A1, E1, totalSends', metrics')
    BY <2>2, <2>3
  <2> QED
    BY <2>4, AccountByPhase DEF P1, A1, E1
<1>6. CASE FailsOnce(s)
  <2>1. PICK q \in {"enqueueing", "failed"} :
           /\ phase' = [phase EXCEPT ![s] = q]
           /\ metrics' \in [Counters -> Nat]
           /\ metrics'["successfulSends"] = metrics["successfulSends"]
           /\ metrics'["failedSends"] = metrics["failedSends"] + 1
           /\ metrics'["failedSendEntries"] = metrics["failedSendEntries"] + Size
           /\ metrics'["dlqEnqueuedEntries"] = metrics["dlqEnqueuedEntries"]
           /\ metrics'["unretainedSendEntries"] = metrics["unretainedSendEntries"]
                + IF q = "enqueueing" THEN 0 ELSE Size
           /\ metrics'["deadlineExceeded"] + metrics'["backpressureDeclines"]
                <= metrics["deadlineExceeded"] + metrics["backpressureDeclines"] + 1
    BY <1>2, <1>6, FailsCounts DEF FailsOnce
  <2>2. /\ P \in Nat /\ A \in Nat /\ E \in Nat /\ P1 \in Nat /\ E1 \in Nat
        /\ A1 = A /\ totalSends' - P1 = totalSends - P + 1
        /\ q = "enqueueing" => E1 = E + 1
        /\ q = "failed" => E1 = E
    <3>1. q # "sent" /\ q \notin Pending
      BY DEF Pending, Sleeping, WithWire, Turns
    <3> QED
      BY <1>3, <2>1, <3>1
  <2>3. metrics["unretainedSendEntries"] \in Nat
    BY <1>2 DEF Counters
  <2>4. \/ /\ E1 = E + 1
           /\ metrics'["unretainedSendEntries"] = metrics["unretainedSendEntries"]
        \/ /\ E1 = E
           /\ metrics'["unretainedSendEntries"] = metrics["unretainedSendEntries"] + Size
    BY <2>1, <2>2, <2>3
  <2>5. Accounted(P1, A, E1, totalSends', metrics')
    <3>1. FailureOf(metrics, metrics', E, E1)
      BY <1>2, <2>1, <2>4 DEF FailureOf
    <3>2. /\ P \in Nat /\ A \in Nat /\ E \in Nat /\ P1 \in Nat /\ E1 \in Nat
          /\ totalSends' - P1 = totalSends - P + 1
      BY <2>2
    <3> QED
      BY <1>1, <1>2, <1>4, <3>1, <3>2, FailureCounted
  <2>6. Accounted(P1, A1, E1, totalSends', metrics')
    BY <2>2, <2>5
  <2> QED
    BY <2>6, AccountByPhase DEF P1, A1, E1
<1> QED
  BY <1>5, <1>6 DEF GoesOn

(* What goes on was not acknowledged before, and is not now. *)
LEMMA GoesOnAcks ==
  ASSUME IInv, AckInv, NEW s \in Sends, GoesOn(s), acked' = acked,
         phase[s] \in (Pending \ {"answered"}) \union {"idle"}
  PROVE  AckInv'
<1> USE DEF Pending, Sleeping, WithWire, Turns
<1>1. s \notin acked
  BY DEF AckInv
<1>2. DOMAIN phase = Sends /\ SendInv
  BY DEF IInv, SendInv
<1>3. PICK p \in (Pending \ {"answered"}) \union {"enqueueing", "failed"} :
        phase' = [phase EXCEPT ![s] = p] /\ aborted' = aborted
  <2>1. CASE Passes(s)
    BY <2>1 DEF Passes
  <2>2. CASE FailsOnce(s)
    BY <1>2, <2>2, FailsCounts DEF FailsOnce
  <2> QED
    BY <2>1, <2>2 DEF GoesOn
<1>4. \A t \in Sends : phase'[t] = IF t = s THEN p ELSE phase[t]
  BY <1>2, <1>3
<1>5. p \notin {"answered", "sent"}
  OBVIOUS
<1> QED
  BY <1>1, <1>3, <1>4, <1>5 DEF AckInv

(* The steps of a send that come before its answer. *)
LEMMA EarlyKeeps ==
  ASSUME IInv, AccountInv, AckInv, NEW s \in Sends,
         \/ Send(s) \/ BackoffEnds(s) \/ Dispatch(s) \/ Request(s) \/ Woken(s)
         \/ \E f \in Floors \union {LongOver} : Refuse(s, f)
         \/ \E retryable \in BOOLEAN : WireFails(s, retryable)
  PROVE  AccountInv' /\ AckInv'
<1> USE DEF Pending, Sleeping, WithWire, Turns
<1>1. ASSUME NEW why \in {"error", "aborted", "deadline"}, Fails(s, why)
      PROVE  GoesOn(s)
  BY <1>1 DEF GoesOn, FailsOnce
<1>2. ASSUME aborted[s] = "no", Fails(s, "declined")
      PROVE  GoesOn(s)
  BY <1>2 DEF GoesOn, FailsOnce
<1>3. ASSUME NEW p \in {"requested", "refused"}, Goes(s, p), UNCHANGED <<aborted, metrics>>
      PROVE  GoesOn(s)
  BY <1>3 DEF GoesOn, Passes, Goes, SameAccounts
<1>4. CASE Send(s)
  <2>1. GoesOn(s)
    BY <1>1, <1>4, AttemptGoesOn DEF Send
  <2> QED
    BY <1>4, <2>1, GoesOnAccounts, GoesOnAcks DEF Send
<1>5. CASE BackoffEnds(s)
  <2>1. GoesOn(s)
    BY <1>5, AttemptGoesOn DEF BackoffEnds
  <2>2. phase[s] \in Pending \ {"answered"} /\ UNCHANGED <<totalSends, acked>>
    BY <1>5 DEF BackoffEnds
  <2> QED
    BY <2>1, <2>2, GoesOnAccounts, GoesOnAcks
<1>6. CASE Dispatch(s)
  <2>1. GoesOn(s)
    BY <1>6, GateGoesOn DEF Dispatch
  <2>2. phase[s] \in Pending \ {"answered"} /\ UNCHANGED <<totalSends, acked>>
    BY <1>6 DEF Dispatch
  <2> QED
    BY <2>1, <2>2, GoesOnAccounts, GoesOnAcks
<1>7. CASE Request(s)
  <2>1. GoesOn(s)
    BY <1>1, <1>2, <1>3, <1>7, GateGoesOn DEF Request
  <2>2. phase[s] \in Pending \ {"answered"} /\ UNCHANGED <<totalSends, acked>>
    BY <1>7 DEF Request
  <2> QED
    BY <2>1, <2>2, GoesOnAccounts, GoesOnAcks
<1>8. CASE Woken(s)
  <2>1. GoesOn(s)
    BY <1>1, <1>8 DEF Woken
  <2>2. phase[s] \in Pending \ {"answered"} /\ UNCHANGED <<totalSends, acked>>
    BY <1>8 DEF Woken
  <2> QED
    BY <2>1, <2>2, GoesOnAccounts, GoesOnAcks
<1>9. CASE \E f \in Floors \union {LongOver} : Refuse(s, f)
  <2>1. GoesOn(s)
    BY <1>3, <1>9 DEF Refuse
  <2>2. phase[s] \in Pending \ {"answered"} /\ UNCHANGED <<totalSends, acked>>
    BY <1>9 DEF Refuse
  <2> QED
    BY <2>1, <2>2, GoesOnAccounts, GoesOnAcks
<1>10. ASSUME NEW retryable \in BOOLEAN, WireFails(s, retryable)
       PROVE  AccountInv' /\ AckInv'
  <2>1. GoesOn(s)
    BY <1>1, <1>2, <1>10, AttemptGoesOn DEF WireFails
  <2>2. phase[s] \in Pending \ {"answered"} /\ UNCHANGED <<totalSends, acked>>
    BY <1>10 DEF WireFails
  <2> QED
    BY <2>1, <2>2, GoesOnAccounts, GoesOnAcks
<1> QED
  BY <1>4, <1>5, <1>6, <1>7, <1>8, <1>9, <1>10


-----------------------------------------------------------------------------
(* Nothing is counted while the pending, the sent and the enqueueing stay  *)
(* as many as they are.                                                    *)
LEMMA SameAtKeeps ==
  ASSUME AccountInv, UNCHANGED <<totalSends, metrics>>,
         \A t \in Sends : /\ phase'[t] \in Pending <=> phase[t] \in Pending
                          /\ phase'[t] = "sent" <=> phase[t] = "sent"
                          /\ phase'[t] = "enqueueing" <=> phase[t] = "enqueueing"
  PROVE  AccountInv'
<1>1. AtOf(phase', Pending) = AtOf(phase, Pending)
  BY AtStays
<1>2. AtOf(phase', {"sent"}) = AtOf(phase, {"sent"})
  BY AtStays
<1>3. AtOf(phase', {"enqueueing"}) = AtOf(phase, {"enqueueing"})
  BY AtStays
<1>4. Accounted(AtOf(phase', Pending), AtOf(phase', {"sent"}),
                AtOf(phase', {"enqueueing"}), totalSends', metrics')
  <2>1. totalSends' = totalSends /\ metrics' = metrics
    OBVIOUS
  <2> QED
    BY <1>1, <1>2, <1>3, <2>1, AccountByPhase
<1> QED
  BY <1>4, AccountByPhase

(* The answer: acknowledged, unless the send was aborted meanwhile. *)
LEMMA RespondKeeps ==
  ASSUME IInv, AccountInv, AckInv, NEW s \in Sends, Respond(s)
  PROVE  AccountInv' /\ AckInv'
<1>1. SendInv /\ phase[s] = "requested" /\ phase[s] \in Pending
  BY DEF IInv, Respond, Pending, WithWire
<1>2. CASE aborted[s] = "no"
  <2>1. /\ phase' = [phase EXCEPT ![s] = "answered"] /\ acked' = acked \union {s}
        /\ UNCHANGED <<aborted, metrics, totalSends>>
    BY <1>2 DEF Respond, Goes
  <2>2. \A t \in Sends : phase'[t] = IF t = s THEN "answered" ELSE phase[t]
    BY <1>1, <2>1 DEF SendInv
  <2>3. AccountInv'
    BY <1>1, <2>1, <2>2, SameAtKeeps DEF Pending, Sleeping, WithWire, Turns
  <2>4. AckInv'
    BY <2>1, <2>2 DEF AckInv
  <2> QED
    BY <2>3, <2>4
<1>3. CASE aborted[s] # "no"
  <2>1. Fails(s, "aborted") /\ acked' = acked \union {s} /\ totalSends' = totalSends
    BY <1>3 DEF Respond
  <2>2. AccountInv'
    BY <1>1, <2>1, GoesOnAccounts DEF GoesOn, FailsOnce
  <2>3. PICK q \in {"enqueueing", "failed"} :
          phase' = [phase EXCEPT ![s] = q] /\ aborted' = aborted
    BY <1>1, <2>1, FailsCounts
  <2>4. \A t \in Sends : phase'[t] = IF t = s THEN q ELSE phase[t]
    BY <1>1, <2>3 DEF SendInv
  <2>5. AckInv'
    BY <1>3, <2>1, <2>3, <2>4 DEF AckInv
  <2> QED
    BY <2>2, <2>5
<1> QED
  BY <1>2, <1>3

(* A success is counted as one, or as the failure of an aborted send. *)
LEMMA SucceedKeeps ==
  ASSUME IInv, AccountInv, AckInv, NEW s \in Sends, Succeed(s)
  PROVE  AccountInv' /\ AckInv'
<1>1. SendInv /\ phase[s] = "answered" /\ phase[s] \in Pending
  BY DEF IInv, Succeed, Pending, Turns
<1>2. CASE aborted[s] = "no"
  <2>1. /\ phase' = [phase EXCEPT ![s] = "sent"] /\ acked' = acked
        /\ metrics' = Counting({"successfulSends"})
        /\ UNCHANGED <<aborted, totalSends>>
        /\ Changes(phase, phase', s, "sent")
    BY <1>1, <1>2 DEF Succeed, Goes, Changes, SendInv
  <2>2. \A t \in Sends : phase'[t] = IF t = s THEN "sent" ELSE phase[t]
    BY <1>1, <2>1 DEF SendInv
  <2>3. AccountInv'
    <3>10. Changes(phase, phase', s, "sent")
      BY <2>1
    <3>1. "sent" \notin Pending
      BY DEF Pending, Sleeping, WithWire, Turns
    <3>2. PICK P \in Nat, A \in Nat, E \in Nat, P1 \in Nat, A1 \in Nat, E1 \in Nat :
            /\ P = AtOf(phase, Pending) /\ P1 = AtOf(phase', Pending)
            /\ A = AtOf(phase, {"sent"}) /\ A1 = AtOf(phase', {"sent"})
            /\ E = AtOf(phase, {"enqueueing"}) /\ E1 = AtOf(phase', {"enqueueing"})
      <4>1. \A ps : AtOf(phase, ps) \in Nat /\ AtOf(phase', ps) \in Nat
        BY <3>10, AtMoves
      <4> QED
        BY <4>1
    <3>3. P1 = P - 1
      BY <1>1, <3>10, <3>1, <3>2, AtMoves
    <3>4. A1 = A + 1
      <4>1. "sent" \in {"sent"} /\ phase[s] \notin {"sent"}
        BY <1>1
      <4> QED
        BY <3>10, <3>2, <4>1, AtMoves
    <3>5. E1 = E
      <4>1. "sent" \notin {"enqueueing"} /\ phase[s] \notin {"enqueueing"}
        BY <1>1
      <4>2. \A ps : "sent" \notin ps /\ phase[s] \notin ps
                     => AtOf(phase', ps) = AtOf(phase, ps)
        BY <3>10, AtMoves
      <4> QED
        BY <3>2, <4>1, <4>2
    <3>6. /\ metrics'["successfulSends"] = metrics["successfulSends"] + 1
          /\ \A c \in Counters \ {"successfulSends"} : metrics'[c] = metrics[c]
      BY <2>1 DEF Counting, Counters
    <3>7. Accounted(P, A, E, totalSends, metrics)
      BY <3>2, AccountByPhase
    <3>8. totalSends \in Nat /\ metrics \in [Counters -> Nat]
      BY DEF IInv, SharedInv, SendInv
    <3>9. Accounted(P1, A1, E1, totalSends', metrics')
      <4>1. PICK ok \in Nat, fl \in Nat :
              ok = metrics["successfulSends"] /\ fl = metrics["failedSends"]
        BY <3>8 DEF Counters
      <4>2. totalSends = P + ok + fl /\ ok = A
        BY <3>7, <4>1 DEF Accounted
      <4>3. totalSends = P1 + (ok + 1) + fl /\ ok + 1 = A1
        BY <3>3, <3>4, <4>2
      <4>4. /\ metrics'["failedSends"] = metrics["failedSends"]
            /\ metrics'["failedSendEntries"] = metrics["failedSendEntries"]
            /\ metrics'["dlqEnqueuedEntries"] = metrics["dlqEnqueuedEntries"]
            /\ metrics'["unretainedSendEntries"] = metrics["unretainedSendEntries"]
            /\ metrics'["deadlineExceeded"] = metrics["deadlineExceeded"]
            /\ metrics'["backpressureDeclines"] = metrics["backpressureDeclines"]
        BY <3>6 DEF Counters
      <4> QED
        BY <2>1, <3>5, <3>6, <3>7, <4>1, <4>3, <4>4 DEF Accounted
    <3> QED
      BY <3>2, <3>9, AccountByPhase
  <2>4. AckInv'
    BY <1>1, <2>1, <2>2 DEF AckInv
  <2> QED
    BY <2>3, <2>4
<1>3. CASE aborted[s] # "no"
  <2>1. Fails(s, "aborted") /\ acked' = acked /\ totalSends' = totalSends
    BY <1>3 DEF Succeed
  <2>2. AccountInv'
    BY <1>1, <2>1, GoesOnAccounts DEF GoesOn, FailsOnce
  <2>3. PICK q \in {"enqueueing", "failed"} :
          phase' = [phase EXCEPT ![s] = q] /\ aborted' = aborted
    BY <1>1, <2>1, FailsCounts
  <2>4. \A t \in Sends : phase'[t] = IF t = s THEN q ELSE phase[t]
    BY <1>1, <2>3 DEF SendInv
  <2>5. AckInv'
    BY <1>3, <2>1, <2>3, <2>4 DEF AckInv
  <2> QED
    BY <2>2, <2>5
<1> QED
  BY <1>2, <1>3

(* The dead letter queue took n entries of a failed batch: the others are  *)
(* counted as not retained.                                                *)
LEMMA EnqueuedKeeps ==
  ASSUME IInv, AccountInv, AckInv, NEW s \in Sends, NEW n \in 0 .. Size, Enqueued(s, n)
  PROVE  AccountInv' /\ AckInv'
<1>1. SendInv /\ phase[s] = "enqueueing" /\ "failed" \notin Pending /\ phase[s] \notin Pending
  BY DEF IInv, Enqueued, Pending, Sleeping, WithWire, Turns
<1>2. /\ phase' = [phase EXCEPT ![s] = "failed"] /\ acked' = acked
      /\ metrics' = [metrics EXCEPT !["dlqEnqueuedEntries"] = @ + n,
                                    !["unretainedSendEntries"] = @ + Size - n]
      /\ UNCHANGED <<aborted, totalSends>>
      /\ Changes(phase, phase', s, "failed")
  BY <1>1 DEF Enqueued, Goes, Changes, SendInv
<1>14. Changes(phase, phase', s, "failed")
  BY <1>2
<1>3. \A t \in Sends : phase'[t] = IF t = s THEN "failed" ELSE phase[t]
  BY <1>1, <1>2 DEF SendInv
<1>4. PICK P \in Nat, A \in Nat, E \in Nat, P1 \in Nat, A1 \in Nat, E1 \in Nat :
        /\ P = AtOf(phase, Pending) /\ P1 = AtOf(phase', Pending)
        /\ A = AtOf(phase, {"sent"}) /\ A1 = AtOf(phase', {"sent"})
        /\ E = AtOf(phase, {"enqueueing"}) /\ E1 = AtOf(phase', {"enqueueing"})
  <2>1. \A ps : AtOf(phase, ps) \in Nat /\ AtOf(phase', ps) \in Nat
    BY <1>14, AtMoves
  <2> QED
    BY <2>1
<1>5. P1 = P
  <2>1. "failed" \notin Pending /\ phase[s] \notin Pending
    BY <1>1
  <2> QED
    BY <1>14, <1>4, <2>1, AtMoves
<1>6. A1 = A
  <2>1. "failed" \notin {"sent"} /\ phase[s] \notin {"sent"}
    BY <1>1
  <2>2. \A ps : "failed" \notin ps /\ phase[s] \notin ps
                 => AtOf(phase', ps) = AtOf(phase, ps)
    BY <1>14, AtMoves
  <2> QED
    BY <1>4, <2>1, <2>2
<1>7. E1 = E - 1
  <2>1. "failed" \notin {"enqueueing"} /\ phase[s] \in {"enqueueing"}
    BY <1>1
  <2>2. \A ps : "failed" \notin ps /\ phase[s] \in ps
                 => AtOf(phase', ps) = AtOf(phase, ps) - 1
    BY <1>14, AtMoves
  <2> QED
    BY <1>4, <2>1, <2>2
<1>8. metrics \in [Counters -> Nat]
  BY DEF IInv, SendInv
<1>9. /\ metrics'["successfulSends"] = metrics["successfulSends"]
      /\ metrics'["failedSends"] = metrics["failedSends"]
      /\ metrics'["failedSendEntries"] = metrics["failedSendEntries"]
      /\ metrics'["deadlineExceeded"] = metrics["deadlineExceeded"]
      /\ metrics'["backpressureDeclines"] = metrics["backpressureDeclines"]
      /\ metrics'["dlqEnqueuedEntries"] = metrics["dlqEnqueuedEntries"] + n
      /\ metrics'["unretainedSendEntries"] = metrics["unretainedSendEntries"] + Size - n
  BY <1>2, <1>8 DEF Counters
<1>10. Accounted(P, A, E, totalSends, metrics)
  BY <1>4, AccountByPhase
<1>11. Accounted(P1, A1, E1, totalSends', metrics')
  <2>1. PICK dq \in Nat, un \in Nat, fe \in Nat :
          /\ dq = metrics["dlqEnqueuedEntries"] /\ un = metrics["unretainedSendEntries"]
          /\ fe = metrics["failedSendEntries"]
    BY <1>8 DEF Counters
  <2>2. fe = dq + un + Size * E
    BY <1>10, <2>1 DEF Accounted
  <2>3. \A x, y \in Nat : y = x - 1 => Size * y = Size * x - Size
    OBVIOUS
  <2>4. PICK x \in Int, x1 \in Int : x = Size * E /\ x1 = Size * E1 /\ x1 = x - Size
    BY <1>7, <2>3
  <2>5. fe = (dq + n) + (un + Size - n) + x1
    BY <2>2, <2>4
  <2>6. metrics'["failedSendEntries"] = metrics'["dlqEnqueuedEntries"]
          + metrics'["unretainedSendEntries"] + Size * E1
    BY <1>9, <2>1, <2>4, <2>5
  <2>7. totalSends' = totalSends
    BY <1>2
  <2> QED
    BY <1>5, <1>6, <1>9, <1>10, <2>6, <2>7 DEF Accounted
<1>12. AccountInv'
  BY <1>4, <1>11, AccountByPhase
<1>13. AckInv'
  BY <1>1, <1>2, <1>3 DEF AckInv
<1> QED
  BY <1>12, <1>13

(* An abort ends nothing by itself. *)
LEMMA AbortAccounts ==
  ASSUME IInv, AccountInv, AckInv, NEW ss, NEW why \in {"deadline", "closed"},
         Abort(ss, why), UNCHANGED <<totalSends, metrics, acked>>
  PROVE  AccountInv' /\ AckInv'
<1>1. \A t \in Sends :
        /\ phase'[t] = phase[t] \/ (phase[t] \in Sleeping /\ phase'[t] = "woken")
        /\ aborted[t] # "no" => aborted'[t] # "no"
  BY DEF Abort
<1>2. AccountInv'
  BY <1>1, SameAtKeeps DEF Pending, Sleeping, WithWire, Turns
<1>3. AckInv'
  BY <1>1 DEF AckInv, Sleeping
<1> QED
  BY <1>2, <1>3

(* Every step keeps the accounts. *)
LEMMA AccountsKeep == IInv /\ AccountInv /\ AckInv /\ [Next]_vars => AccountInv' /\ AckInv'
<1> SUFFICES ASSUME IInv, AccountInv, AckInv, [Next]_vars PROVE AccountInv' /\ AckInv'
  OBVIOUS
<1>1. ASSUME UNCHANGED <<phase, aborted, totalSends, metrics, acked>>
      PROVE  AccountInv' /\ AckInv'
  BY <1>1, SameAtKeeps DEF AckInv
<1>2. ASSUME NEW s \in Sends, Deadline(s)
      PROVE  AccountInv' /\ AckInv'
  BY <1>2, AbortAccounts DEF Deadline
<1>3. CASE Destroy
  BY <1>3, AbortAccounts DEF Destroy
<1>4. CASE Tick
  BY <1>1, <1>4 DEF Tick
<1>5. CASE UNCHANGED vars
  BY <1>1, <1>5 DEF vars, sends
<1> QED
  BY <1>2, <1>3, <1>4, <1>5, EarlyKeeps, RespondKeeps, SucceedKeeps, EnqueuedKeeps DEF Next

(* Nothing was sent, and nothing is counted. *)
LEMMA AccountsStart == Init => AccountInv /\ AckInv
<1> SUFFICES ASSUME Init PROVE AccountInv /\ AckInv
  OBVIOUS
<1>1. ASSUME NEW ps, "idle" \notin ps PROVE AtOf(phase, ps) = 0
  <2>1. {t \in Sends : phase[t] \in ps} = {}
    BY <1>1 DEF Init
  <2> QED
    BY <2>1, FS_EmptySet DEF AtOf
<1>2. AtOf(phase, Pending) = 0 /\ AtOf(phase, {"sent"}) = 0 /\ AtOf(phase, {"enqueueing"}) = 0
  BY <1>1 DEF Pending, Sleeping, WithWire, Turns
<1>3. Accounted(0, 0, 0, totalSends, metrics)
  BY DEF Accounted, Init, Counters
<1>4. AccountInv
  BY <1>2, <1>3, AccountByPhase
<1>5. AckInv
  BY DEF Init, AckInv
<1> QED
  BY <1>4, <1>5

(* However sends, refusals, deadlines, destroy() and the dead letter queue *)
(* interleave, every send is counted once, each entry of a failed batch as *)
(* retained or not, a failure with one cause at most; a success was        *)
(* acknowledged, and what was acknowledged fails only when aborted.        *)
THEOREM EveryBatchAccounted == Spec => []BatchesAccounted
<1>1. Init => IInv /\ AccountInv /\ AckInv
  BY InitEstablishes, AccountsStart
<1>2. IInv /\ AccountInv /\ AckInv /\ [Next]_vars => (IInv /\ AccountInv /\ AckInv)'
  BY StepKeeps, AccountsKeep
<1>3. AccountInv /\ AckInv => BatchesAccounted
  BY DEF AccountInv, Accounted, AckInv, BatchesAccounted
<1> QED
  BY <1>1, <1>2, <1>3, PTL DEF Spec

-----------------------------------------------------------------------------
(***************************************************************************)
(* The floor that an answer asks for: what RetryAfter.ts makes of the      *)
(* fields of any header against any clock.                                 *)
(***************************************************************************)
HIDE ResilientTransportAssumption DEF ResilientTransportAssumption

(* The number of a day is a number. *)
LEMMA DayTyped ==
  ASSUME NEW y \in Int, NEW m \in 1 .. 12, NEW d \in Int
  PROVE  DayNumber(y, m, d) \in Int
BY DEF DayNumber

(* The first of January is not after any other day of its year. *)
LEMMA YearBegins ==
  ASSUME NEW y \in Int, NEW m \in 1 .. 12, NEW d \in Nat \ {0}
  PROVE  DayNumber(y, 1, 1) <= DayNumber(y, m, d)
BY DEF DayNumber

(* The first of January of a later year is not before that of the next. *)
LEMMA YearOrder ==
  ASSUME NEW y \in Int, NEW z \in Int, y < z
  PROVE  DayNumber(y + 1, 1, 1) <= DayNumber(z, 1, 1)
BY DEF DayNumber

(* A time of an earlier day is earlier than any of a later day. *)
LEMMA LaterDay ==
  ASSUME NEW a \in Int, NEW b \in Int, a < b, NEW k \in Nat,
         NEW s \in 0 .. k - 1, NEW t \in Nat
  PROVE  a * k + s < b * k + t
<1>1. PICK c \in Nat : b = a + 1 + c
  <2>1. b - a - 1 \in Nat /\ b = a + 1 + (b - a - 1)
    OBVIOUS
  <2> QED
    BY <2>1
<1>2. b * k = a * k + k + c * k
  BY <1>1
<1>3. c * k \in Nat
  OBVIOUS
<1> QED
  BY <1>2, <1>3

(* Only a 29 February is in some years past the end of its month, and in   *)
(* others not.                                                             *)
LEMMA ShortMonths ==
  ASSUME NEW y \in Int, NEW z \in Int, NEW m \in 1 .. 12, NEW d \in 1 .. 31,
         ~(m = 2 /\ d = 29),
         DayNumber(y, m, d) < IF m = 12 THEN DayNumber(y + 1, 1, 1) ELSE DayNumber(y, m + 1, 1)
  PROVE  DayNumber(z, m, d) < IF m = 12 THEN DayNumber(z + 1, 1, 1) ELSE DayNumber(z, m + 1, 1)
BY DEF DayNumber

(* What a field that is a date is made of. *)
LEMMA DatePart ==
  ASSUME NEW f \in DateFields
  PROVE  /\ f.kind = "date"
         /\ f.year \in Nat /\ (f.form = "obsolete" => f.year \in 0 .. 99)
         /\ f.month \in 1 .. 12 /\ f.day \in Nat /\ f.tick \in Nat
<1>1. CASE f \in Written({"imf", "asctime"}, Nat)
  <2>1. f.kind = "date" /\ f.form # "obsolete"
    BY <1>1 DEF Written
  <2>2. f.year \in Nat /\ f.month \in 1 .. 12 /\ f.day \in 0 .. 99 /\ f.tick \in Nat
    BY <1>1 DEF Written
  <2>3. f.day \in Nat
    BY <2>2
  <2> QED
    BY <2>1, <2>2, <2>3
<1>2. CASE f \in Written({"obsolete"}, 0 .. 99)
  <2>1. f.kind = "date"
    BY <1>2 DEF Written
  <2>2. f.year \in 0 .. 99 /\ f.month \in 1 .. 12 /\ f.day \in 0 .. 99 /\ f.tick \in Nat
    BY <1>2 DEF Written
  <2>3. f.year \in Nat /\ f.day \in Nat
    BY <2>2
  <2> QED
    BY <2>1, <2>2, <2>3
<1> QED
  BY <1>1, <1>2 DEF DateFields

(* The first days of two years have numbers. *)
LEMMA FirstDays ==
  ASSUME NEW y \in Int
  PROVE  y + 1 \in Int /\ DayNumber(y, 1, 1) \in Int /\ DayNumber(y + 1, 1, 1) \in Int
<1>1. y + 1 \in Int /\ 1 \in 1 .. 12 /\ 1 \in Int
  OBVIOUS
<1> QED
  BY <1>1, DayTyped

(* So has the day of any date. *)
LEMMA DayOf ==
  ASSUME NEW y \in Int, NEW g, g.month \in 1 .. 12, g.day \in Nat
  PROVE  \E a \in Int : a = DayNumber(y, g.month, g.day)
<1>1. g.day \in Int
  OBVIOUS
<1>2. DayNumber(y, g.month, g.day) \in Int
  BY <1>1, DayTyped
<1> QED
  BY <1>2

(* A date that exists is before the next year. *)
LEMMA ExistsBefore ==
  ASSUME NEW y \in Int, NEW f, f.month \in 1 .. 12, Exists(y, f)
  PROVE  /\ f.day \in 1 .. 31 /\ f.day \in Nat
         /\ DayNumber(y, f.month, f.day) < DayNumber(y + 1, 1, 1)
<1>1. f.day \in 1 .. 31 /\ f.day \in Nat
  BY DEF Exists
<1>2. PICK m \in 1 .. 12, d \in 1 .. 31 : m = f.month /\ d = f.day
  BY <1>1
<1>3. DayNumber(y, m, d) < IF m = 12 THEN DayNumber(y + 1, 1, 1) ELSE DayNumber(y, m + 1, 1)
  BY <1>2 DEF Exists
<1>4. DayNumber(y, m, d) < DayNumber(y + 1, 1, 1)
  BY <1>3 DEF DayNumber
<1> QED
  BY <1>1, <1>2, <1>4

(* A date of an earlier year is earlier, whatever the times of day. *)
LEMMA EarlierYear ==
  ASSUME NEW y \in Int, NEW z \in Int, y < z,
         NEW f, f.month \in 1 .. 12, f.tick \in 0 .. TicksPerDay - 1,
         f.day \in Nat, DayNumber(y, f.month, f.day) < DayNumber(y + 1, 1, 1),
         NEW g, g.month \in 1 .. 12, g.day \in Nat \ {0}, g.tick \in Nat
  PROVE  Instant(y, f) < Instant(z, g)
<1>1. PICK a \in Int : a = DayNumber(y, f.month, f.day)
  BY DayOf
<1>2. PICK m \in 1 .. 12, d \in Nat \ {0} : m = g.month /\ d = g.day
  OBVIOUS
<1>3. PICK b \in Int : b = DayNumber(z, m, d)
  <2>1. d \in Int
    OBVIOUS
  <2>2. DayNumber(z, m, d) \in Int
    BY <2>1, DayTyped
  <2> QED
    BY <2>2
<1>4. DayNumber(y + 1, 1, 1) <= DayNumber(z, 1, 1)
  BY YearOrder
<1>5. DayNumber(y + 1, 1, 1) \in Int /\ DayNumber(z, 1, 1) \in Int
  BY FirstDays
<1>6. DayNumber(z, 1, 1) <= b
  BY <1>3, YearBegins
<1>7. a < b
  BY <1>1, <1>4, <1>5, <1>6
<1>8. a * TicksPerDay + f.tick < b * TicksPerDay + g.tick
  BY <1>7, LaterDay, RetryAfterAssumption
<1> QED
  BY <1>1, <1>2, <1>3, <1>8 DEF Instant

(* An existing date of the year x, moved to the year u, is before the end  *)
(* of u, 29 February included.                                             *)
LEMMA MovedBefore ==
  ASSUME NEW x \in Int, NEW u \in Int, NEW g, g.month \in 1 .. 12, Exists(x, g)
  PROVE  /\ g.day \in Nat /\ g.day \in 1 .. 31
         /\ DayNumber(u, g.month, g.day) < DayNumber(u + 1, 1, 1)
<1>1. g.day \in 1 .. 31 /\ g.day \in Nat
  BY DEF Exists
<1>2. PICK m \in 1 .. 12, d \in 1 .. 31 : m = g.month /\ d = g.day
  BY <1>1
<1>3. DayNumber(x, m, d) <
        IF m = 12 THEN DayNumber(x + 1, 1, 1) ELSE DayNumber(x, m + 1, 1)
  BY <1>2 DEF Exists
<1>4. DayNumber(u, m, d) < DayNumber(u + 1, 1, 1)
  BY <1>3 DEF DayNumber
<1> QED
  BY <1>1, <1>2, <1>4

(* An instant is a number. *)
LEMMA InstantTyped ==
  ASSUME NEW y \in Int, NEW g, g.month \in 1 .. 12, g.day \in Nat, g.tick \in Nat
  PROVE  Instant(y, g) \in Int
<1>1. PICK a \in Int : a = DayNumber(y, g.month, g.day)
  BY DayOf
<1>2. a * TicksPerDay + g.tick \in Int
  BY RetryAfterAssumption
<1> QED
  BY <1>1, <1>2 DEF Instant

(* The limit of fifty years: later than every date of an earlier year, and *)
(* earlier than every date of a later one.                                 *)
LEMMA LimitYear ==
  ASSUME wall \in Clocks, NEW y \in Int,
         NEW f, f.month \in 1 .. 12, f.tick \in 0 .. TicksPerDay - 1,
         f.day \in Nat \ {0}
  PROVE  /\ FutureLimit \in Int /\ Instant(y, f) \in Int
         /\ y < wall.year + 50 /\ Exists(y, f) => Instant(y, f) < FutureLimit
         /\ y > wall.year + 50 => FutureLimit < Instant(y, f)
<1>1. /\ wall.year \in Int /\ wall.month \in 1 .. 12 /\ wall.day \in Nat \ {0}
      /\ wall.tick \in 0 .. TicksPerDay - 1 /\ Exists(wall.year, wall)
  BY DEF Clocks
<1>2. PICK g, x, u : g = wall /\ x = wall.year /\ u = wall.year + 50
  OBVIOUS
<1>3. /\ g.month \in 1 .. 12 /\ g.day \in Nat \ {0}
      /\ g.tick \in 0 .. TicksPerDay - 1 /\ g.tick \in Nat
      /\ x \in Int /\ u \in Int /\ Exists(x, g)
  BY <1>1, <1>2, RetryAfterAssumption
<1>4. FutureLimit = Instant(u, g)
  BY <1>2 DEF FutureLimit
<1>5. f.tick \in Nat
  BY RetryAfterAssumption
<1>6. Instant(u, g) \in Int /\ Instant(y, f) \in Int
  BY <1>3, <1>5, InstantTyped
<1>7. y < u /\ Exists(y, f) => Instant(y, f) < Instant(u, g)
  BY <1>3, ExistsBefore, EarlierYear
<1>8. u < y => Instant(u, g) < Instant(y, f)
  BY <1>3, <1>5, MovedBefore, EarlierYear
<1> QED
  BY <1>2, <1>3, <1>4, <1>6, <1>7, <1>8

(* The candidate has the digits of the field and is the last such year     *)
(* before or in that of the limit.                                         *)
LEMMA CandidateYear ==
  ASSUME wall \in Clocks, NEW f \in DateFields
  PROVE  /\ Candidate(f) \in Int
         /\ f.form # "obsolete" => Candidate(f) = f.year
         /\ f.form = "obsolete" =>
              /\ Candidate(f) % 100 = f.year
              /\ Candidate(f) <= wall.year + 50 /\ Candidate(f) > wall.year - 50
<1>1. wall.year \in Nat
  BY DEF Clocks
<1>2. PICK u \in Int : u = wall.year + 50
  BY <1>1
<1>3. CASE f.form # "obsolete"
  BY <1>3, DatePart DEF Candidate
<1>4. CASE f.form = "obsolete"
  <2>1. PICK n \in 0 .. 99 : n = f.year
    BY <1>4, DatePart
  <2>2. PICK c \in Int : c = n + (u \div 100) * 100
    OBVIOUS
  <2>3. PICK d \in Int : d = IF c > u THEN c - 100 ELSE c
    OBVIOUS
  <2>4. d % 100 = n /\ d <= u /\ d > u - 100
    BY <2>2, <2>3
  <2>5. Candidate(f) = d
    BY <1>2, <1>4, <2>1, <2>2, <2>3 DEF Candidate
  <2> QED
    BY <1>1, <1>2, <1>4, <2>1, <2>4, <2>5
<1> QED
  BY <1>3, <1>4

(* What httpDate() makes of a field is the date it means. *)
LEMMA FullYearMeant ==
  ASSUME wall \in Clocks, NEW f \in DateFields, NEW t \in HttpDate(f)
  PROVE  FullYear(f) \in Meant(f) /\ t = Instant(FullYear(f), f)
<1>1. /\ t = Instant(FullYear(f), f)
      /\ f.tick < TicksPerDay /\ Exists(Candidate(f), f) /\ Exists(FullYear(f), f)
      /\ Weekday(DayNumber(FullYear(f), f.month, f.day)) = f.weekday
  BY DEF HttpDate
<1>2. CASE f.form # "obsolete"
  <2>1. FullYear(f) = f.year
    BY <1>2, CandidateYear DEF FullYear
  <2> QED
    BY <1>1, <1>2, <2>1 DEF Meant
<1>3. CASE f.form = "obsolete"
  <2>1. PICK w \in Nat : w = wall.year
    BY DEF Clocks
  <2>2. PICK c \in Int : c = Candidate(f)
    BY CandidateYear
  <2>3. c % 100 = f.year /\ c <= w + 50 /\ c > w - 50
    BY <1>3, <2>1, <2>2, CandidateYear
  <2>4. FullYear(f) = IF Instant(c, f) > FutureLimit THEN c - 100 ELSE c
    BY <1>3, <2>2 DEF FullYear
  <2>5. /\ f.month \in 1 .. 12 /\ f.day \in Nat \ {0} /\ f.tick \in 0 .. TicksPerDay - 1
        /\ f.tick \in Nat
    <3>1. f.month \in 1 .. 12 /\ f.tick \in Nat
      BY DatePart
    <3>2. f.day \in Nat \ {0}
      BY <1>1 DEF Exists
    <3> QED
      BY <1>1, <3>1, <3>2, RetryAfterAssumption
  <2>6. /\ FutureLimit \in Int /\ Instant(c, f) \in Int
        /\ c < w + 50 /\ Exists(c, f) => Instant(c, f) < FutureLimit
    BY <2>1, <2>5, LimitYear
  <2>7. Exists(c, f)
    BY <1>1, <2>2
  <2>8. PICK limit \in Int, i \in Int : limit = FutureLimit /\ i = Instant(c, f)
    BY <2>6
  <2>9. c < w + 50 => i < limit
    BY <2>6, <2>7, <2>8
  <2>10. CASE i > limit
    <3>1. PICK year \in Int : year = c - 100
      OBVIOUS
    <3>2. FullYear(f) = year /\ year + 100 = c
      BY <2>4, <2>8, <2>10, <3>1
    <3>3. c = w + 50
      BY <2>3, <2>9, <2>10
    <3>4. year < w + 50 /\ year \in w - 50 .. w + 50 /\ year % 100 = f.year
      BY <2>3, <3>1, <3>3
    <3>5. Exists(year, f)
      BY <1>1, <3>2
    <3>6. PICK k \in Int : k = Instant(year, f) /\ k < limit
      <4>1. /\ Instant(year, f) \in Int
            /\ year < w + 50 /\ Exists(year, f) => Instant(year, f) < FutureLimit
        BY <2>1, <2>5, LimitYear
      <4> QED
        BY <2>8, <3>4, <3>5, <4>1
    <3>7. k <= limit
      BY <3>6
    <3> QED
      BY <1>1, <1>3, <2>1, <2>8, <2>10, <3>2, <3>4, <3>6, <3>7 DEF Meant
  <2>11. CASE ~(i > limit)
    <3>1. FullYear(f) = c
      BY <2>4, <2>8, <2>11
    <3>2. i <= limit
      BY <2>11
    <3>3. PICK later \in Int : later = c + 100
      OBVIOUS
    <3>4. later > w + 50 /\ c \in w - 50 .. w + 50
      BY <2>3, <3>3
    <3>5. PICK k \in Int : k = Instant(later, f) /\ limit < k
      <4>1. /\ Instant(later, f) \in Int
            /\ later > w + 50 => FutureLimit < Instant(later, f)
        BY <2>1, <2>5, LimitYear
      <4> QED
        BY <2>8, <3>4, <4>1
    <3>6. k > limit
      BY <3>5
    <3> QED
      BY <1>1, <1>3, <2>1, <2>3, <2>8, <3>1, <3>2, <3>3, <3>4, <3>5, <3>6 DEF Meant
  <2> QED
    BY <2>10, <2>11
<1> QED
  BY <1>2, <1>3

(* A date that a field means is what httpDate() makes of it, but for a     *)
(* 29 February of two digits.                                              *)
LEMMA MeantIsParsed ==
  ASSUME wall \in Clocks, NEW f \in DateFields, Certain(f), NEW y \in Meant(f)
  PROVE  Instant(y, f) \in HttpDate(f)
<1>1. /\ f.tick < TicksPerDay /\ Exists(y, f)
      /\ Weekday(DayNumber(y, f.month, f.day)) = f.weekday
  BY DEF Meant
<1>2. CASE f.form # "obsolete"
  <2>1. y = f.year
    BY <1>2 DEF Meant
  <2>2. FullYear(f) = f.year /\ Candidate(f) = f.year
    BY <1>2, CandidateYear DEF FullYear
  <2> QED
    BY <1>1, <2>1, <2>2 DEF HttpDate
<1>3. CASE f.form = "obsolete"
  <2>1. PICK w \in Nat : w = wall.year
    BY DEF Clocks
  <2>2. PICK c \in Int : c = Candidate(f)
    BY CandidateYear
  <2>3. c % 100 = f.year /\ c <= w + 50 /\ c > w - 50
    BY <1>3, <2>1, <2>2, CandidateYear
  <2>4. FullYear(f) = IF Instant(c, f) > FutureLimit THEN c - 100 ELSE c
    BY <1>3, <2>2 DEF FullYear
  <2>5. /\ y \in w - 50 .. w + 50 /\ y \in Int
        /\ y % 100 = f.year
        /\ Instant(y, f) <= FutureLimit
        /\ Instant(y + 100, f) > FutureLimit
    BY <1>3, <2>1 DEF Meant
  <2>6. c = y \/ c = y + 100
    BY <2>3, <2>5
  <2>7. PICK m \in 1 .. 12, d \in 1 .. 31 : m = f.month /\ d = f.day
    BY <1>1, DatePart DEF Exists
  <2>8. ~(m = 2 /\ d = 29)
    BY <1>3, <2>7, DatePart DEF Certain
  <2>9. Exists(c, f)
    <3>1. DayNumber(y, m, d) < IF m = 12 THEN DayNumber(y + 1, 1, 1) ELSE DayNumber(y, m + 1, 1)
      BY <1>1, <2>7 DEF Exists
    <3>2. DayNumber(c, m, d) < IF m = 12 THEN DayNumber(c + 1, 1, 1) ELSE DayNumber(c, m + 1, 1)
      BY <2>5, <2>8, <3>1, ShortMonths
    <3> QED
      BY <2>7, <3>2 DEF Exists
  <2>10. FullYear(f) = y
    <3>1. Instant(y, f) \in Int /\ FutureLimit \in Int
      <4>1. /\ f.month \in 1 .. 12 /\ f.day \in Nat \ {0} /\ f.tick \in 0 .. TicksPerDay - 1
        <5>1. f.month \in 1 .. 12 /\ f.tick \in Nat
          BY DatePart
        <5>2. PICK tick \in Nat : tick = f.tick /\ tick < TicksPerDay
          BY <1>1, <5>1
        <5>3. tick \in 0 .. TicksPerDay - 1
          BY <5>2, RetryAfterAssumption
        <5>4. d \in Nat \ {0}
          OBVIOUS
        <5> QED
          BY <2>7, <5>1, <5>2, <5>3, <5>4
      <4> QED
        BY <2>5, <4>1, LimitYear
    <3>2. CASE c = y
      BY <2>4, <2>5, <3>1, <3>2
    <3>3. CASE c = y + 100
      <4>1. FullYear(f) = c - 100
        BY <2>4, <2>5, <3>3
      <4> QED
        BY <2>5, <3>3, <4>1
    <3> QED
      BY <2>6, <3>2, <3>3
  <2> QED
    BY <1>1, <2>2, <2>9, <2>10 DEF HttpDate
<1> QED
  BY <1>2, <1>3

-----------------------------------------------------------------------------
(* The lesser of two numbers, ... *)
LEMMA MinOfTwo ==
  ASSUME NEW a \in Int, NEW b \in Int
  PROVE  Min({a, b}) = IF a <= b THEN a ELSE b
<1>1. CASE a <= b
  BY <1>1 DEF Min
<1>2. CASE ~(a <= b)
  BY <1>2 DEF Min
<1> QED
  BY <1>1, <1>2

(* ... and the greater. *)
LEMMA MaxOfTwo ==
  ASSUME NEW a \in Int, NEW b \in Int
  PROVE  Max({a, b}) = IF a >= b THEN a ELSE b
<1>1. CASE a >= b
  BY <1>1 DEF Max
<1>2. CASE ~(a >= b)
  BY <1>2 DEF Max
<1> QED
  BY <1>1, <1>2

(* One index more. *)
LEMMA OneMore ==
  ASSUME NEW n \in Nat, NEW j \in 0 .. n, NEW k, k = j + 1
  PROVE  1 .. k = (1 .. j) \union {k}
OBVIOUS

(* The greatest of finitely many naturals, of which each of n sets has one *)
(* at most.                                                                *)
LEMMA GreatestOfMany ==
  ASSUME NEW n \in Nat, NEW F \in [1 .. n -> SUBSET Nat],
         \A i \in 1 .. n : \A x, y \in F[i] : x = y,
         UNION {F[i] : i \in 1 .. n} # {}
  PROVE  /\ Max(UNION {F[i] : i \in 1 .. n}) \in UNION {F[i] : i \in 1 .. n}
         /\ \A x \in UNION {F[i] : i \in 1 .. n} : Max(UNION {F[i] : i \in 1 .. n}) >= x
<1> DEFINE U(k) == UNION {F[i] : i \in 1 .. k}
           Has(k) == U(k) = {} \/ \E x \in U(k) : \A y \in U(k) : x >= y
           Bad == {k \in 0 .. n : ~Has(k)}
<1>1. Bad = {}
  <2> SUFFICES ASSUME Bad # {} PROVE FALSE
    OBVIOUS
  <2>1. Bad \subseteq Nat
    OBVIOUS
  <2>2. PICK k \in Bad : \A j \in Bad : k <= j
    <3> HIDE DEF Bad
    <3> QED
      BY <2>1, LeastNatural
  <2>3. k \in 0 .. n /\ ~Has(k)
    OBVIOUS
  <2>4. k # 0
    <3>1. U(0) = {}
      OBVIOUS
    <3> QED
      BY <2>3, <3>1
  <2>5. PICK j \in 0 .. n : k = j + 1
    <3>1. k - 1 \in 0 .. n /\ k = (k - 1) + 1
      BY <2>3, <2>4
    <3> QED
      BY <3>1
  <2>6. Has(j)
    <3>1. ~(k <= j)
      BY <2>3, <2>5
    <3> QED
      BY <2>2, <3>1
  <2>7. U(k) = U(j) \union F[k]
    <3>1. 1 .. k = (1 .. j) \union {k}
      BY <2>5, OneMore
    <3>2. \A x : x \in U(k) <=> \E i \in 1 .. k : x \in F[i]
      OBVIOUS
    <3>3. \A x : x \in U(j) <=> \E i \in 1 .. j : x \in F[i]
      OBVIOUS
    <3> HIDE DEF U
    <3> QED
      BY <3>1, <3>2, <3>3
  <2>8. F[k] \subseteq Nat /\ U(j) \subseteq Nat /\ \A x, y \in F[k] : x = y
    <3>1. k \in 1 .. n /\ 1 .. j \subseteq 1 .. n
      BY <2>3, <2>5
    <3> QED
      BY <3>1
  <2> HIDE DEF U
  <2>9. Has(k)
    <3>1. CASE F[k] = {}
      BY <2>6, <2>7, <3>1
    <3>2. CASE F[k] # {}
      <4>1. PICK x \in F[k] : TRUE
        BY <3>2
      <4>2. F[k] = {x} /\ x \in Nat
        BY <2>8, <4>1
      <4>3. CASE U(j) = {}
        BY <2>7, <4>2, <4>3
      <4>4. CASE U(j) # {}
        <5>1. PICK z \in U(j) : \A y \in U(j) : z >= y
          BY <2>6, <4>4
        <5>2. z \in Nat
          BY <2>8
        <5>3. CASE z >= x
          BY <2>7, <4>2, <5>1, <5>3
        <5>4. CASE ~(z >= x)
          <6>1. \A y \in U(j) : x >= y
            BY <2>8, <4>2, <5>1, <5>2, <5>4
          <6> QED
            BY <2>7, <4>2, <6>1
        <5> QED
          BY <5>3, <5>4
      <4> QED
        BY <4>3, <4>4
    <3> QED
      BY <3>1, <3>2
  <2> QED
    BY <2>3, <2>9
<1>2. n \in 0 .. n
  OBVIOUS
<1>3. Has(n)
  BY <1>1, <1>2
<1>4. U(n) # {}
  OBVIOUS
<1> HIDE DEF U
<1>5. \E x \in U(n) : \A y \in U(n) : x >= y
  BY <1>3, <1>4
<1>6. Max(U(n)) \in U(n) /\ \A y \in U(n) : Max(U(n)) >= y
  BY <1>5 DEF Max
<1> QED
  BY <1>6 DEF U

(* A field is of one of three kinds. *)
LEMMA FieldKinds ==
  ASSUME NEW f \in Fields
  PROVE  \/ f.kind = "other"
         \/ f.kind = "seconds" /\ f.n \in Nat
         \/ f.kind = "date" /\ f \in DateFields
<1>1. CASE f \in [kind : {"other"}]
  BY <1>1
<1>2. CASE f \in [kind : {"seconds"}, n : Nat]
  BY <1>2
<1>3. CASE f \in DateFields
  BY <1>3, DatePart
<1> QED
  BY <1>1, <1>2, <1>3 DEF Fields

(* What is expected of the delays of one field. *)
Fits(f) ==
  /\ Delay(f) \subseteq Nat
  /\ \A d, e \in Delay(f) : d = e
  /\ \A d \in Delay(f) : \E a \in Asked(f) : Min({d, Infinite}) = Min({a, Infinite})
  /\ Certain(f) =>
       \A a \in Asked(f) :
         a \in Int /\ \E d \in Delay(f) : d >= Min({a, Infinite})

(* The instant that the wall clock shows is a number. *)
LEMMA NowTyped ==
  ASSUME wall \in Clocks
  PROVE  Instant(wall.year, wall) \in Int
<1>1. /\ wall.year \in Int /\ wall.month \in 1 .. 12 /\ wall.day \in Nat
      /\ wall.tick \in 0 .. TicksPerDay - 1
  BY DEF Clocks
<1>2. wall.tick \in Nat
  BY <1>1, RetryAfterAssumption
<1> QED
  BY <1>1, <1>2, InstantTyped

(* So is the delay that is never over. *)
LEMMA InfiniteTyped == Infinite \in Nat
BY RetryAfterAssumption DEF Infinite

(* A number of seconds is what it asks for. *)
LEMMA SecondsFit ==
  ASSUME NEW f, f.kind = "seconds", f.n \in Nat
  PROVE  Fits(f)
<1>1. PICK a \in Nat : a = f.n * TicksPerSecond
  BY RetryAfterAssumption
<1>2. PICK top \in Nat : top = Infinite
  BY InfiniteTyped
<1>3. PICK d \in Nat : d = IF a <= top THEN a ELSE top
  OBVIOUS
<1>4. Min({a, top}) = d
  BY <1>3, MinOfTwo
<1>5. Min({d, top}) = d
  BY <1>3, MinOfTwo
<1>6. Delay(f) = {d}
  BY <1>1, <1>2, <1>4 DEF Delay
<1>7. Asked(f) = {a}
  BY <1>1 DEF Asked
<1>8. a \in Int /\ d >= d
  OBVIOUS
<1> QED
  BY <1>2, <1>4, <1>5, <1>6, <1>7, <1>8 DEF Fits

(* A field that is not valid asks for nothing. *)
LEMMA OthersFit ==
  ASSUME NEW f, f.kind = "other"
  PROVE  Fits(f)
<1>1. Delay(f) = {} /\ Asked(f) = {}
  BY DEF Delay, Asked
<1> QED
  BY <1>1 DEF Fits

(* A date asks for the delay until the one it means. *)
LEMMA DatesFit ==
  ASSUME wall \in Clocks, NEW f \in DateFields
  PROVE  Fits(f)
<1>1. PICK now \in Int : now = Instant(wall.year, wall)
  BY NowTyped
<1>2. /\ Delay(f) = {Max({t - now, 0}) : t \in HttpDate(f)}
      /\ Asked(f) = {Max({Instant(y, f) - now, 0}) : y \in Meant(f)}
  BY <1>1, DatePart DEF Delay, Asked
<1>3. PICK top \in Nat : top = Infinite
  BY InfiniteTyped
<1>4. ASSUME NEW t \in Int
      PROVE  Max({t - now, 0}) \in Nat
  <2>1. PICK x \in Int : x = t - now
    OBVIOUS
  <2>2. Max({x, 0}) = IF x >= 0 THEN x ELSE 0
    BY MaxOfTwo
  <2> QED
    BY <2>1, <2>2
<1>5. ASSUME NEW y \in Meant(f)
      PROVE  Instant(y, f) \in Int
  <2>1. y \in Int
    <3>1. f.year \in Int /\ wall.year \in Int
      BY DatePart DEF Clocks
    <3> QED
      BY <3>1 DEF Meant
  <2> QED
    BY <2>1, DatePart, InstantTyped
<1>6. ASSUME NEW t \in HttpDate(f)
      PROVE  t \in Int
  BY <1>5, FullYearMeant
<1>7. Delay(f) \subseteq Nat
  BY <1>2, <1>4, <1>6
<1>8. \A d, e \in Delay(f) : d = e
  BY <1>2 DEF HttpDate
<1>9. \A d \in Delay(f) : d \in Asked(f)
  BY <1>2, FullYearMeant
<1>10. ASSUME Certain(f), NEW a \in Asked(f)
       PROVE  a \in Int /\ \E d \in Delay(f) : d >= Min({a, Infinite})
  <2>1. a \in Delay(f)
    BY <1>2, <1>10, MeantIsParsed
  <2>2. a \in Int
    BY <1>7, <2>1
  <2>3. Min({a, top}) = IF a <= top THEN a ELSE top
    BY <2>2, MinOfTwo
  <2>4. a >= Min({a, top})
    BY <2>2, <2>3
  <2> QED
    BY <1>3, <2>1, <2>2, <2>4
<1> QED
  BY <1>7, <1>8, <1>9, <1>10 DEF Fits

(* So every field fits. *)
LEMMA FieldsFit ==
  ASSUME wall \in Clocks, NEW f \in Fields
  PROVE  Fits(f)
BY FieldKinds, OthersFit, SecondsFit, DatesFit

(* The fields that are looked at. *)
LEMMA LookedFields ==
  ASSUME NEW header \in Headers
  PROVE  /\ Looked(header) \subseteq Fields
         /\ \E n \in Nat : Looked(header) = {header[i] : i \in 1 .. n}
<1>1. header \in Seq(Fields)
  BY RetryAfterAssumption
<1>2. Len(header) \in Nat /\ \A i \in 1 .. Len(header) : header[i] \in Fields
  BY <1>1, LenProperties, ElementOfSeq
<1>3. PICK n \in Nat : n = Min({Len(header), 8}) /\ n <= Len(header)
  <2>1. PICK k \in Nat : k = Len(header)
    BY <1>2
  <2>2. Min({k, 8}) = IF k <= 8 THEN k ELSE 8
    BY MinOfTwo
  <2> QED
    BY <2>1, <2>2
<1>4. Looked(header) = {header[i] : i \in 1 .. n}
  BY <1>3 DEF Looked
<1>5. Looked(header) \subseteq Fields
  <2>1. \A i \in 1 .. n : i \in 1 .. Len(header)
    BY <1>2, <1>3
  <2> QED
    BY <1>2, <1>4, <2>1
<1> QED
  BY <1>4, <1>5

(* The greatest of the delays of the fields that are looked at. *)
LEMMA GreatestDelay ==
  ASSUME wall \in Clocks, NEW header \in Headers,
         UNION {Delay(f) : f \in Looked(header)} # {}
  PROVE  LET delays == UNION {Delay(f) : f \in Looked(header)}
         IN  /\ Max(delays) \in delays /\ delays \subseteq Nat
             /\ \A d \in delays : Max(delays) >= d
<1>1. PICK n \in Nat : Looked(header) = {header[i] : i \in 1 .. n}
  BY LookedFields
<1> DEFINE F == [i \in 1 .. n |-> Delay(header[i])]
           delays == UNION {Delay(f) : f \in Looked(header)}
<1>2. \A i \in 1 .. n : header[i] \in Fields
  BY <1>1, LookedFields
<1>3. ASSUME NEW i \in 1 .. n
      PROVE  Delay(header[i]) \subseteq Nat /\ \A x, y \in Delay(header[i]) : x = y
  <2>1. Fits(header[i])
    BY <1>2, FieldsFit
  <2> QED
    BY <2>1 DEF Fits
<1>4. F \in [1 .. n -> SUBSET Nat] /\ \A i \in 1 .. n : \A x, y \in F[i] : x = y
  BY <1>3
<1>5. UNION {F[i] : i \in 1 .. n} = delays
  BY <1>1
<1>6. delays \subseteq Nat
  BY <1>4, <1>5
<1>7. delays # {}
  OBVIOUS
<1> HIDE DEF F, delays
<1>8. Max(delays) \in delays /\ \A d \in delays : Max(delays) >= d
  BY <1>4, <1>5, <1>7, GreatestOfMany
<1> QED
  BY <1>6, <1>8 DEF delays

(* Whatever the wall clock shows, and whatever Retry-After fields an answer *)
(* has, retryAfterNotBefore() allows no request earlier than any of those  *)
(* it looks at asks, and holds none back longer than the one that asks for *)
(* most: a year of two digits is the one within fifty years of now on      *)
(* either side of the turn of a century.                                   *)
THEOREM FieldsHonoured == wall \in Clocks => AsksHonoured
<1> SUFFICES ASSUME wall \in Clocks PROVE AsksHonoured
  OBVIOUS
<1>1. PICK top \in Nat : top = Infinite
  BY InfiniteTyped
<1>2. ASSUME NEW header \in Headers, NEW f \in Looked(header)
      PROVE  Fits(f)
  BY LookedFields, FieldsFit
<1>3. LateEnough
  <2> SUFFICES ASSUME NEW header \in Headers,
                      NEW a \in AskedBy({f \in Looked(header) : Certain(f)})
               PROVE  \E t \in NotBefore(header, 0) : t >= Min({a, Infinite})
    BY DEF LateEnough
  <2>1. PICK f \in Looked(header) : Certain(f) /\ a \in Asked(f)
    BY DEF AskedBy
  <2>2. a \in Int /\ \E d \in Delay(f) : d >= Min({a, Infinite})
    BY <1>2, <2>1 DEF Fits
  <2>3. PICK d \in Delay(f) : d >= Min({a, Infinite})
    BY <2>2
  <2> DEFINE delays == UNION {Delay(g) : g \in Looked(header)}
  <2>4. d \in delays
    OBVIOUS
  <2>5. /\ Max(delays) \in delays /\ delays \subseteq Nat
        /\ \A e \in delays : Max(delays) >= e
    BY <2>4, GreatestDelay
  <2>6. NotBefore(header, 0) = {Min({0 + Max(delays), Infinite})}
    BY <2>4 DEF NotBefore
  <2> HIDE DEF delays
  <2>7. PICK m \in Nat : m = Max(delays)
    BY <2>5
  <2>8. d \in Nat /\ m >= d
    BY <2>4, <2>5, <2>7
  <2>9. Min({a, top}) = IF a <= top THEN a ELSE top
    BY <2>2, MinOfTwo
  <2>10. Min({m, top}) = IF m <= top THEN m ELSE top
    BY MinOfTwo
  <2>11. 0 + m = m
    OBVIOUS
  <2>12. Min({m, top}) >= Min({a, top})
    BY <1>1, <2>2, <2>3, <2>8, <2>9, <2>10
  <2> QED
    BY <1>1, <2>6, <2>7, <2>11, <2>12
<1>4. NoLater
  <2> SUFFICES ASSUME NEW header \in Headers, NEW t \in NotBefore(header, 0)
               PROVE  \E a \in AskedBy(Looked(header)) : t = Min({a, Infinite})
    BY DEF NoLater
  <2> DEFINE delays == UNION {Delay(g) : g \in Looked(header)}
  <2>1. delays # {} /\ t = Min({0 + Max(delays), Infinite})
    BY DEF NotBefore
  <2>2. Max(delays) \in delays /\ delays \subseteq Nat
    BY <2>1, GreatestDelay
  <2>3. PICK f \in Looked(header) : Max(delays) \in Delay(f)
    BY <2>2
  <2>4. PICK a \in Asked(f) : Min({Max(delays), Infinite}) = Min({a, Infinite})
    BY <1>2, <2>3 DEF Fits
  <2> HIDE DEF delays
  <2>5. PICK m \in Nat : m = Max(delays)
    BY <2>2
  <2>6. 0 + m = m
    OBVIOUS
  <2> QED
    BY <2>1, <2>4, <2>5, <2>6 DEF AskedBy
<1> QED
  BY <1>3, <1>4 DEF AsksHonoured
=============================================================================
