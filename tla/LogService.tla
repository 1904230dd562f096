----------------------------- MODULE LogService -----------------------------
(***************************************************************************)
(* The flush pipeline of application/services/LogService.ts, on top of the *)
(* log buffer's contract: log() fills the buffer; flush() turns what is    *)
(* held into a batch, queues it and waits until the pipeline is idle; at   *)
(* most MaxConcurrent batches are with the transport and MaxPending are    *)
(* queued; destroy() drains within a deadline and closes everything.       *)
(*                                                                         *)
(* An action is one turn of the event loop's code up to its next await.    *)
(* What runs in between two awaits (push, shift, start, notify) is one     *)
(* step; what a promise continues later is a step of its own.              *)
(*                                                                         *)
(* Entries are numbered in the order of their admission.  The transport is *)
(* any ILogTransport: a send settles either way, or never.                 *)
(***************************************************************************)
EXTENDS Naturals, Sequences, SequencesExt, Sums

CONSTANTS
  Callers,        \* who calls flush() and looks at the result
  Background,     \* the owner of a flush whose result nobody looks at
  Shutdown,       \* the drain that destroy() runs
  MaxSize,        \* config.buffer.maxSize
  MaxConcurrent,  \* maxConcurrentFlushes
  MaxPending,     \* maxPendingBatches
  MaxLogs         \* bound: entries admitted

ASSUME LogServiceAssumption ==
  /\ Background \notin Callers /\ Shutdown \notin Callers \union {Background}
  /\ MaxSize \in Nat \ {0}
  /\ MaxConcurrent \in Nat \ {0} /\ MaxPending \in Nat \ {0}
  /\ MaxLogs \in Nat

VARIABLES
  held, evicted, open,  \* the buffer, as in LogBuffer
  admitted,      \* logsProcessed
  queue,         \* flushQueue
  inFlight,      \* inFlightFlushes
  sending,       \* tasks the transport has
  settled,       \* tasks it has settled, whose finally handler is still due
  queueDropped,  \* queueDroppedEntries
  logsDropped,   \* metrics.logsDropped, the part that comes from the queue
  pc,            \* where each flush() and the drain are
  shutdown,      \* how far destroy() is; not "running" is this.destroyed
  drainError,    \* why destroy() gave up draining
  delivered, failed,    \* history: the outcome of entries that were sent
  mark           \* history: admitted when the latest flush() was called

bufferVars  == <<held, evicted, open>>
queueVars   == <<queue, inFlight, sending, settled, queueDropped, logsDropped>>
closingVars == <<shutdown, drainError>>
historyVars == <<delivered, failed, mark>>
vars == <<bufferVars, admitted, queueVars, pc, closingVars, historyVars>>

Buffer == INSTANCE LogBuffer WITH Entry <- 1 .. MaxLogs

Flushers == Callers \union {Shutdown}
Owners   == Flushers \union {Background}
Task     == [entries : Seq(1 .. MaxLogs), owner : Owners]

(* A flush() that is not under way, and how the latest one ended: it       *)
(* resolved, it rejected, or it was called when destroy() had begun.       *)
Returned == {"done", "failed", "refused"}

(* queueDropped is left to EveryEntryAccounted, which says more. *)
TypeOK ==
  /\ Buffer!BufferTypeOK
  /\ admitted \in 0 .. MaxLogs
  /\ queue \in Seq(Task)
  /\ inFlight \in 0 .. MaxConcurrent
  /\ sending \subseteq Task /\ settled \subseteq Task
  /\ logsDropped \in Nat
  /\ pc \in [Flushers -> Returned \union {"batch", "resumed", "idle"}]
  /\ shutdown \in {"running", "draining", "closing", "closed"}
  /\ drainError \in {"none", "send", "deadline"}
  /\ delivered \subseteq 1 .. MaxLogs /\ failed \subseteq 1 .. MaxLogs
  /\ mark \in [Callers -> 0 .. MaxLogs]

Destroyed == shutdown # "running"

(* A mistake: batches that were started are forgotten. *)
NothingQueued(n, q) == q = <<>>

(* The pipeline is idle, with n batches in flight and q queued. *)
Idle(n, q) == n = 0 /\ q = <<>>

(* How many entries are in a list of batches, and in a set of them. *)
Total(tasks) == SumOf([i \in DOMAIN tasks |-> Len(tasks[i].entries)])
TotalOf(batches) == SumOf([t \in batches |-> Len(t.entries)])

Init ==
  /\ Buffer!BufferInit
  /\ admitted = 0
  /\ queue = <<>> /\ inFlight = 0 /\ sending = {} /\ settled = {}
  /\ queueDropped = 0 /\ logsDropped = 0
  /\ pc = [f \in Flushers |-> "done"]
  /\ shutdown = "running" /\ drainError = "none"
  /\ delivered = {} /\ failed = {}
  /\ mark = [c \in Callers |-> 0]

(***************************************************************************)
(* The queue.                                                              *)
(***************************************************************************)

(* Mistakes: every batch is started at once; the newest is started first. *)
StartAll(n, q) ==
  /\ queue' = <<>>
  /\ inFlight' = n + Len(q)
  /\ sending' = sending \union ToSet(q)

StartNewest(n, q) ==
  LET free  == IF n < MaxConcurrent THEN MaxConcurrent - n ELSE 0
      start == IF Len(q) < free THEN Len(q) ELSE free
  IN  /\ queue' = SubSeq(q, 1, Len(q) - start)
      /\ inFlight' = n + start
      /\ sending' = sending \union {q[Len(q) + 1 - i] : i \in 1 .. start}

(* processFlushQueue, with n batches in flight and q queued: the first     *)
(* batches are given to the transport while there are slots.               *)
ProcessFlushQueue(n, q) ==
  LET free  == IF n < MaxConcurrent THEN MaxConcurrent - n ELSE 0
      start == IF Len(q) < free THEN Len(q) ELSE free
  IN  /\ queue' = SubSeq(q, start + 1, Len(q))
      /\ inFlight' = n + start
      /\ sending' = sending \union {q[i] : i \in 1 .. start}

(* A mistake: the batch that makes room is not counted. *)
EnqueueUncounted(entries, owner) ==
  LET full == Len(queue) >= MaxPending
      task == [entries |-> entries, owner |-> owner]
  IN  /\ ProcessFlushQueue(inFlight, Append(IF full THEN Tail(queue) ELSE queue, task))
      /\ pc' = [f \in Flushers |->
                  IF f = owner THEN "batch"
                  ELSE IF full /\ Head(queue).owner = f THEN "resumed"
                  ELSE pc[f]]
      /\ UNCHANGED <<settled, queueDropped, logsDropped>>

(* enqueueFlush: with the queue full the oldest batch is dropped, counted, *)
(* and its flush() resolved as if it had been sent.                        *)
EnqueueFlush(entries, owner) ==
  LET full == Len(queue) >= MaxPending
      task == [entries |-> entries, owner |-> owner]
      lost == IF full THEN Len(Head(queue).entries) ELSE 0
  IN  /\ ProcessFlushQueue(inFlight, Append(IF full THEN Tail(queue) ELSE queue, task))
      /\ queueDropped' = queueDropped + lost
      /\ logsDropped' = logsDropped + lost
      /\ pc' = [f \in Flushers |->
                  IF f = owner THEN "batch"
                  ELSE IF full /\ Head(queue).owner = f THEN "resumed"
                  ELSE pc[f]]
      /\ UNCHANGED settled

(* A mistake: an idle pipeline is waited for too. *)
AwaitNextIdle(f) == pc' = [pc EXCEPT ![f] = "idle"]

(* waitForQueueIdle: at once, or as one of the idleResolvers. *)
AwaitIdle(f) ==
  pc' = [pc EXCEPT ![f] = IF Idle(inFlight, queue) THEN "done" ELSE "idle"]

(***************************************************************************)
(* Logging and flushing.                                                   *)
(***************************************************************************)

(* log(), for an entry that the filter lets through. *)
Log ==
  /\ ~ Destroyed
  /\ admitted < MaxLogs
  /\ Buffer!Add(admitted + 1)
  /\ admitted' = admitted + 1
  /\ UNCHANGED <<queueVars, pc, closingVars, historyVars>>

(* flush() by a caller, up to its first await. *)
Flush(c) ==
  /\ ~ Destroyed
  /\ pc[c] \in Returned
  /\ mark' = [mark EXCEPT ![c] = admitted]
  /\ \/ held # <<>> /\ Buffer!Take /\ EnqueueFlush(held, c)
     \/ held = <<>> /\ AwaitIdle(c) /\ UNCHANGED <<bufferVars, queueVars>>
  /\ UNCHANGED <<admitted, closingVars, delivered, failed>>

(* The same call once destroy() has begun: it resolves at once, whatever   *)
(* is queued or with the transport.                                        *)
FlushOnceDestroyed(c) ==
  /\ Destroyed
  /\ pc[c] \in Returned
  /\ mark' = [mark EXCEPT ![c] = admitted]
  /\ pc' = [pc EXCEPT ![c] = "refused"]
  /\ UNCHANGED <<bufferVars, admitted, queueVars, closingVars, delivered, failed>>

(* The same call made by the buffer's timeout or immediate or by fatal();  *)
(* with nothing held it would only wait, which nobody would notice.        *)
FlushInBackground ==
  /\ ~ Destroyed
  /\ held # <<>>
  /\ Buffer!Take
  /\ EnqueueFlush(held, Background)
  /\ UNCHANGED <<admitted, closingVars, historyVars>>

(* A mistake: the caller's own batch is all that is waited for. *)
ReturnAfterBatch(f) ==
  /\ pc[f] = "resumed"
  /\ pc' = [pc EXCEPT ![f] = "done"]
  /\ UNCHANGED <<bufferVars, admitted, queueVars, closingVars, historyVars>>

(* flush() and drain() after their batch was settled: both go on to wait   *)
(* for the pipeline to be idle.                                            *)
Resume(f) ==
  /\ pc[f] = "resumed"
  /\ AwaitIdle(f)
  /\ UNCHANGED <<bufferVars, admitted, queueVars, closingVars, historyVars>>

(* sendFlushBatch after transport.send settled: the promise of the batch   *)
(* is settled here, the slot is given back only by the finally handler.    *)
SendSettles(t, ok) ==
  /\ t \in sending
  /\ sending' = sending \ {t}
  /\ settled' = settled \union {t}
  /\ pc' = [f \in Flushers |->
              IF f = t.owner /\ pc[f] = "batch"
              THEN IF ok THEN "resumed" ELSE "failed"
              ELSE pc[f]]
  /\ delivered' = IF ok THEN delivered \union ToSet(t.entries) ELSE delivered
  /\ failed' = IF ok THEN failed ELSE failed \union ToSet(t.entries)
  /\ UNCHANGED <<bufferVars, admitted, queue, inFlight, queueDropped, logsDropped,
                 closingVars, mark>>

(* A mistake: the freed slot is not filled from the queue. *)
FinallyWithoutRefill(t) ==
  /\ t \in settled
  /\ t.owner \in Flushers => pc[t.owner] # "resumed"
  /\ settled' = settled \ {t}
  /\ inFlight' = inFlight - 1
  /\ pc' = [f \in Flushers |->
              IF pc[f] = "idle" /\ Idle(inFlight', queue) THEN "done" ELSE pc[f]]
  /\ UNCHANGED <<bufferVars, admitted, queue, sending, queueDropped, logsDropped,
                 closingVars, historyVars>>

(* The finally handler in processFlushQueue, then notifyIfQueueIdle.  The  *)
(* continuation of the batch's owner was queued before it and has run.     *)
Finally(t) ==
  /\ t \in settled
  /\ t.owner \in Flushers => pc[t.owner] # "resumed"
  /\ settled' = settled \ {t}
  /\ ProcessFlushQueue(IF inFlight > 0 THEN inFlight - 1 ELSE 0, queue)
  /\ pc' = [f \in Flushers |->
              IF pc[f] = "idle" /\ Idle(inFlight', queue') THEN "done" ELSE pc[f]]
  /\ UNCHANGED <<bufferVars, admitted, queueDropped, logsDropped, closingVars,
                 historyVars>>

(***************************************************************************)
(* Shutting down.                                                          *)
(***************************************************************************)

(* destroy(), up to the first await of its drain; later calls share the    *)
(* promise of the first.                                                   *)
Destroy ==
  /\ ~ Destroyed
  /\ shutdown' = "draining"
  /\ \/ held # <<>> /\ Buffer!Take /\ EnqueueFlush(held, Shutdown)
     \/ held = <<>> /\ AwaitIdle(Shutdown) /\ UNCHANGED <<bufferVars, queueVars>>
  /\ UNCHANGED <<admitted, drainError, historyVars>>

(* The finally block of destroyInternal: buffer, then transport.           *)
CloseAll ==
  /\ shutdown' = "closing"
  /\ Buffer!Close
  /\ UNCHANGED <<admitted, inFlight, sending, settled, historyVars>>

(* The drain came to its end. *)
Drained ==
  /\ shutdown = "draining"
  /\ pc[Shutdown] = "done"
  /\ CloseAll
  /\ UNCHANGED <<queue, queueDropped, logsDropped, pc, drainError>>

(* Mistakes: the queue is rejected but not emptied; there is no deadline. *)
GiveUpKeepingQueue(why) ==
  /\ shutdown = "draining"
  /\ \/ why = "send" /\ pc[Shutdown] = "failed" /\ \A t \in settled : t.owner # Shutdown
     \/ why = "deadline" /\ pc[Shutdown] \in {"batch", "idle"}
  /\ drainError' = why
  /\ queueDropped' = queueDropped + Total(queue)
  /\ pc' = [f \in Flushers |->
              IF \E t \in ToSet(queue) : t.owner = f THEN "failed" ELSE pc[f]]
  /\ CloseAll
  /\ UNCHANGED <<queue, logsDropped>>

GiveUpOnFailureOnly(why) ==
  /\ shutdown = "draining"
  /\ why = "send" /\ pc[Shutdown] = "failed" /\ \A t \in settled : t.owner # Shutdown
  /\ drainError' = why
  /\ queue' = <<>>
  /\ queueDropped' = queueDropped + Total(queue)
  /\ pc' = [f \in Flushers |->
              IF \E t \in ToSet(queue) : t.owner = f THEN "failed" ELSE pc[f]]
  /\ CloseAll
  /\ UNCHANGED logsDropped

(* The drain's own batch failed (the rejection takes longer to arrive here *)
(* than in that batch's finally handler), or the deadline came first: what *)
(* is queued is dropped, counted in one of the two counters, and its       *)
(* flush() calls reject.                                                   *)
GiveUp(why) ==
  /\ shutdown = "draining"
  /\ \/ why = "send" /\ pc[Shutdown] = "failed" /\ \A t \in settled : t.owner # Shutdown
     \/ why = "deadline" /\ pc[Shutdown] \in {"batch", "idle"}
  /\ drainError' = why
  /\ queue' = <<>>
  /\ queueDropped' = queueDropped + Total(queue)
  /\ pc' = [f \in Flushers |->
              IF \E t \in ToSet(queue) : t.owner = f THEN "failed" ELSE pc[f]]
  /\ CloseAll
  /\ UNCHANGED logsDropped

(* transport.destroy() is through.  It does not wait for sends. *)
Closed ==
  /\ shutdown = "closing"
  /\ shutdown' = "closed"
  /\ UNCHANGED <<bufferVars, admitted, queueVars, pc, drainError, historyVars>>

Next ==
  \/ Log
  \/ \E c \in Callers : Flush(c) \/ FlushOnceDestroyed(c)
  \/ FlushInBackground
  \/ \E f \in Flushers : Resume(f)
  \/ \E t \in sending, ok \in BOOLEAN : SendSettles(t, ok)
  \/ \E t \in settled : Finally(t)
  \/ Destroy
  \/ Drained
  \/ \E why \in {"send", "deadline"} : GiveUp(why)
  \/ Closed

(***************************************************************************)
(* The event loop runs what is ready, the buffer asks for a flush while it *)
(* holds something (MemoryBuffer: PromptHandover), the deadline timer      *)
(* fires, and transport.destroy() returns.  No call by the application is  *)
(* owed, and no answer of the transport.                                   *)
(***************************************************************************)
Fairness ==
  /\ WF_vars(FlushInBackground)
  /\ \A f \in Flushers : WF_vars(Resume(f))
  /\ WF_vars(\E t \in settled : Finally(t))
  /\ WF_vars(Drained)
  /\ WF_vars(\E why \in {"send", "deadline"} : GiveUp(why))
  /\ WF_vars(Closed)

Spec == Init /\ [][Next]_vars /\ Fairness
-----------------------------------------------------------------------------
(***************************************************************************)
(* Properties.                                                             *)
(***************************************************************************)

(* The counter of slots never drifts from the batches that hold one, from  *)
(* the start of a send to its finally handler; the queue keeps its limit   *)
(* and nothing waits in it while a slot is free.                           *)
SlotsInUse ==
  /\ inFlight = Cardinality(sending) + Cardinality(settled)
  /\ Len(queue) <= MaxPending
  /\ queue # <<>> => inFlight = MaxConcurrent

(* Every entry admitted is in exactly one place or was counted when it was *)
(* dropped: by the buffer, by the full queue, or by a drain that gave up.  *)
(* So closing the buffer discards nothing that was not sent or counted.    *)
EveryEntryAccounted ==
  admitted = evicted + queueDropped
             + Len(held) + Total(queue) + TotalOf(sending)
             + Cardinality(delivered) + Cardinality(failed)

(* destroy() is past its drain, which did not fail or run out of time.     *)
DrainSucceeded == shutdown \in {"closing", "closed"} /\ drainError = "none"

(* A flush() that has resolved leaves nothing behind of what had been      *)
(* logged when it was called: neither in the buffer nor in the queue nor   *)
(* with the transport, whoever's batches these were.  The exception is a   *)
(* flush() called once destroy() has begun: it leaves nothing in the       *)
(* buffer, but what is queued or with the transport is left to the drain,  *)
(* and is through only when that has come to its end.                      *)
FlushIsBarrier ==
  \A c \in Callers : pc[c] \in {"done", "refused"} =>
    \A i \in 1 .. mark[c] :
      /\ i \notin ToSet(held)
      /\ pc[c] = "done" \/ DrainSucceeded =>
           \A t \in ToSet(queue) \union sending : i \notin ToSet(t.entries)

(* Once destroy() has begun to close the transport nothing more is sent,   *)
(* although finally handlers of earlier sends still run.                   *)
NothingSentOnceClosing ==
  [][(shutdown \in {"closing", "closed"}) => sending' \subseteq sending]_vars

(* destroy() that resolves has drained: all that was admitted is settled   *)
(* by the transport or counted as dropped, and no send is cut short.       *)
ResolvesDrained ==
  DrainSucceeded => Idle(inFlight, queue) /\ sending = {}

(* What has become of entry i. *)
Fate(i) ==
  IF i > admitted THEN "absent"
  ELSE IF i \in delivered THEN "delivered"
  ELSE IF i \in failed THEN "failed"
  ELSE IF \E t \in sending : i \in ToSet(t.entries) THEN "sending"
  ELSE IF \E t \in ToSet(queue) : i \in ToSet(t.entries) THEN "waiting"
  ELSE IF i \in ToSet(held) THEN "waiting"
  ELSE "dropped"

Outside == INSTANCE Delivery WITH
  Entries <- 1 .. MaxLogs, fate <- [i \in 1 .. MaxLogs |-> Fate(i)]

(* Seen from outside, an entry is handed to the transport at most once, in *)
(* the order of admission, and its outcome is final; nothing is dropped    *)
(* that the transport has.                                                 *)
ImplementsDelivery == Outside!DeliverySpec

(* The assumption of the next two: a send does not stay open for ever      *)
(* (ResilientTransport gives each a deadline).                             *)
TransportSettles == WF_vars(\E t \in sending, ok \in BOOLEAN : SendSettles(t, ok))

(* flush() returns once the application stops logging, whether its batch   *)
(* is sent, dropped from the queue, or rejected by a shutdown under way.   *)
FlushReturns ==
  TransportSettles =>
    \A c \in Callers : pc[c] \notin Returned ~> pc[c] \in Returned

(* No entry is stranded in the buffer or the queue.                        *)
EntriesSettle ==
  TransportSettles =>
    \A i \in 1 .. MaxLogs : i <= admitted ~> Fate(i) \in Outside!Final

(* destroy() ends although the transport may never answer.                 *)
DestroyEnds == Destroyed ~> shutdown = "closed"

(* README.md:118: logsDropped counts drops at admission and of the backlog *)
(* - here, of the backlog of queued batches, which GiveUp drops too.       *)
BacklogDropsCounted == logsDropped = queueDropped
=============================================================================
