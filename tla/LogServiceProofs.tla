-------------------------- MODULE LogServiceProofs --------------------------
(***************************************************************************)
(* Proved of LogService for any number of callers, any limits and any      *)
(* number of entries, with the buffer known by its contract only:          *)
(*                                                                         *)
(*   - types and limits, from the invariant IInv;                          *)
(*   - the accounts of slots and of entries, that flush() is a barrier and *)
(*     that a destroy() which resolves has drained, from IInv and LineInv; *)
(*   - that the pipeline implements Delivery.                              *)
(***************************************************************************)
EXTENDS LogService, SumTheorems, TLAPS

USE LogServiceAssumption DEF LogServiceAssumption, Returned

(* The queue keeps its limit, and no batch waits while a slot is free.     *)
QueueInv ==
  /\ Len(queue) <= MaxPending
  /\ queue # <<>> => inFlight = MaxConcurrent

(* A drain that has come to its end has left the pipeline idle, and once   *)
(* the transport is being closed nothing is queued any more.               *)
DrainInv ==
  /\ Destroyed /\ pc[Shutdown] = "done" => Idle(inFlight, queue)
  /\ shutdown \in {"closing", "closed"} => queue = <<>>

IInv == TypeOK /\ QueueInv /\ DrainInv

-----------------------------------------------------------------------------
(* What the contract of the buffer says about types. *)
LEMMA BufferKeepsType ==
  ASSUME Buffer!BufferTypeOK,
         Buffer!BufferNext \/ UNCHANGED bufferVars
  PROVE  Buffer!BufferTypeOK'
<1> USE DEF Buffer!BufferTypeOK
<1>1. ASSUME NEW e \in 1 .. MaxLogs, Buffer!Add(e)
      PROVE  Buffer!BufferTypeOK'
  <2>1. PICK k \in 0 .. Len(held) + 1 :
          /\ held' = Buffer!Without(Append(held, e), k)
          /\ evicted' = evicted + k
    BY <1>1 DEF Buffer!Add
  <2>2. Append(held, e) \in Seq(1 .. MaxLogs) /\ Len(Append(held, e)) = Len(held) + 1
    BY AppendProperties
  <2>3. held' \in Seq(1 .. MaxLogs)
    BY <2>1, <2>2, SubSeqProperties DEF Buffer!Without
  <2> QED
    BY <1>1, <2>1, <2>3 DEF Buffer!Add
<1>2. CASE Buffer!Take
  BY <1>2 DEF Buffer!Take
<1>3. CASE Buffer!Close
  <2>1. held' \in Seq(1 .. MaxLogs) /\ evicted' \in Nat
    BY <1>3, EmptySeq DEF Buffer!Close
  <2>2. open' \in BOOLEAN
    BY <1>3, Zenon DEF Buffer!Close
  <2> QED
    BY <2>1, <2>2
<1>4. CASE UNCHANGED bufferVars
  BY <1>4 DEF bufferVars
<1> QED
  BY <1>1, <1>2, <1>3, <1>4 DEF Buffer!BufferNext

(* What processFlushQueue leaves, however many batches it starts.          *)
LEMMA ProcessKeeps ==
  ASSUME NEW n \in 0 .. MaxConcurrent, NEW q \in Seq(Task),
         sending \subseteq Task,
         ProcessFlushQueue(n, q)
  PROVE  /\ queue' \in Seq(Task) /\ Len(queue') <= Len(q)
         /\ inFlight' \in 0 .. MaxConcurrent
         /\ queue' # <<>> => inFlight' = MaxConcurrent
         /\ sending' \subseteq Task
         /\ q = <<>> => /\ queue' = <<>> /\ inFlight' = n
                        /\ sending' \subseteq sending
<1> DEFINE free  == IF n < MaxConcurrent THEN MaxConcurrent - n ELSE 0
           start == IF Len(q) < free THEN Len(q) ELSE free
<1>1. /\ start \in 0 .. Len(q) /\ n + start \in 0 .. MaxConcurrent
      /\ start < Len(q) => n + start = MaxConcurrent
      /\ Len(q) = 0 => start = 0
  BY LenProperties
<1>2. /\ queue' = SubSeq(q, start + 1, Len(q))
      /\ inFlight' = n + start
      /\ sending' = sending \union {q[i] : i \in 1 .. start}
  BY DEF ProcessFlushQueue
<1> HIDE DEF start
<1>3. queue' \in Seq(Task) /\ Len(queue') = Len(q) - start
  BY <1>1, <1>2, SubSeqProperties
<1>4. queue' # <<>> => Len(queue') > 0
  BY <1>3, EmptySeq, LenProperties
<1>5. \A i \in 1 .. start : q[i] \in Task
  BY <1>1, ElementOfSeq
<1>6. sending' \subseteq Task
  BY <1>2, <1>5
<1>7. ASSUME q = <<>>
      PROVE  queue' = <<>> /\ inFlight' = n /\ sending' \subseteq sending
  <2>1. start = 0 /\ Len(queue') = 0
    BY <1>1, <1>3, <1>7
  <2>2. queue' = <<>>
    BY <1>3, <2>1, EmptySeq
  <2> QED
    BY <1>2, <2>1, <2>2
<1> QED
  BY <1>1, <1>2, <1>3, <1>4, <1>6, <1>7

(* enqueueFlush makes room before it appends.                              *)
LEMMA EnqueueKeeps ==
  ASSUME TypeOK, QueueInv, NEW owner \in Owners, EnqueueFlush(held, owner)
  PROVE  /\ queue' \in Seq(Task) /\ inFlight' \in 0 .. MaxConcurrent
         /\ QueueInv'
         /\ sending' \subseteq Task /\ settled' \subseteq Task
         /\ logsDropped' \in Nat
         /\ pc' \in [Flushers -> Returned \union {"batch", "resumed", "idle"}]
         /\ pc' = [f \in Flushers |->
                     IF f = owner THEN "batch" ELSE pc'[f]]
<1> DEFINE full == Len(queue) >= MaxPending
           task == [entries |-> held, owner |-> owner]
           rest == IF full THEN Tail(queue) ELSE queue
<1>1. task \in Task
  BY DEF TypeOK, Buffer!BufferTypeOK, Task
<1>2. full => queue # <<>>
  BY DEF QueueInv
<1>3. /\ rest \in Seq(Task) /\ Len(rest) < MaxPending
      /\ full => Head(queue) \in Task
  BY <1>2, HeadTailProperties DEF TypeOK, QueueInv
<1>4. ProcessFlushQueue(inFlight, Append(rest, task))
  BY DEF EnqueueFlush
<1>5. Append(rest, task) \in Seq(Task) /\ Len(Append(rest, task)) <= MaxPending
  BY <1>1, <1>3, AppendProperties
<1>6. /\ queue' \in Seq(Task) /\ Len(queue') <= MaxPending
      /\ inFlight' \in 0 .. MaxConcurrent
      /\ queue' # <<>> => inFlight' = MaxConcurrent
      /\ sending' \subseteq Task
  <2> DEFINE q == Append(rest, task)
  <2>1. q \in Seq(Task) /\ Len(q) <= MaxPending /\ ProcessFlushQueue(inFlight, q)
    BY <1>4, <1>5
  <2> HIDE DEF q
  <2>2. /\ queue' \in Seq(Task) /\ Len(queue') <= Len(q)
        /\ inFlight' \in 0 .. MaxConcurrent
        /\ queue' # <<>> => inFlight' = MaxConcurrent
        /\ sending' \subseteq Task
    BY <2>1, ProcessKeeps DEF TypeOK
  <2> QED
    BY <2>1, <2>2, LenProperties
<1>7. logsDropped' \in Nat
  <2>1. full => Len(Head(queue).entries) \in Nat
    BY <1>3, LenProperties DEF Task
  <2>2. logsDropped' = logsDropped + IF full THEN Len(Head(queue).entries) ELSE 0
    BY DEF EnqueueFlush
  <2> QED
    BY <2>1, <2>2 DEF TypeOK
<1>8. /\ pc' \in [Flushers -> Returned \union {"batch", "resumed", "idle"}]
      /\ pc' = [f \in Flushers |-> IF f = owner THEN "batch" ELSE pc'[f]]
  BY DEF EnqueueFlush, TypeOK
<1>9. settled' \subseteq Task
  BY DEF EnqueueFlush, TypeOK
<1> QED
  BY <1>6, <1>7, <1>8, <1>9 DEF QueueInv

-----------------------------------------------------------------------------
(* Before the first call nothing is held, queued or in flight. *)
LEMMA InitIInv == Init => IInv
<1> SUFFICES ASSUME Init
             PROVE  IInv
  OBVIOUS
<1>1. Buffer!BufferTypeOK
  BY EmptySeq DEF Init, Buffer!BufferInit, Buffer!BufferTypeOK
<1>2. TypeOK
  BY <1>1, EmptySeq DEF Init, TypeOK
<1>3. QueueInv /\ DrainInv
  BY EmptySeq DEF Init, QueueInv, DrainInv, Destroyed
<1> QED
  BY <1>2, <1>3 DEF IInv

(* What is common to flush() by a caller, in the background, and destroy() *)
(* when something is held; the rest of such a step is left to its lemma.   *)
LEMMA HandingOver ==
  ASSUME IInv, NEW owner \in Owners,
         Buffer!Take, EnqueueFlush(held, owner),
         UNCHANGED <<admitted, drainError, delivered, failed>>,
         shutdown' \in {"running", "draining"},
         shutdown' = "draining" => owner = Shutdown,
         mark' \in [Callers -> 0 .. MaxLogs]
  PROVE  IInv'
<1>1. Buffer!BufferTypeOK'
  BY BufferKeepsType DEF IInv, TypeOK, Buffer!BufferNext
<1>2. /\ queue' \in Seq(Task) /\ inFlight' \in 0 .. MaxConcurrent
      /\ QueueInv'
      /\ sending' \subseteq Task /\ settled' \subseteq Task
      /\ logsDropped' \in Nat
      /\ pc' \in [Flushers -> Returned \union {"batch", "resumed", "idle"}]
      /\ pc' = [f \in Flushers |-> IF f = owner THEN "batch" ELSE pc'[f]]
  BY EnqueueKeeps DEF IInv
<1>3. TypeOK'
  BY <1>1, <1>2 DEF IInv, TypeOK
<1>4. shutdown' = "draining" => pc'[Shutdown] = "batch"
  BY <1>2 DEF Flushers
<1>5. DrainInv'
  BY <1>4 DEF DrainInv, Destroyed
<1> QED
  BY <1>2, <1>3, <1>5 DEF IInv

(* log() only touches the buffer. *)
LEMMA LogKeeps ==
  ASSUME IInv, Log
  PROVE  IInv'
<1>1. Buffer!BufferTypeOK'
  BY BufferKeepsType DEF Log, IInv, TypeOK, Buffer!BufferNext
<1> QED
  BY <1>1 DEF Log, IInv, TypeOK, QueueInv, DrainInv, queueVars, closingVars,
     historyVars, Destroyed

(* A flush() hands over, or waits with nothing held. *)
LEMMA FlushKeeps ==
  ASSUME IInv, NEW c \in Callers, Flush(c)
  PROVE  IInv'
<1>1. mark' \in [Callers -> 0 .. MaxLogs]
  BY DEF Flush, IInv, TypeOK
<1>2. CASE held # <<>>
  BY <1>1, <1>2, HandingOver DEF Flush, Destroyed, closingVars, Owners, Flushers
<1>3. CASE held = <<>>
  <2>1. pc' \in [Flushers -> Returned \union {"batch", "resumed", "idle"}]
    BY <1>3 DEF Flush, AwaitIdle, IInv, TypeOK
  <2>2. /\ UNCHANGED <<bufferVars, queueVars, closingVars>>
        /\ UNCHANGED <<admitted, delivered, failed>>
        /\ ~ Destroyed
    BY <1>3 DEF Flush
  <2>3. Buffer!BufferTypeOK'
    BY <2>2, BufferKeepsType DEF IInv, TypeOK
  <2> QED
    BY <1>1, <2>1, <2>2, <2>3 DEF IInv, TypeOK, QueueInv, DrainInv, Destroyed,
       queueVars, closingVars
<1> QED
  BY <1>2, <1>3

(* A flush() called once destroyed changes where it is and nothing else. *)
LEMMA FlushOnceDestroyedKeeps ==
  ASSUME IInv, NEW c \in Callers, FlushOnceDestroyed(c)
  PROVE  IInv'
<1>1. /\ pc' \in [Flushers -> Returned \union {"batch", "resumed", "idle"}]
      /\ pc'[Shutdown] = pc[Shutdown]
      /\ mark' \in [Callers -> 0 .. MaxLogs]
  BY DEF FlushOnceDestroyed, IInv, TypeOK, Flushers
<1>2. Buffer!BufferTypeOK'
  BY BufferKeepsType DEF FlushOnceDestroyed, IInv, TypeOK
<1> QED
  BY <1>1, <1>2 DEF FlushOnceDestroyed, IInv, TypeOK, QueueInv, DrainInv, Destroyed,
     Idle, queueVars, closingVars

(* A drain that resumes is done at once only if the pipeline is idle. *)
LEMMA ResumeKeeps ==
  ASSUME IInv, NEW f \in Flushers, Resume(f)
  PROVE  IInv'
<1>1. /\ pc' \in [Flushers -> Returned \union {"batch", "resumed", "idle"}]
      /\ pc'[Shutdown] = "done" => pc[Shutdown] = "done" \/ Idle(inFlight, queue)
  BY DEF Resume, AwaitIdle, IInv, TypeOK, Flushers
<1>2. Buffer!BufferTypeOK'
  BY BufferKeepsType DEF Resume, IInv, TypeOK
<1> QED
  BY <1>1, <1>2 DEF Resume, IInv, TypeOK, QueueInv, DrainInv, Destroyed, Idle,
     queueVars, closingVars, historyVars

(* A send that settles keeps its slot. *)
LEMMA SendSettlesKeeps ==
  ASSUME IInv, NEW t \in sending, NEW ok \in BOOLEAN, SendSettles(t, ok)
  PROVE  IInv'
<1>1. Buffer!BufferTypeOK'
  BY BufferKeepsType DEF SendSettles, IInv, TypeOK
<1>2. /\ pc' \in [Flushers -> Returned \union {"batch", "resumed", "idle"}]
      /\ pc'[Shutdown] = "done" => pc[Shutdown] = "done"
  BY DEF SendSettles, IInv, TypeOK, Flushers
<1>3. t \in Task /\ sending' \subseteq Task /\ settled' \subseteq Task
  BY DEF SendSettles, IInv, TypeOK
<1>4. ToSet(t.entries) \subseteq 1 .. MaxLogs
  <2>1. t.entries \in Seq(1 .. MaxLogs)
    BY <1>3 DEF Task
  <2> QED
    BY <2>1, ElementOfSeq DEF ToSet
<1>5. delivered' \subseteq 1 .. MaxLogs /\ failed' \subseteq 1 .. MaxLogs
  BY <1>4 DEF SendSettles, IInv, TypeOK
<1> QED
  BY <1>1, <1>2, <1>3, <1>5 DEF SendSettles, IInv, TypeOK, QueueInv, DrainInv,
     Destroyed, Idle, closingVars

(* The finally handler refills the slot it gives back. *)
LEMMA FinallyKeeps ==
  ASSUME IInv, NEW t \in settled, Finally(t)
  PROVE  IInv'
<1> DEFINE left == IF inFlight > 0 THEN inFlight - 1 ELSE 0
<1>1. Buffer!BufferTypeOK'
  BY BufferKeepsType DEF Finally, IInv, TypeOK
<1>2. left \in 0 .. MaxConcurrent /\ ProcessFlushQueue(left, queue)
  BY DEF Finally, IInv, TypeOK
<1> HIDE DEF left
<1>3. /\ queue' \in Seq(Task) /\ Len(queue') <= Len(queue)
      /\ inFlight' \in 0 .. MaxConcurrent
      /\ queue' # <<>> => inFlight' = MaxConcurrent
      /\ sending' \subseteq Task
      /\ queue = <<>> => queue' = <<>> /\ inFlight' = left
  BY <1>2, ProcessKeeps DEF IInv, TypeOK
<1>4. queue' \in Seq(Task) /\ Len(queue') <= MaxPending
  BY <1>3, LenProperties DEF IInv, TypeOK, QueueInv
<1>5. /\ pc' \in [Flushers -> Returned \union {"batch", "resumed", "idle"}]
      /\ pc'[Shutdown] = "done" => pc[Shutdown] = "done" \/ Idle(inFlight', queue')
  BY DEF Finally, IInv, TypeOK, Flushers
<1>6. Idle(inFlight, queue) => Idle(inFlight', queue')
  BY <1>3 DEF Idle, left
<1>7. DrainInv'
  BY <1>3, <1>5, <1>6 DEF Finally, IInv, DrainInv, Destroyed, Idle, closingVars
<1> QED
  BY <1>1, <1>3, <1>4, <1>5, <1>7 DEF Finally, IInv, TypeOK, QueueInv, closingVars,
     historyVars

(* destroy() drains like a flush(). *)
LEMMA DestroyKeeps ==
  ASSUME IInv, Destroy
  PROVE  IInv'
<1>1. CASE held # <<>>
  BY <1>1, HandingOver DEF Destroy, historyVars, Owners, Flushers, IInv, TypeOK
<1>2. CASE held = <<>>
  <2>1. /\ pc' \in [Flushers -> Returned \union {"batch", "resumed", "idle"}]
        /\ pc'[Shutdown] = "done" => Idle(inFlight, queue)
    BY <1>2 DEF Destroy, AwaitIdle, IInv, TypeOK, Flushers
  <2>2. Buffer!BufferTypeOK'
    BY <1>2, BufferKeepsType DEF Destroy, IInv, TypeOK
  <2> QED
    BY <1>2, <2>1, <2>2 DEF Destroy, IInv, TypeOK, QueueInv, DrainInv, Destroyed,
       Idle, queueVars, historyVars
<1> QED
  BY <1>1, <1>2

(* Closing finds the queue empty, or empties it. *)
LEMMA ClosingKeeps ==
  ASSUME IInv, Drained \/ (\E why \in {"send", "deadline"} : GiveUp(why)) \/ Closed
  PROVE  IInv'
<1>1. Buffer!BufferTypeOK'
  BY BufferKeepsType DEF Drained, GiveUp, CloseAll, Closed, IInv, TypeOK,
     Buffer!BufferNext
<1>2. CASE Drained
  BY <1>1, <1>2 DEF Drained, CloseAll, IInv, TypeOK, QueueInv, DrainInv, Destroyed,
     Idle, historyVars
<1>3. ASSUME NEW why \in {"send", "deadline"}, GiveUp(why)
      PROVE  IInv'
  <2>1. /\ pc' \in [Flushers -> Returned \union {"batch", "resumed", "idle"}]
        /\ pc'[Shutdown] # "done"
    BY <1>3 DEF GiveUp, IInv, TypeOK, Flushers
  <2> QED
    BY <1>1, <1>3, <2>1, EmptySeq DEF GiveUp, CloseAll, IInv, TypeOK, QueueInv,
       DrainInv, historyVars
<1>4. CASE Closed
  BY <1>1, <1>4 DEF Closed, IInv, TypeOK, QueueInv, DrainInv, Destroyed, Idle,
     queueVars, historyVars
<1> QED
  BY <1>2, <1>3, <1>4

-----------------------------------------------------------------------------
(* The inductive invariant holds in every reachable state. *)
THEOREM Invariance == Spec => []IInv
<1>1. IInv /\ [Next]_vars => IInv'
  <2> SUFFICES ASSUME IInv, [Next]_vars
               PROVE  IInv'
    OBVIOUS
  <2>1. CASE FlushInBackground
    BY <2>1, HandingOver DEF FlushInBackground, Destroyed, closingVars, historyVars,
       Owners, IInv, TypeOK
  <2>2. CASE UNCHANGED vars
    <3>1. Buffer!BufferTypeOK'
      BY <2>2, BufferKeepsType DEF vars, IInv, TypeOK
    <3> QED
      BY <2>2, <3>1 DEF vars, queueVars, closingVars, historyVars, IInv, TypeOK,
         QueueInv, DrainInv, Destroyed, Idle
  <2> QED
    BY <2>1, <2>2, LogKeeps, FlushKeeps, FlushOnceDestroyedKeeps, ResumeKeeps,
       SendSettlesKeeps,
       FinallyKeeps, DestroyKeeps, ClosingKeeps DEF Next
<1> QED
  BY InitIInv, <1>1, PTL DEF Spec

(* No order of calls, settlements and shutdown takes the pipeline out of   *)
(* its ranges: never more than MaxConcurrent batches are with the          *)
(* transport.                                                              *)
THEOREM TypeCorrect == Spec => []TypeOK
<1>1. IInv => TypeOK
  BY DEF IInv
<1> QED
  BY Invariance, <1>1, PTL

(* The queue keeps its limit, and never holds a batch for which a slot is  *)
(* free (two of the three parts of SlotsInUse).                            *)
THEOREM QueueWithinLimits == Spec => []QueueInv
<1>1. IInv => QueueInv
  BY DEF IInv
<1> QED
  BY Invariance, <1>1, PTL

(* After destroy() has begun to close the transport no step of the         *)
(* pipeline sends, not even the finally handlers of earlier sends.         *)
THEOREM ClosingIsFinal == Spec => NothingSentOnceClosing
<1>1. IInv /\ [Next]_vars
        => [(shutdown \in {"closing", "closed"}) => sending' \subseteq sending]_vars
  <2> SUFFICES ASSUME IInv, Next, shutdown \in {"closing", "closed"}
               PROVE  sending' \subseteq sending
    OBVIOUS
  <2>1. queue = <<>> /\ Destroyed
    BY DEF IInv, DrainInv, Destroyed
  <2>2. ASSUME NEW t \in settled, Finally(t)
        PROVE  sending' \subseteq sending
    <3> DEFINE left == IF inFlight > 0 THEN inFlight - 1 ELSE 0
    <3>1. left \in 0 .. MaxConcurrent /\ ProcessFlushQueue(left, queue)
      BY <2>2 DEF Finally, IInv, TypeOK
    <3> HIDE DEF left
    <3>2. queue \in Seq(Task) /\ sending \subseteq Task
      BY DEF IInv, TypeOK
    <3> QED
      BY <2>1, <3>1, <3>2, ProcessKeeps
  <2>3. ASSUME NEW t \in sending, NEW ok \in BOOLEAN, SendSettles(t, ok)
        PROVE  sending' \subseteq sending
    BY <2>3 DEF SendSettles
  <2>4. ASSUME NEW f \in Flushers, Resume(f)
        PROVE  sending' \subseteq sending
    BY <2>4 DEF Resume, queueVars
  <2>5. ASSUME Closed \/ \E c \in Callers : FlushOnceDestroyed(c)
        PROVE  sending' \subseteq sending
    BY <2>5 DEF Closed, FlushOnceDestroyed, queueVars
  <2>6. /\ ~ Log /\ ~ FlushInBackground /\ ~ Destroy /\ ~ Drained
        /\ \A c \in Callers : ~ Flush(c)
        /\ \A why \in {"send", "deadline"} : ~ GiveUp(why)
    BY <2>1 DEF Log, Flush, FlushInBackground, Destroy, Drained, GiveUp
  <2> QED
    BY <2>2, <2>3, <2>4, <2>5, <2>6 DEF Next
<1> QED
  BY Invariance, <1>1, PTL DEF Spec, NothingSentOnceClosing
-----------------------------------------------------------------------------
(***************************************************************************)
(* The accounts.  Entries carry the numbers of their admission, so that    *)
(* where an entry is can be told from its number: what is settled or with  *)
(* the transport comes before what is queued, batch by batch, and that     *)
(* before what is held.  From this order follow that no entry is in two    *)
(* places, that each batch is in one place, and with it the accounts of    *)
(* slots and of entries.                                                   *)
(***************************************************************************)

(* The entries of a batch, and of several. *)
Of(t) == ToSet(t.entries)
In(batches) == UNION {Of(t) : t \in batches}

Before(S, T) == \A i \in S, j \in T : i < j
Ascending(s) == \A a, b \in DOMAIN s : a < b => s[a] < s[b]
IsBatch(t) == t.entries # <<>> /\ Ascending(t.entries)

(* The batches of q stand in the order of admission, after the entries in  *)
(* S and before those in H.                                                *)
Lined(S, q, H) ==
  /\ \A a \in DOMAIN q : IsBatch(q[a]) /\ Before(S, Of(q[a])) /\ Before(Of(q[a]), H)
  /\ \A a, b \in DOMAIN q : a < b => Before(Of(q[a]), Of(q[b]))
  /\ Before(S, H)

(* What the transport has settled, and all that it was ever given.         *)
Settled == delivered \union failed
Gone == Settled \union In(sending)

OrderInv ==
  /\ Ascending(held)
  /\ Lined(Gone, queue, ToSet(held))
  /\ Gone \union In(ToSet(queue)) \union ToSet(held) \subseteq 1 .. admitted

(* Batches with the transport share no entry with each other nor with what *)
(* is settled already.                                                     *)
Apart(batches) ==
  /\ IsFiniteSet(batches)
  /\ \A t \in batches : IsBatch(t) /\ Of(t) \cap Settled = {}
  /\ \A t, u \in batches : t # u => Of(t) \cap Of(u) = {}

TransportInv ==
  /\ Apart(sending)
  /\ IsFiniteSet(settled)
  /\ \A t \in settled : IsBatch(t) /\ Of(t) \subseteq Settled
  /\ delivered \cap failed = {}

AccountInv ==
  /\ queueDropped \in Nat
  /\ inFlight = Cardinality(sending) + Cardinality(settled)
  /\ EveryEntryAccounted

(* Nothing is admitted or held once destroy() runs, and it ends without an *)
(* error only after its drain.                                             *)
ShutdownInv ==
  /\ Destroyed => held = <<>>
  /\ shutdown \in {"closing", "closed"} /\ drainError = "none" => pc[Shutdown] = "done"

(* What was logged before a flush() was held is no longer held, and is out *)
(* of the pipeline when that flush() has returned.                         *)
BarrierInv ==
  \A c \in Callers :
    /\ mark[c] <= admitted
    /\ Before(1 .. mark[c], ToSet(held))
    /\ pc[c] = "done" => Before(1 .. mark[c], In(ToSet(queue) \union sending))

LineInv == OrderInv /\ TransportInv /\ AccountInv /\ ShutdownInv /\ BarrierInv

-----------------------------------------------------------------------------
(* The elements of a sequence, by position. *)
LEMMA ToSetDef ==
  ASSUME NEW S, NEW s \in Seq(S)
  PROVE  /\ ToSet(s) \subseteq S
         /\ \A x : x \in ToSet(s) <=> \E a \in DOMAIN s : s[a] = x
         /\ DOMAIN s = 1 .. Len(s) /\ Len(s) \in Nat
  BY LenProperties, ElementOfSeq DEF ToSet

(* What is in a sequence with one more element. *)
LEMMA ToSetAppend ==
  ASSUME NEW S, NEW s \in Seq(S), NEW e \in S
  PROVE  ToSet(Append(s, e)) = ToSet(s) \union {e}
<1> DEFINE n == Len(s)
           all == Append(s, e)
<1>1. DOMAIN s = 1 .. n /\ n \in Nat
  BY LenProperties
<1>2. /\ all \in Seq(S) /\ Len(all) = n + 1
      /\ \A i \in 1 .. n : all[i] = s[i]
      /\ all[n + 1] = e
  BY AppendProperties
<1>3. DOMAIN all = 1 .. n + 1
  BY <1>2, LenProperties
<1> HIDE DEF n, all
<1>4. \A a \in 1 .. n + 1 : a \in 1 .. n \/ a = n + 1
  BY <1>1
<1>5. 1 .. n \subseteq 1 .. n + 1 /\ n + 1 \in 1 .. n + 1
  BY <1>1
<1>6. ToSet(all) = ToSet(s) \union {e}
  BY <1>1, <1>2, <1>3, <1>4, <1>5 DEF ToSet
<1> QED
  BY <1>6 DEF all

(* Entries of a task are numbers of admission, and a batch has some.       *)
LEMMA TaskEntries ==
  ASSUME NEW t \in Task
  PROVE  /\ t.entries \in Seq(1 .. MaxLogs) /\ t.owner \in Owners
         /\ Of(t) \subseteq 1 .. MaxLogs
         /\ Len(t.entries) \in Nat
         /\ IsBatch(t) => Of(t) # {}
<1>1. t.entries \in Seq(1 .. MaxLogs) /\ t.owner \in Owners
  BY DEF Task
<1>2. Of(t) \subseteq 1 .. MaxLogs /\ Len(t.entries) \in Nat
  BY <1>1, ToSetDef DEF Of
<1>3. ASSUME IsBatch(t)
      PROVE  Of(t) # {}
  <2>1. Len(t.entries) > 0 /\ DOMAIN t.entries = 1 .. Len(t.entries)
    BY <1>1, <1>3, EmptySeq, LenProperties DEF IsBatch
  <2>2. t.entries[1] \in Of(t)
    BY <1>1, <2>1, ToSetDef DEF Of
  <2> QED
    BY <2>2
<1> QED
  BY <1>1, <1>2, <1>3

(* Sets of numbers of which one comes before the other are disjoint.       *)
LEMMA BeforeApart ==
  ASSUME NEW S, NEW T \in SUBSET Nat, Before(S, T)
  PROVE  S \cap T = {}
<1>1. \A i \in Nat : ~ (i < i)
  OBVIOUS
<1> QED
  BY <1>1 DEF Before

(* An ascending sequence has as many elements as it is long.               *)
LEMMA AscendingCount ==
  ASSUME NEW s \in Seq(Nat), Ascending(s)
  PROVE  IsFiniteSet(ToSet(s)) /\ Cardinality(ToSet(s)) = Len(s)
<1>1. DOMAIN s = 1 .. Len(s) /\ Len(s) \in Nat /\ \A a \in 1 .. Len(s) : s[a] \in Nat
  BY LenProperties, ElementOfSeq
<1>2. \A a, b \in 1 .. Len(s) : s[a] = s[b] => a = b
  BY <1>1 DEF Ascending
<1>3. s \in Bijection(1 .. Len(s), ToSet(s))
  <2>1. s \in [1 .. Len(s) -> ToSet(s)]
    BY <1>1, LenProperties DEF ToSet
  <2>2. \A x \in ToSet(s) : \E a \in 1 .. Len(s) : s[a] = x
    BY <1>1 DEF ToSet
  <2> QED
    BY <1>2, <2>1, <2>2 DEF Bijection, Injection, Surjection, IsInjective
<1>4. IsFiniteSet(1 .. Len(s)) /\ Cardinality(1 .. Len(s)) = Len(s)
  BY <1>1, IntervalIsFinite
<1>5. ExistsBijection(1 .. Len(s), ToSet(s))
  BY <1>3 DEF ExistsBijection
<1> QED
  BY <1>4, <1>5, FS_Bijection

-----------------------------------------------------------------------------
(* Totals of lists and of sets of batches.                                 *)
LenOf == [t \in Task |-> Len(t.entries)]

(* The entries in a list of batches are a sum along the list. *)
LEMMA TotalType ==
  ASSUME NEW q \in Seq(Task)
  PROVE  Total(q) = SumOf(Along(LenOf, q)) /\ Total(q) \in Nat
<1>1. LenOf \in [Task -> Nat]
  BY TaskEntries DEF LenOf
<1>2. \A a \in DOMAIN q : q[a] \in Task
  BY LenProperties, ElementOfSeq
<1>3. [a \in DOMAIN q |-> Len(q[a].entries)] = Along(LenOf, q)
  BY <1>2 DEF Along, LenOf
<1>4. SumOf(Along(LenOf, q)) \in Nat
  BY <1>1, AlongType
<1> QED
  BY <1>3, <1>4 DEF Total

(* A list of batches may be counted in two parts, *)
LEMMA TotalParts ==
  ASSUME NEW q \in Seq(Task), NEW k \in 0 .. Len(q)
  PROVE  Total(q) = Total(SubSeq(q, 1, k)) + Total(SubSeq(q, k + 1, Len(q)))
<1>1. LenOf \in [Task -> Nat]
  BY TaskEntries DEF LenOf
<1>2. SubSeq(q, 1, k) \in Seq(Task) /\ SubSeq(q, k + 1, Len(q)) \in Seq(Task)
  BY FirstOf, RestOf
<1>3. SumOf(Along(LenOf, q)) = SumOf(Along(LenOf, SubSeq(q, 1, k)))
                                 + SumOf(Along(LenOf, SubSeq(q, k + 1, Len(q))))
  BY <1>1, AlongParts
<1> QED
  BY <1>2, <1>3, TotalType

(* grows by the batch that is appended, *)
LEMMA TotalAppend ==
  ASSUME NEW q \in Seq(Task), NEW t \in Task
  PROVE  Total(Append(q, t)) = Total(q) + Len(t.entries)
<1>1. LenOf \in [Task -> Nat] /\ LenOf[t] = Len(t.entries)
  BY TaskEntries DEF LenOf
<1>2. SumOf(Along(LenOf, Append(q, t))) = SumOf(Along(LenOf, q)) + LenOf[t]
  BY <1>1, AlongAppend
<1>3. Append(q, t) \in Seq(Task)
  BY AppendProperties
<1> QED
  BY <1>1, <1>2, <1>3, TotalType

(* The tail of a sequence is what is left after its first element.         *)
LEMMA TailIsRest ==
  ASSUME NEW S, NEW q \in Seq(S), q # <<>>
  PROVE  /\ Len(q) \in Nat /\ Len(q) > 0 /\ 1 \in 0 .. Len(q)
         /\ Tail(q) \in Seq(S) /\ Tail(q) = SubSeq(q, 1 + 1, Len(q))
         /\ q[1] \in S /\ Head(q) = q[1] /\ q[1] \in ToSet(q)
<1>1. Len(q) \in Nat /\ Len(q) > 0 /\ 1 \in 0 .. Len(q)
  BY EmptySeq, LenProperties
<1>2. /\ SubSeq(q, 1 + 1, Len(q)) \in Seq(S)
      /\ Len(SubSeq(q, 1 + 1, Len(q))) = Len(q) - 1
      /\ \A i \in 1 .. Len(q) - 1 : SubSeq(q, 1 + 1, Len(q))[i] = q[1 + i]
  BY <1>1, RestOf
<1>3. /\ Tail(q) \in Seq(S) /\ Len(Tail(q)) = Len(q) - 1
      /\ \A i \in 1 .. Len(q) - 1 : Tail(q)[i] = q[i + 1]
  BY HeadTailProperties
<1>4. \A i \in 1 .. Len(q) - 1 : Tail(q)[i] = SubSeq(q, 1 + 1, Len(q))[i]
  BY <1>1, <1>2, <1>3
<1>5. Tail(q) = SubSeq(q, 1 + 1, Len(q))
  BY <1>2, <1>3, <1>4, SeqEqual
<1>6. q[1] \in S /\ Head(q) = q[1] /\ 1 \in DOMAIN q
  BY <1>1, ElementOfSeq, LenProperties
<1> QED
  BY <1>1, <1>3, <1>5, <1>6 DEF ToSet

(* has no entries when it has no batches, *)
LEMMA TotalEmpty == Total(<<>>) = 0
  BY SumEmpty DEF Total

(* and loses those of its head with the head. *)
LEMMA TotalTail ==
  ASSUME NEW q \in Seq(Task), q # <<>>
  PROVE  Total(q) = Len(Head(q).entries) + Total(Tail(q))
<1>1. Len(q) \in Nat /\ Len(q) > 0 /\ 1 \in 0 .. Len(q)
  BY EmptySeq, LenProperties
<1>2. /\ SubSeq(q, 1, 1) \in Seq(Task) /\ DOMAIN SubSeq(q, 1, 1) = 1 .. 1
      /\ SubSeq(q, 1, 1)[1] = q[1]
  BY <1>1, FirstOf
<1>3. q[1] \in Task /\ Head(q) = q[1]
  BY <1>1, ElementOfSeq
<1>4. Total(SubSeq(q, 1, 1)) = Len(q[1].entries)
  <2> DEFINE f == [a \in DOMAIN SubSeq(q, 1, 1) |-> Len(SubSeq(q, 1, 1)[a].entries)]
  <2>1. DOMAIN f = {1} /\ f[1] = Len(q[1].entries) /\ f[1] \in Nat
    BY <1>2, <1>3, TaskEntries
  <2>2. Total(SubSeq(q, 1, 1)) = SumOf(f)
    BY DEF Total
  <2> HIDE DEF f
  <2> QED
    BY <2>1, <2>2, SumSingle
<1>5. Tail(q) = SubSeq(q, 1 + 1, Len(q))
  BY TailIsRest
<1>6. Total(q) = Total(SubSeq(q, 1, 1)) + Total(SubSeq(q, 1 + 1, Len(q)))
  BY <1>1, TotalParts
<1> QED
  BY <1>3, <1>4, <1>5, <1>6

(* The entries in a set of batches are a number, *)
LEMMA TotalOfType ==
  ASSUME NEW T \in SUBSET Task, IsFiniteSet(T)
  PROVE  /\ Summable([t \in T |-> Len(t.entries)])
         /\ TotalOf(T) \in Nat
<1> DEFINE f == [t \in T |-> Len(t.entries)]
<1>1. Summable(f)
  BY TaskEntries DEF Summable
<1>2. TotalOf(T) = SumOf(f)
  BY DEF TotalOf
<1> HIDE DEF f
<1>3. SumOf(f) \in Nat
  BY <1>1, SumType
<1> QED
  BY <1>1, <1>2, <1>3 DEF f

(* that of two sets without a common batch is their sum, *)
LEMMA TotalOfJoin ==
  ASSUME NEW T \in SUBSET Task, IsFiniteSet(T),
         NEW U \in SUBSET Task, IsFiniteSet(U), T \cap U = {}
  PROVE  TotalOf(T \union U) = TotalOf(T) + TotalOf(U)
<1> DEFINE f == [t \in T \union U |-> Len(t.entries)]
           d == [t \in T |-> Len(t.entries)]
           e == [t \in U |-> Len(t.entries)]
<1>1. Joins(f, d, e)
  BY DEF Joins
<1>2. Summable(d) /\ Summable(e)
  BY TotalOfType
<1> HIDE DEF f, d, e
<1>3. SumOf(f) = SumOf(d) + SumOf(e)
  BY <1>1, <1>2, SumJoin
<1> QED
  BY <1>3 DEF f, d, e, TotalOf

(* and that of a single batch is its length. *)
LEMMA TotalOfOne ==
  ASSUME NEW t \in Task
  PROVE  TotalOf({t}) = Len(t.entries)
<1> DEFINE f == [u \in {t} |-> Len(u.entries)]
<1>1. DOMAIN f = {t} /\ f[t] = Len(t.entries) /\ f[t] \in Nat
  BY TaskEntries
<1>2. TotalOf({t}) = SumOf(f)
  BY DEF TotalOf
<1> HIDE DEF f
<1> QED
  BY <1>1, <1>2, SumSingle

-----------------------------------------------------------------------------
(***************************************************************************)
(* What processFlushQueue moves: the k batches at the head of q.           *)
(***************************************************************************)
FirstBatches(q, k) == {q[i] : i \in 1 .. k}

(* The rest stays in line, behind what is sent now. *)
LEMMA LinedRest ==
  ASSUME NEW S, NEW H, NEW q \in Seq(Task), NEW k \in 0 .. Len(q), Lined(S, q, H),
         NEW G, G = S \union In(FirstBatches(q, k))
  PROVE  /\ Lined(G, SubSeq(q, k + 1, Len(q)), H)
         /\ In(ToSet(q)) = In(FirstBatches(q, k)) \union In(ToSet(SubSeq(q, k + 1, Len(q))))
<1> DEFINE n == Len(q)
           rest == SubSeq(q, k + 1, n)
           F == FirstBatches(q, k)
<1>1. DOMAIN q = 1 .. n /\ n \in Nat /\ k \in Nat /\ k <= n
  BY LenProperties
<1>2. DOMAIN rest = 1 .. n - k /\ \A a \in 1 .. n - k : rest[a] = q[k + a]
  BY RestOf
<1> HIDE DEF n, rest
<1>3. /\ \A a \in 1 .. n - k : k + a \in 1 .. n
      /\ \A a \in 1 .. n - k, i \in 1 .. k : i < k + a
      /\ \A a, b \in 1 .. n - k : a < b => k + a < k + b
      /\ \A i \in 1 .. k : i \in 1 .. n
  BY <1>1
<1>4. \A x \in In(F) : \E i \in 1 .. k : x \in Of(q[i])
  BY DEF In, FirstBatches
<1>5. \A a \in 1 .. n - k : /\ IsBatch(rest[a])
                            /\ Before(G, Of(rest[a]))
                            /\ Before(Of(rest[a]), H)
  <2> SUFFICES ASSUME NEW a \in 1 .. n - k
               PROVE  /\ IsBatch(q[k + a])
                      /\ Before(G, Of(q[k + a]))
                      /\ Before(Of(q[k + a]), H)
    BY <1>2
  <2>1. /\ IsBatch(q[k + a]) /\ Before(S, Of(q[k + a])) /\ Before(Of(q[k + a]), H)
        /\ \A i \in 1 .. k : Before(Of(q[i]), Of(q[k + a]))
    BY <1>1, <1>3 DEF Lined
  <2>2. Before(In(F), Of(q[k + a]))
    BY <1>4, <2>1 DEF Before
  <2> QED
    BY <2>1, <2>2 DEF Before
<1>6. \A a, b \in 1 .. n - k : a < b => Before(Of(rest[a]), Of(rest[b]))
  BY <1>1, <1>2, <1>3 DEF Lined
<1>7. Before(G, H)
  <2>1. \A i \in 1 .. k : Before(Of(q[i]), H)
    BY <1>1, <1>3 DEF Lined
  <2> QED
    BY <1>4, <2>1 DEF Lined, Before
<1>8. In(ToSet(q)) = In(F) \union In(ToSet(rest))
  <2>1. \A a \in 1 .. n : a \in 1 .. k \/ (a - k \in 1 .. n - k /\ k + (a - k) = a)
    BY <1>1
  <2>2. ToSet(q) = F \union ToSet(rest)
    <3>1. \A a \in 1 .. n : q[a] \in F \/ (a - k \in 1 .. n - k /\ rest[a - k] = q[a])
      BY <1>2, <2>1 DEF FirstBatches
    <3>2. \A a \in 1 .. n - k : rest[a] = q[k + a] /\ k + a \in 1 .. n
      BY <1>2, <1>3
    <3> QED
      BY <1>1, <1>2, <1>3, <3>1, <3>2 DEF ToSet, FirstBatches
  <2> QED
    BY <2>2 DEF In
<1> HIDE DEF F
<1>9. Lined(G, rest, H)
  BY <1>2, <1>5, <1>6, <1>7 DEF Lined
<1> QED
  BY <1>8, <1>9 DEF n, rest, F

(* The batches that start are k, are not with the transport yet, and share *)
(* no entry with each other or with what is there.                         *)
LEMMA FirstApart ==
  ASSUME NEW H, NEW q \in Seq(Task), NEW k \in 0 .. Len(q), Lined(Gone, q, H),
         Apart(sending), sending \subseteq Task
  PROVE  /\ FirstBatches(q, k) \subseteq Task
         /\ FirstBatches(q, k) \cap sending = {}
         /\ IsFiniteSet(FirstBatches(q, k)) /\ Cardinality(FirstBatches(q, k)) = k
         /\ TotalOf(FirstBatches(q, k)) = Total(SubSeq(q, 1, k))
         /\ Apart(sending \union FirstBatches(q, k))
<1> DEFINE F == FirstBatches(q, k)
           b == [i \in 1 .. k |-> q[i]]
<1>1. /\ DOMAIN q = 1 .. Len(q) /\ Len(q) \in Nat /\ k \in Nat /\ k <= Len(q)
      /\ \A i \in 1 .. k : i \in 1 .. Len(q)
      /\ \A i \in 1 .. k : q[i] \in Task
  BY LenProperties, ElementOfSeq
<1>2. /\ F \subseteq Task
      /\ \A t \in F : IsBatch(t) /\ Before(Gone, Of(t)) /\ Of(t) # {} /\ Of(t) \subseteq Nat
  <2>1. \A t \in F : \E i \in 1 .. k : t = q[i]
    BY DEF FirstBatches
  <2>2. \A i \in 1 .. k : q[i] \in Task /\ IsBatch(q[i]) /\ Before(Gone, Of(q[i]))
    BY <1>1 DEF Lined
  <2>3. \A t \in Task : /\ IsBatch(t) => Of(t) # {}
                        /\ Of(t) \subseteq 1 .. MaxLogs
    BY TaskEntries
  <2>4. 1 .. MaxLogs \subseteq Nat
    OBVIOUS
  <2> HIDE DEF F
  <2> QED
    BY <2>1, <2>2, <2>3, <2>4, Zenon
<1>3. \A i, j \in 1 .. k : i # j => Of(q[i]) \cap Of(q[j]) = {}
  <2>1. \A i, j \in 1 .. k : i < j => Of(q[i]) \cap Of(q[j]) = {}
    <3> SUFFICES ASSUME NEW i \in 1 .. k, NEW j \in 1 .. k, i < j
                 PROVE  Of(q[i]) \cap Of(q[j]) = {}
      OBVIOUS
    <3>1. Before(Of(q[i]), Of(q[j]))
      BY <1>1 DEF Lined
    <3>2. Of(q[j]) \in SUBSET Nat
      BY <1>1, TaskEntries
    <3> QED
      BY <3>1, <3>2, BeforeApart
  <2>2. \A i, j \in 1 .. k : i # j => i < j \/ j < i
    BY <1>1
  <2> QED
    BY <2>1, <2>2
<1>4. \A i, j \in 1 .. k : q[i] = q[j] => i = j
  BY <1>1, <1>2, <1>3 DEF FirstBatches
<1>5. \A t \in F : Of(t) \cap Gone = {}
  BY <1>2, BeforeApart
<1>6. F \cap sending = {}
  <2>1. \A t \in sending : Of(t) \subseteq Gone
    BY DEF Gone, In
  <2> HIDE DEF F
  <2> QED
    BY <1>2, <1>5, <2>1
<1>7. b \in Bijection(1 .. k, F)
  BY <1>4 DEF Bijection, Injection, Surjection, IsInjective, FirstBatches
<1>8. IsFiniteSet(F) /\ Cardinality(F) = k
  <2>1. IsFiniteSet(1 .. k) /\ Cardinality(1 .. k) = k
    BY <1>1, IntervalIsFinite
  <2>2. ExistsBijection(1 .. k, F)
    BY <1>7 DEF ExistsBijection
  <2> QED
    BY <2>1, <2>2, FS_Bijection
<1>9. TotalOf(F) = Total(SubSeq(q, 1, k))
  <2> DEFINE old == SubSeq(q, 1, k)
             f == [i \in DOMAIN old |-> Len(old[i].entries)]
             g == [t \in F |-> Len(t.entries)]
  <2>1. old \in Seq(Task) /\ DOMAIN old = 1 .. k /\ \A i \in 1 .. k : old[i] = q[i]
    BY FirstOf
  <2>2. DOMAIN f = 1 .. k /\ \A i \in 1 .. k : f[i] = Len(q[i].entries)
    BY <2>1
  <2>3. DOMAIN g = F /\ \A t \in F : g[t] = Len(t.entries)
    OBVIOUS
  <2>4. \A i \in 1 .. k : f[i] \in Nat
    BY <1>1, <2>2, TaskEntries
  <2>5. Summable(f)
    <3>1. IsFiniteSet(1 .. k)
      BY <1>1, IntervalIsFinite
    <3> HIDE DEF f
    <3> QED
      BY <2>2, <2>4, <3>1 DEF Summable
  <2>6. DOMAIN b = 1 .. k /\ \A i \in 1 .. k : b[i] = q[i]
    OBVIOUS
  <2>7. Total(old) = SumOf(f) /\ TotalOf(F) = SumOf(g)
    BY DEF Total, TotalOf
  <2> HIDE DEF f, g, b, old
  <2>8. Renames(b, f, g)
    <3>1. \A i \in 1 .. k : q[i] \in F
      BY DEF FirstBatches
    <3>2. \A t \in F : \E i \in 1 .. k : q[i] = t
      BY DEF FirstBatches
    <3> HIDE DEF F
    <3>3. \A i \in 1 .. k : b[i] \in F /\ g[b[i]] = f[i]
      BY <2>2, <2>3, <2>6, <3>1
    <3>4. \A i, j \in 1 .. k : b[i] = b[j] => i = j
      BY <1>4, <2>6
    <3>5. \A t \in F : \E i \in 1 .. k : b[i] = t
      BY <2>6, <3>2
    <3> QED
      BY <2>2, <2>3, <3>3, <3>4, <3>5 DEF Renames
  <2>9. SumOf(g) = SumOf(f)
    BY <2>5, <2>8, SumRenamed
  <2> QED
    BY <2>7, <2>9 DEF old
<1>10. Apart(sending \union F)
  <2>1. IsFiniteSet(sending \union F)
    BY <1>8, FS_Union DEF Apart
  <2>2. \A t \in sending \union F : IsBatch(t) /\ Of(t) \cap Settled = {}
    BY <1>2, <1>5 DEF Apart, Gone
  <2>3. \A t, u \in F : t # u => Of(t) \cap Of(u) = {}
    BY <1>3 DEF FirstBatches
  <2>4. \A t \in F, u \in sending : Of(t) \cap Of(u) = {}
    BY <1>5 DEF Gone, In
  <2>5. \A t, u \in sending : t # u => Of(t) \cap Of(u) = {}
    BY DEF Apart
  <2> HIDE DEF F
  <2> QED
    BY <2>1, <2>2, <2>3, <2>4, <2>5 DEF Apart
<1> QED
  BY <1>2, <1>6, <1>8, <1>9, <1>10

(* processFlushQueue as a whole: order, separation, slots and entries.     *)
LEMMA ProcessMoves ==
  ASSUME NEW n \in 0 .. MaxConcurrent, NEW H, NEW q \in Seq(Task),
         Lined(Gone, q, H), Apart(sending), sending \subseteq Task,
         ProcessFlushQueue(n, q), UNCHANGED <<delivered, failed>>
  PROVE  /\ Lined(Gone', queue', H) /\ Apart(sending)'
         /\ Total(queue') + TotalOf(sending') = Total(q) + TotalOf(sending)
         /\ Total(queue') \in Nat /\ TotalOf(sending') \in Nat
         /\ Cardinality(sending) \in Nat /\ inFlight' \in Nat
         /\ inFlight' - n = Cardinality(sending') - Cardinality(sending)
         /\ Cardinality(sending') \in Nat
         /\ In(ToSet(queue')) \union In(sending') = In(ToSet(q)) \union In(sending)
         /\ sending \subseteq sending' /\ In(sending' \ sending) \subseteq In(ToSet(q))
<1> DEFINE free == IF n < MaxConcurrent THEN MaxConcurrent - n ELSE 0
           k == IF Len(q) < free THEN Len(q) ELSE free
           F == FirstBatches(q, k)
<1>1. k \in 0 .. Len(q) /\ k \in Nat /\ n \in Nat
  BY LenProperties
<1>2. /\ queue' = SubSeq(q, k + 1, Len(q))
      /\ inFlight' = n + k
      /\ sending' = sending \union F
  BY DEF ProcessFlushQueue, FirstBatches
<1> HIDE DEF k, free
<1>3. /\ F \subseteq Task /\ F \cap sending = {}
      /\ IsFiniteSet(F) /\ Cardinality(F) = k
      /\ TotalOf(F) = Total(SubSeq(q, 1, k))
      /\ Apart(sending \union F)
  BY <1>1, FirstApart
<1>4. /\ Lined(Gone', SubSeq(q, k + 1, Len(q)), H)
      /\ In(ToSet(q)) = In(F) \union In(ToSet(SubSeq(q, k + 1, Len(q))))
  <2>1. Gone' = Gone \union In(F)
    BY <1>2 DEF Settled, Gone, In, Of
  <2> QED
    BY <1>1, <2>1, LinedRest
<1> HIDE DEF F
<1>5. In(sending') = In(sending) \union In(F)
  BY <1>2 DEF In
<1>6. Settled' = Settled /\ Gone' = Gone \union In(F)
  BY <1>5 DEF Settled, Gone, In, Of
<1>7. Apart(sending)'
  <2>1. \A t : Of(t)' = Of(t)
    OBVIOUS
  <2> QED
    BY <1>2, <1>3, <1>6 DEF Apart, Of, IsBatch, Ascending
<1>8. IsFiniteSet(sending) /\ sending \in SUBSET Task /\ F \in SUBSET Task
  BY <1>3 DEF Apart
<1>9. Total(q) = Total(SubSeq(q, 1, k)) + Total(SubSeq(q, k + 1, Len(q)))
  BY <1>1, TotalParts
<1>10. TotalOf(sending \union F) = TotalOf(sending) + TotalOf(F)
  BY <1>3, <1>8, TotalOfJoin
<1>11. /\ Total(SubSeq(q, 1, k)) \in Nat
       /\ Total(SubSeq(q, k + 1, Len(q))) \in Nat
       /\ TotalOf(sending) \in Nat
  BY <1>1, <1>8, FirstOf, RestOf, TotalType, TotalOfType
<1>12. Cardinality(sending \union F) = Cardinality(sending) + k
       /\ Cardinality(sending) \in Nat
  <2>1. Cardinality(F \cap sending) = 0 /\ Cardinality(sending \cap F) = 0
    BY <1>3, FS_EmptySet
  <2>2. Cardinality(sending) \in Nat
    BY <1>8, FS_CardinalityType
  <2>3. Cardinality(sending \union F)
          = Cardinality(sending) + Cardinality(F) - Cardinality(sending \cap F)
    BY <1>3, <1>8, FS_Union
  <2> QED
    BY <1>1, <1>3, <2>1, <2>2, <2>3
<1>13. In(sending' \ sending) \subseteq In(ToSet(q))
  BY <1>2, <1>4 DEF In
<1>14. Lined(Gone', queue', H)
  BY <1>2, <1>4, <1>6
<1>15. In(ToSet(queue')) \union In(sending') = In(ToSet(q)) \union In(sending)
  BY <1>2, <1>4, <1>5
<1>16. /\ Total(queue') + TotalOf(sending') = Total(q) + TotalOf(sending)
       /\ Total(queue') \in Nat /\ TotalOf(sending') \in Nat
  BY <1>2, <1>3, <1>9, <1>10, <1>11
<1>17. /\ inFlight' - n = Cardinality(sending') - Cardinality(sending)
       /\ inFlight' \in Nat /\ Cardinality(sending') \in Nat
  BY <1>1, <1>2, <1>12
<1> QED
  BY <1>2, <1>7, <1>12, <1>13, <1>14, <1>15, <1>16, <1>17

-----------------------------------------------------------------------------
(***************************************************************************)
(* Step by step.                                                           *)
(***************************************************************************)
(* A queue that lost its head is still in line. *)
LEMMA LinedTail ==
  ASSUME NEW S, NEW H, NEW q \in Seq(Task), q # <<>>, Lined(S, q, H)
  PROVE  Lined(S, Tail(q), H) /\ In(ToSet(Tail(q))) \subseteq In(ToSet(q))
<1>1. PICK k \in 0 .. Len(q) : k = 1 /\ Tail(q) = SubSeq(q, k + 1, Len(q))
  BY TailIsRest
<1> DEFINE G == S \union In(FirstBatches(q, k))
<1>2. G = S \union In(FirstBatches(q, k))
  OBVIOUS
<1> HIDE DEF G
<1> DEFINE rest == SubSeq(q, k + 1, Len(q))
<1>3. /\ Lined(G, rest, H)
      /\ In(ToSet(q)) = In(FirstBatches(q, k)) \union In(ToSet(rest))
  BY <1>2, LinedRest
<1> HIDE DEF rest
<1>4. Lined(S, Tail(q), H)
  <2>1. Lined(S, rest, H)
    BY <1>2, <1>3 DEF Lined, Before
  <2> QED
    BY <1>1, <2>1 DEF rest
<1>5. In(ToSet(Tail(q))) \subseteq In(ToSet(q))
  BY <1>1, <1>3 DEF rest
<1> QED
  BY <1>4, <1>5

(* A batch of what was held goes to the end of the line. *)
LEMMA LinedAppend ==
  ASSUME NEW S, NEW t \in Task, NEW q \in Seq(Task), IsBatch(t), Lined(S, q, Of(t))
  PROVE  /\ Lined(S, Append(q, t), {})
         /\ In(ToSet(Append(q, t))) = In(ToSet(q)) \union Of(t)
<1> DEFINE n == Len(q)
           all == Append(q, t)
<1>1. DOMAIN q = 1 .. n /\ n \in Nat
  BY LenProperties
<1>2. /\ all \in Seq(Task) /\ Len(all) = n + 1
      /\ \A i \in 1 .. n : all[i] = q[i]
      /\ all[n + 1] = t
  BY AppendProperties
<1>3. DOMAIN all = 1 .. n + 1
  BY <1>2, LenProperties
<1>4. ToSet(all) = ToSet(q) \union {t}
  BY ToSetAppend
<1> HIDE DEF n, all
<1>5. \A a \in 1 .. n + 1 : a \in 1 .. n \/ a = n + 1
  BY <1>1
<1>6. \A a \in 1 .. n + 1 : IsBatch(all[a]) /\ Before(S, Of(all[a]))
  BY <1>1, <1>2, <1>5 DEF Lined
<1>7. \A a, b \in 1 .. n + 1 : a < b => Before(Of(all[a]), Of(all[b]))
  <2> SUFFICES ASSUME NEW a \in 1 .. n + 1, NEW b \in 1 .. n + 1, a < b
               PROVE  Before(Of(all[a]), Of(all[b]))
    OBVIOUS
  <2>1. a \in 1 .. n
    BY <1>1
  <2>2. CASE b \in 1 .. n
    BY <1>1, <1>2, <2>1, <2>2 DEF Lined
  <2>3. CASE b = n + 1
    BY <1>1, <1>2, <2>1, <2>3 DEF Lined
  <2> QED
    BY <1>5, <2>2, <2>3
<1>8. Lined(S, all, {})
  BY <1>3, <1>6, <1>7 DEF Lined, Before
<1>9. In(ToSet(all)) = In(ToSet(q)) \union Of(t)
  BY <1>4 DEF In
<1> QED
  BY <1>8, <1>9 DEF all

(* With no slot in use and nothing queued the pipeline is empty.           *)
LEMMA IdleIsEmpty ==
  ASSUME NEW n, NEW q, NEW T, NEW U, IsFiniteSet(T), IsFiniteSet(U),
         n = Cardinality(T) + Cardinality(U), Idle(n, q)
  PROVE  T = {} /\ In(ToSet(q) \union T) = {}
<1>1. Cardinality(T) \in Nat /\ Cardinality(U) \in Nat
  BY FS_CardinalityType
<1>2. Cardinality(T) = 0
  BY <1>1 DEF Idle
<1>3. T = {}
  BY <1>2, FS_EmptySet
<1>4. ToSet(q) = {}
  BY DEF Idle, ToSet
<1> QED
  BY <1>3, <1>4 DEF In

(* The numbers in the accounts are numbers. *)
LEMMA Numbers ==
  ASSUME IInv, LineInv
  PROVE  /\ admitted \in Nat /\ evicted \in Nat /\ queueDropped \in Nat
         /\ Len(held) \in Nat /\ Total(queue) \in Nat /\ TotalOf(sending) \in Nat
         /\ IsFiniteSet(delivered) /\ IsFiniteSet(failed)
         /\ Cardinality(delivered) \in Nat /\ Cardinality(failed) \in Nat
         /\ IsFiniteSet(sending) /\ IsFiniteSet(settled) /\ inFlight \in Nat
         /\ Cardinality(sending) \in Nat /\ Cardinality(settled) \in Nat
         /\ inFlight = Cardinality(sending) + Cardinality(settled)
         /\ admitted = evicted + queueDropped
              + Len(held) + Total(queue) + TotalOf(sending)
              + Cardinality(delivered) + Cardinality(failed)
<1>1. /\ admitted \in Nat /\ evicted \in Nat /\ Len(held) \in Nat
      /\ delivered \in SUBSET (1 .. MaxLogs) /\ failed \in SUBSET (1 .. MaxLogs)
      /\ queue \in Seq(Task) /\ sending \in SUBSET Task /\ inFlight \in Nat
  BY LenProperties DEF IInv, TypeOK, Buffer!BufferTypeOK
<1>2. IsFiniteSet(1 .. MaxLogs)
  BY IntervalIsFinite
<1>3. IsFiniteSet(delivered) /\ IsFiniteSet(failed)
  BY <1>1, <1>2, FS_Subset
<1>4. IsFiniteSet(sending) /\ IsFiniteSet(settled)
  BY DEF LineInv, TransportInv, Apart
<1>5. Total(queue) \in Nat /\ TotalOf(sending) \in Nat
  BY <1>1, <1>4, TotalType, TotalOfType
<1> QED
  BY <1>1, <1>3, <1>4, <1>5, FS_CardinalityType
     DEF LineInv, AccountInv, EveryEntryAccounted

(* What a flush() in a caller's name cannot undo for the others.           *)
LEMMA BarrierKept ==
  ASSUME BarrierInv, UNCHANGED <<mark, admitted>>,
         ToSet(held') \subseteq ToSet(held),
         In(ToSet(queue') \union sending')
           \subseteq In(ToSet(queue) \union sending) \union ToSet(held),
         \A c \in Callers : pc'[c] = "done" =>
           pc[c] = "done" \/ In(ToSet(queue') \union sending') = {}
  PROVE  BarrierInv'
<1> SUFFICES ASSUME NEW c \in Callers
             PROVE  /\ mark[c] <= admitted
                    /\ Before(1 .. mark[c], ToSet(held'))
                    /\ pc'[c] = "done" =>
                         Before(1 .. mark[c], In(ToSet(queue') \union sending'))
  BY DEF BarrierInv, Before, In, Of
<1>1. /\ mark[c] <= admitted /\ Before(1 .. mark[c], ToSet(held))
      /\ pc[c] = "done" => Before(1 .. mark[c], In(ToSet(queue) \union sending))
  BY DEF BarrierInv
<1> QED
  BY <1>1 DEF Before

(* Before the first call there are no entries anywhere. *)
LEMMA InitLineInv == Init => LineInv
<1> SUFFICES ASSUME Init
             PROVE  LineInv
  OBVIOUS
<1>1. /\ held = <<>> /\ queue = <<>> /\ sending = {} /\ settled = {}
      /\ delivered = {} /\ failed = {} /\ admitted = 0 /\ inFlight = 0
      /\ evicted = 0 /\ queueDropped = 0 /\ shutdown = "running"
      /\ mark = [c \in Callers |-> 0]
  BY DEF Init, Buffer!BufferInit
<1>2. ToSet(held) = {} /\ ToSet(queue) = {} /\ DOMAIN held = {} /\ DOMAIN queue = {}
  BY <1>1 DEF ToSet
<1>3. Gone = {} /\ In(ToSet(queue)) = {} /\ In(ToSet(queue) \union sending) = {}
  BY <1>1, <1>2 DEF Gone, Settled, In
<1>4. OrderInv
  BY <1>2, <1>3 DEF OrderInv, Ascending, Lined, Before
<1>5. IsFiniteSet({}) /\ Cardinality({}) = 0
  BY FS_EmptySet
<1>6. TransportInv
  BY <1>1, <1>5 DEF TransportInv, Apart
<1>7. TotalOf({}) = 0
  BY SumEmpty DEF TotalOf
<1>8. AccountInv
  BY <1>1, <1>5, <1>7, TotalEmpty DEF AccountInv, EveryEntryAccounted
<1>9. ShutdownInv /\ BarrierInv
  BY <1>1, <1>2, <1>3 DEF ShutdownInv, Destroyed, BarrierInv, Before
<1> QED
  BY <1>4, <1>6, <1>8, <1>9 DEF LineInv

(* Arithmetic of the accounts: slots are taken as batches are started. *)
LEMMA SlotsMove ==
  ASSUME NEW n \in Nat, NEW m \in Nat, NEW a \in Nat, NEW b \in Nat, NEW c \in Nat,
         n = a + c, m - n = b - a
  PROVE  m = b + c
  OBVIOUS

(* A batch is appended, another one dropped, some go to the transport. *)
LEMMA EntriesMove ==
  ASSUME NEW all \in Nat, NEW e \in Nat, NEW d \in Nat, NEW h \in Nat,
         NEW tq \in Nat, NEW ts \in Nat, NEW x \in Nat, NEW y \in Nat,
         NEW lost \in Nat, NEW rest \in Nat, NEW tq1 \in Nat, NEW ts1 \in Nat,
         all = e + d + h + tq + ts + x + y,
         tq = lost + rest,
         tq1 + ts1 = (rest + h) + ts
  PROVE  all = e + (d + lost) + 0 + tq1 + ts1 + x + y
  OBVIOUS

(* There is something to hand over. *)
Holding == held # <<>>

(* What handing over does to the line and to the accounts.                 *)
LEMMA EnqueueMoves ==
  ASSUME IInv, LineInv, NEW owner \in Owners, Holding,
         Buffer!Take, EnqueueFlush(held, owner),
         UNCHANGED <<admitted, delivered, failed>>
  PROVE  /\ OrderInv' /\ TransportInv' /\ AccountInv'
         /\ ToSet(held') = {}
         /\ In(ToSet(queue') \union sending')
              \subseteq In(ToSet(queue) \union sending) \union ToSet(held)
<1> DEFINE full == Len(queue) >= MaxPending
           task == [entries |-> held, owner |-> owner]
           rest == IF full THEN Tail(queue) ELSE queue
           lost == IF full THEN Len(Head(queue).entries) ELSE 0
           q == Append(rest, task)
           H == ToSet(held)
<1>1. /\ queue \in Seq(Task) /\ held \in Seq(1 .. MaxLogs)
      /\ inFlight \in 0 .. MaxConcurrent /\ sending \subseteq Task
      /\ Lined(Gone, queue, H) /\ Ascending(held) /\ Apart(sending)
  BY DEF IInv, TypeOK, Buffer!BufferTypeOK, LineInv, OrderInv, TransportInv
<1>2. task \in Task /\ task.entries = held /\ Of(task) = H /\ IsBatch(task)
  BY <1>1 DEF Task, Of, IsBatch, Holding
<1>3. full => queue # <<>>
  BY DEF IInv, QueueInv
<1>4. /\ rest \in Seq(Task) /\ Lined(Gone, rest, H)
      /\ In(ToSet(rest)) \subseteq In(ToSet(queue))
      /\ Total(queue) = lost + Total(rest) /\ lost \in Nat /\ Total(rest) \in Nat
  <2>1. CASE full
    <3>1. Tail(queue) \in Seq(Task) /\ Head(queue) \in Task
      BY <1>1, <1>3, <2>1, TailIsRest
    <3>2. Lined(Gone, Tail(queue), H) /\ In(ToSet(Tail(queue))) \subseteq In(ToSet(queue))
      BY <1>1, <1>3, <2>1, LinedTail
    <3>3. Total(queue) = Len(Head(queue).entries) + Total(Tail(queue))
      BY <1>1, <1>3, <2>1, TotalTail
    <3>4. Len(Head(queue).entries) \in Nat /\ Total(Tail(queue)) \in Nat
      BY <3>1, TaskEntries, TotalType
    <3> QED
      BY <2>1, <3>1, <3>2, <3>3, <3>4
  <2>2. CASE ~ full
    <3>1. Total(queue) \in Nat
      BY <1>1, TotalType
    <3> QED
      BY <1>1, <2>2, <3>1
  <2> QED
    BY <2>1, <2>2
<1>5. /\ ProcessFlushQueue(inFlight, q)
      /\ queueDropped' = queueDropped + lost
      /\ settled' = settled
      /\ held' = <<>> /\ evicted' = evicted
  BY DEF EnqueueFlush, Buffer!Take
<1> HIDE DEF full, lost, rest, task
<1>6. /\ q \in Seq(Task) /\ Lined(Gone, q, {})
      /\ In(ToSet(q)) = In(ToSet(rest)) \union H
      /\ Total(q) = Total(rest) + Len(held)
  <2>1. Lined(Gone, rest, Of(task))
    BY <1>2, <1>4
  <2>2. q \in Seq(Task)
    BY <1>2, <1>4, AppendProperties
  <2>3. Lined(Gone, q, {}) /\ In(ToSet(q)) = In(ToSet(rest)) \union Of(task)
    BY <1>2, <1>4, <2>1, LinedAppend
  <2>4. Total(q) = Total(rest) + Len(task.entries)
    BY <1>2, <1>4, TotalAppend
  <2> QED
    BY <1>2, <2>2, <2>3, <2>4
<1> HIDE DEF q, H
<1>7. /\ Lined(Gone', queue', {}) /\ Apart(sending)'
      /\ Total(queue') + TotalOf(sending') = Total(q) + TotalOf(sending)
      /\ Total(queue') \in Nat /\ TotalOf(sending') \in Nat
      /\ Cardinality(sending) \in Nat /\ inFlight' \in Nat
      /\ inFlight' - inFlight = Cardinality(sending') - Cardinality(sending)
      /\ Cardinality(sending') \in Nat
      /\ In(ToSet(queue')) \union In(sending') = In(ToSet(q)) \union In(sending)
  BY <1>1, <1>5, <1>6, ProcessMoves
<1>8. ToSet(held') = {} /\ DOMAIN held' = {} /\ Len(held') = 0
  BY <1>5 DEF ToSet
<1>9. /\ In(ToSet(queue') \union sending') = In(ToSet(queue')) \union In(sending')
      /\ In(ToSet(queue) \union sending) = In(ToSet(queue)) \union In(sending)
  BY DEF In
<1>10. In(ToSet(queue') \union sending')
         \subseteq In(ToSet(queue) \union sending) \union H
  BY <1>4, <1>6, <1>7, <1>9
<1>11. Settled' = Settled
  BY DEF Settled
<1>12. OrderInv'
  <2>1. Gone' \union In(ToSet(queue')) \union ToSet(held') \subseteq 1 .. admitted'
    <3>1. Gone \union In(ToSet(queue)) \union H \subseteq 1 .. admitted
      BY DEF LineInv, OrderInv, H
    <3>2. Gone' = Settled \union In(sending') /\ Gone = Settled \union In(sending)
      BY <1>11 DEF Gone, In, Of
    <3> QED
      BY <1>4, <1>6, <1>7, <1>8, <3>1, <3>2
  <2>2. Ascending(held)'
    BY <1>8 DEF Ascending
  <2>3. In(ToSet(queue))' = In(ToSet(queue'))
    BY DEF In, Of
  <2>4. Lined(Gone, queue, ToSet(held))' <=> Lined(Gone', queue', {})
    BY <1>8 DEF Lined, Before, IsBatch, Ascending, Of
  <2> QED
    BY <1>7, <2>1, <2>2, <2>3, <2>4 DEF OrderInv
<1>13. TransportInv'
  BY <1>5, <1>7, <1>11 DEF LineInv, TransportInv, IsBatch, Ascending, Of
<1>14. AccountInv'
  <2>1. /\ admitted \in Nat /\ evicted \in Nat /\ queueDropped \in Nat
        /\ Len(held) \in Nat /\ Total(queue) \in Nat /\ TotalOf(sending) \in Nat
        /\ Cardinality(delivered) \in Nat /\ Cardinality(failed) \in Nat
        /\ Cardinality(settled) \in Nat /\ inFlight \in Nat
        /\ inFlight = Cardinality(sending) + Cardinality(settled)
        /\ admitted = evicted + queueDropped
             + Len(held) + Total(queue) + TotalOf(sending)
             + Cardinality(delivered) + Cardinality(failed)
    BY Numbers
  <2>2. /\ Total(queue) = lost + Total(rest) /\ lost \in Nat /\ Total(rest) \in Nat
        /\ Total(q) = Total(rest) + Len(held) /\ Total(q) \in Nat
        /\ Total(queue') + TotalOf(sending') = Total(q) + TotalOf(sending)
        /\ Total(queue') \in Nat /\ TotalOf(sending') \in Nat
        /\ Cardinality(sending) \in Nat /\ Cardinality(sending') \in Nat
        /\ inFlight' - inFlight = Cardinality(sending') - Cardinality(sending)
        /\ inFlight' \in Nat
    BY <1>4, <1>6, <1>7, TotalType, Zenon
  <2>3. admitted = evicted + (queueDropped + lost)
             + 0 + Total(queue') + TotalOf(sending')
             + Cardinality(delivered) + Cardinality(failed)
    <3>1. PICK tq \in Nat, ts \in Nat, tr \in Nat, tq1 \in Nat, ts1 \in Nat,
               x \in Nat, y \in Nat :
            /\ tq = Total(queue) /\ ts = TotalOf(sending) /\ tr = Total(rest)
            /\ tq1 = Total(queue') /\ ts1 = TotalOf(sending')
            /\ x = Cardinality(delivered) /\ y = Cardinality(failed)
      BY <2>1, <2>2
    <3>2. admitted = evicted + queueDropped + Len(held) + tq + ts + x + y
      BY <2>1, <3>1
    <3>3. tq = lost + tr /\ tq1 + ts1 = (tr + Len(held)) + ts
      BY <2>2, <3>1
    <3>4. /\ admitted \in Nat /\ evicted \in Nat /\ queueDropped \in Nat
          /\ Len(held) \in Nat /\ lost \in Nat
      BY <2>1, <2>2
    <3>5. admitted = evicted + (queueDropped + lost) + 0 + tq1 + ts1 + x + y
      BY <3>2, <3>3, <3>4, EntriesMove
    <3> QED
      BY <3>1, <3>5
  <2>4. inFlight' = Cardinality(sending') + Cardinality(settled)
    <3>1. /\ inFlight \in Nat /\ inFlight' \in Nat
          /\ Cardinality(sending) \in Nat /\ Cardinality(sending') \in Nat
          /\ Cardinality(settled) \in Nat
          /\ inFlight = Cardinality(sending) + Cardinality(settled)
          /\ inFlight' - inFlight = Cardinality(sending') - Cardinality(sending)
      BY <2>1, <2>2, Zenon
    <3> QED
      BY <3>1, SlotsMove
  <2>5. queueDropped' \in Nat /\ queueDropped' = queueDropped + lost
    BY <1>4, <1>5, <2>1
  <2>6. EveryEntryAccounted'
    BY <1>5, <1>8, <2>3, <2>5 DEF EveryEntryAccounted, Total, TotalOf
  <2> QED
    BY <1>5, <2>4, <2>5, <2>6 DEF AccountInv
<1> QED
  BY <1>8, <1>10, <1>12, <1>13, <1>14 DEF H

-----------------------------------------------------------------------------
(* The invariant of the next state in terms of the next values. *)
LEMMA Primed ==
  /\ Settled' = delivered' \union failed'
  /\ Gone' = Settled' \union In(sending')
  /\ OrderInv' <=> /\ Ascending(held')
                   /\ Lined(Gone', queue', ToSet(held'))
                   /\ Gone' \union In(ToSet(queue')) \union ToSet(held') \subseteq 1 .. admitted'
  /\ Apart(sending)' <=> /\ IsFiniteSet(sending')
                         /\ \A t \in sending' : IsBatch(t) /\ Of(t) \cap Settled' = {}
                         /\ \A t, u \in sending' : t # u => Of(t) \cap Of(u) = {}
  /\ TransportInv' <=> /\ Apart(sending)'
                       /\ IsFiniteSet(settled')
                       /\ \A t \in settled' : IsBatch(t) /\ Of(t) \subseteq Settled'
                       /\ delivered' \cap failed' = {}
  /\ AccountInv' <=> /\ queueDropped' \in Nat
                     /\ inFlight' = Cardinality(sending') + Cardinality(settled')
                     /\ admitted' = evicted' + queueDropped'
                          + Len(held') + Total(queue') + TotalOf(sending')
                          + Cardinality(delivered') + Cardinality(failed')
<1>1. Settled' = delivered' \union failed'
  BY DEF Settled
<1>2. \A t : Of(t)' = Of(t) /\ (IsBatch(t)' <=> IsBatch(t))
  BY DEF Of, IsBatch, Ascending
<1>3. Gone' = Settled' \union In(sending')
  BY DEF Gone, In, Of
<1>4. OrderInv' <=> /\ Ascending(held')
                    /\ Lined(Gone', queue', ToSet(held'))
                    /\ Gone' \union In(ToSet(queue')) \union ToSet(held') \subseteq 1 .. admitted'
  <2>1. Ascending(held)' <=> Ascending(held')
    BY DEF Ascending
  <2>2. Lined(Gone, queue, ToSet(held))' <=> Lined(Gone', queue', ToSet(held'))
    BY DEF Lined, Before, IsBatch, Ascending, Of
  <2>3. In(ToSet(queue))' = In(ToSet(queue'))
    BY DEF In, Of
  <2> QED
    BY <2>1, <2>2, <2>3 DEF OrderInv
<1>5. Apart(sending)' <=> /\ IsFiniteSet(sending')
                          /\ \A t \in sending' : IsBatch(t) /\ Of(t) \cap Settled' = {}
                          /\ \A t, u \in sending' : t # u => Of(t) \cap Of(u) = {}
  BY <1>2 DEF Apart, Of, IsBatch, Ascending
<1>6. TransportInv' <=> /\ Apart(sending)'
                        /\ IsFiniteSet(settled')
                        /\ \A t \in settled' : IsBatch(t) /\ Of(t) \subseteq Settled'
                        /\ delivered' \cap failed' = {}
  BY <1>2 DEF TransportInv, Of, IsBatch, Ascending
<1>7. AccountInv' <=> /\ queueDropped' \in Nat
                      /\ inFlight' = Cardinality(sending') + Cardinality(settled')
                      /\ admitted' = evicted' + queueDropped'
                           + Len(held') + Total(queue') + TotalOf(sending')
                           + Cardinality(delivered') + Cardinality(failed')
  BY DEF AccountInv, EveryEntryAccounted, Total, TotalOf
<1> QED
  BY <1>1, <1>3, <1>4, <1>5, <1>6, <1>7

(* Nothing moves. *)
LEMMA PlacesSame ==
  ASSUME LineInv,
         UNCHANGED <<held, evicted, admitted, queue, inFlight, sending, settled,
                     queueDropped, delivered, failed>>
  PROVE  OrderInv' /\ TransportInv' /\ AccountInv'
<1>1. Settled' = Settled /\ Gone' = Gone
  BY Primed DEF Settled, Gone
<1>2. OrderInv'
  BY <1>1, Primed DEF LineInv, OrderInv
<1>3. TransportInv'
  BY <1>1, Primed DEF LineInv, TransportInv, Apart
<1>4. AccountInv'
  BY Primed DEF LineInv, AccountInv, EveryEntryAccounted
<1> QED
  BY <1>2, <1>3, <1>4

(* What add() leaves in the buffer: the newest of the entries, in order.   *)
LEMMA AddedInOrder ==
  ASSUME IInv, LineInv, NEW e, e = admitted + 1, e \in 1 .. MaxLogs, Buffer!Add(e)
  PROVE  /\ Ascending(held') /\ ToSet(held') \subseteq ToSet(held) \union {e}
         /\ Len(held') \in Nat /\ evicted' \in Nat
         /\ evicted' + Len(held') = evicted + Len(held) + 1
<1> DEFINE n == Len(held)
           all == Append(held, e)
<1>1. PICK k \in 0 .. n + 1 : /\ held' = SubSeq(all, k + 1, Len(all))
                              /\ evicted' = evicted + k
  BY DEF Buffer!Add, Buffer!Without
<1>2. /\ held \in Seq(1 .. MaxLogs) /\ evicted \in Nat /\ admitted \in Nat
      /\ Ascending(held) /\ ToSet(held) \subseteq 1 .. admitted
  BY DEF IInv, TypeOK, Buffer!BufferTypeOK, LineInv, OrderInv
<1>3. n \in Nat /\ DOMAIN held = 1 .. n /\ \A i \in 1 .. n : held[i] \in 1 .. admitted
  BY <1>2, LenProperties DEF ToSet
<1>4. /\ all \in Seq(1 .. MaxLogs) /\ Len(all) = n + 1
      /\ \A i \in 1 .. n : all[i] = held[i]
      /\ all[n + 1] = e
  BY <1>2, AppendProperties
<1>5. ToSet(all) = ToSet(held) \union {e}
  BY <1>2, ToSetAppend
<1>6. DOMAIN all = 1 .. n + 1
  BY <1>4, LenProperties
<1> HIDE DEF n, all
<1>7. \A i, j \in 1 .. n + 1 : i < j => all[i] < all[j]
  <2> SUFFICES ASSUME NEW i \in 1 .. n + 1, NEW j \in 1 .. n + 1, i < j
               PROVE  all[i] < all[j]
    OBVIOUS
  <2>1. i \in 1 .. n /\ all[i] = held[i] /\ held[i] \in 1 .. admitted
    BY <1>3, <1>4
  <2>2. CASE j \in 1 .. n
    BY <1>2, <1>3, <1>4, <2>1, <2>2 DEF Ascending
  <2>3. CASE j = n + 1
    BY <1>2, <1>4, <2>1, <2>3
  <2> QED
    BY <1>3, <2>2, <2>3
<1>8. k \in 0 .. Len(all) /\ k \in Nat
  BY <1>3, <1>4
<1> DEFINE rest == SubSeq(all, k + 1, Len(all))
<1>9. /\ rest \in Seq(1 .. MaxLogs) /\ Len(rest) = Len(all) - k
      /\ DOMAIN rest = 1 .. Len(all) - k
      /\ \A i \in 1 .. Len(all) - k : rest[i] = all[k + i]
  <2>1. all \in Seq(1 .. MaxLogs)
    BY <1>4
  <2>2. k \in 0 .. Len(all)
    BY <1>8
  <2> QED
    BY <2>1, <2>2, RestOf
<1> HIDE DEF rest
<1>10. \A i \in 1 .. Len(all) - k : k + i \in 1 .. n + 1
  BY <1>3, <1>4, <1>8
<1>11. Ascending(rest)
  <2> SUFFICES ASSUME NEW i \in DOMAIN rest, NEW j \in DOMAIN rest, i < j
               PROVE  rest[i] < rest[j]
    BY DEF Ascending
  <2>1. k + i < k + j
    BY <1>3, <1>4, <1>8, <1>9
  <2> QED
    BY <1>7, <1>9, <1>10, <2>1
<1>12. ToSet(rest) \subseteq ToSet(all)
  BY <1>6, <1>9, <1>10 DEF ToSet
<1>13. Len(rest) \in Nat /\ evicted + k + Len(rest) = evicted + n + 1
  BY <1>2, <1>3, <1>4, <1>8, <1>9
<1>14. held' = rest /\ evicted' = evicted + k
  BY <1>1 DEF rest
<1> QED
  BY <1>2, <1>5, <1>8, <1>11, <1>12, <1>13, <1>14 DEF n

(* Arithmetic of the accounts: one more entry is held or evicted. *)
LEMMA EntryAdmitted ==
  ASSUME NEW all \in Nat, NEW e \in Nat, NEW d \in Nat, NEW h \in Nat,
         NEW tq \in Nat, NEW ts \in Nat, NEW x \in Nat, NEW y \in Nat,
         NEW e1 \in Nat, NEW h1 \in Nat,
         all = e + d + h + tq + ts + x + y, e1 + h1 = e + h + 1
  PROVE  all + 1 = e1 + d + h1 + tq + ts + x + y
  OBVIOUS

(* log() *)
LEMMA LogLines ==
  ASSUME IInv, LineInv, Log
  PROVE  LineInv'
<1> DEFINE e == admitted + 1
           H == ToSet(held)
           H1 == ToSet(held')
<1>1. /\ admitted \in Nat /\ e \in 1 .. MaxLogs /\ Buffer!Add(e) /\ admitted' = e
      /\ UNCHANGED <<queue, inFlight, sending, settled, queueDropped>>
      /\ UNCHANGED <<pc, shutdown, drainError, delivered, failed, mark>>
      /\ ~ Destroyed
  BY DEF Log, queueVars, closingVars, historyVars, IInv, TypeOK
<1>2. /\ Ascending(held') /\ H1 \subseteq H \union {e}
      /\ Len(held') \in Nat /\ evicted' \in Nat
      /\ evicted' + Len(held') = evicted + Len(held) + 1
  BY <1>1, AddedInOrder
<1>3. /\ Lined(Gone, queue, H) /\ Gone \union In(ToSet(queue)) \union H \subseteq 1 .. admitted
      /\ queue \in Seq(Task)
  BY DEF LineInv, OrderInv, IInv, TypeOK
<1>4. Settled' = Settled /\ Gone' = Gone
  BY <1>1, Primed DEF Settled, Gone
<1>5. 1 .. admitted \subseteq 1 .. e /\ e \in 1 .. e /\ \A i \in 1 .. admitted : i < e
  BY <1>1
<1> HIDE DEF e, H, H1
<1>6. Lined(Gone, queue, H1)
  <2>1. \A S \in SUBSET (1 .. admitted) : Before(S, H) => Before(S, H1)
    BY <1>2, <1>5 DEF Before
  <2>2. \A a \in DOMAIN queue : Of(queue[a]) \subseteq 1 .. admitted
    BY <1>3 DEF In, ToSet
  <2> QED
    BY <1>3, <2>1, <2>2 DEF Lined
<1>7. OrderInv'
  <2>1. Gone' \union In(ToSet(queue')) \union H1 \subseteq 1 .. admitted'
    BY <1>1, <1>2, <1>3, <1>4, <1>5
  <2>2. Lined(Gone', queue', H1)
    BY <1>1, <1>4, <1>6
  <2> QED
    BY <1>2, <2>1, <2>2, Primed DEF H1
<1>8. TransportInv'
  BY <1>1, <1>4, Primed DEF LineInv, TransportInv, Apart
<1>9. AccountInv'
  <2>1. PICK tq \in Nat, ts \in Nat, x \in Nat, y \in Nat, h \in Nat :
          /\ tq = Total(queue) /\ ts = TotalOf(sending) /\ h = Len(held)
          /\ x = Cardinality(delivered) /\ y = Cardinality(failed)
    BY Numbers
  <2>2. /\ admitted = evicted + queueDropped + h + tq + ts + x + y
        /\ evicted \in Nat /\ queueDropped \in Nat
    BY <2>1, Numbers
  <2>3. PICK h1 \in Nat, e1 \in Nat :
          h1 = Len(held') /\ e1 = evicted' /\ e1 + h1 = evicted + h + 1
    BY <1>2, <2>1
  <2>4. e = evicted' + queueDropped + Len(held') + tq + ts + x + y
    <3>1. admitted + 1 = e1 + queueDropped + h1 + tq + ts + x + y
      <4>1. admitted \in Nat /\ e1 + h1 = evicted + h + 1
        BY <1>1, <2>3
      <4> QED
        BY <2>2, <4>1, EntryAdmitted
    <3> QED
      BY <2>3, <3>1 DEF e
  <2>5. /\ Total(queue') = tq /\ TotalOf(sending') = ts
        /\ Cardinality(delivered') = x /\ Cardinality(failed') = y
    BY <1>1, <2>1
  <2>6. inFlight' = Cardinality(sending') + Cardinality(settled')
    BY <1>1, Numbers
  <2> QED
    BY <1>1, <2>2, <2>4, <2>5, <2>6, Primed
<1>10. ShutdownInv'
  BY <1>1 DEF ShutdownInv, Destroyed
<1>11. BarrierInv'
  <2> SUFFICES ASSUME NEW c \in Callers
               PROVE  /\ mark[c] <= e
                      /\ Before(1 .. mark[c], H1)
                      /\ pc[c] = "done" => Before(1 .. mark[c], In(ToSet(queue) \union sending))
    BY <1>1 DEF BarrierInv, Before, In, Of, H1
  <2>1. /\ mark[c] <= admitted /\ Before(1 .. mark[c], H)
        /\ pc[c] = "done" => Before(1 .. mark[c], In(ToSet(queue) \union sending))
    BY DEF LineInv, BarrierInv, H
  <2>3. mark[c] \in Nat
    BY DEF IInv, TypeOK
  <2>2. 1 .. mark[c] \subseteq 1 .. admitted /\ mark[c] <= e
    BY <1>1, <2>1, <2>3 DEF e
  <2> QED
    BY <1>2, <1>5, <2>1, <2>2 DEF Before
<1> QED
  BY <1>7, <1>8, <1>9, <1>10, <1>11 DEF LineInv

(* Arithmetic of the accounts: the entries of a batch become settled. *)
LEMMA BatchSettled ==
  ASSUME NEW all \in Nat, NEW e \in Nat, NEW d \in Nat, NEW h \in Nat,
         NEW tq \in Nat, NEW ts \in Nat, NEW x \in Nat, NEW y \in Nat,
         NEW l \in Nat, NEW ts1 \in Nat, NEW x1 \in Nat, NEW y1 \in Nat,
         all = e + d + h + tq + ts + x + y, ts = ts1 + l, x1 + y1 = x + y + l
  PROVE  all = e + d + h + tq + ts1 + x1 + y1
  OBVIOUS

(* Arithmetic of the accounts: entries go from the queue to the transport. *)
LEMMA EntriesPass ==
  ASSUME NEW all \in Nat, NEW e \in Nat, NEW d \in Nat, NEW h \in Nat,
         NEW tq \in Nat, NEW ts \in Nat, NEW x \in Nat, NEW y \in Nat,
         NEW tq1 \in Nat, NEW ts1 \in Nat,
         all = e + d + h + tq + ts + x + y, tq1 + ts1 = tq + ts
  PROVE  all = e + d + h + tq1 + ts1 + x + y
  OBVIOUS

(* Arithmetic of the accounts: a batch settles and keeps its slot. *)
LEMMA SlotsStay ==
  ASSUME NEW n \in Nat, NEW a \in Nat, NEW b \in Nat, NEW a1 \in Nat, NEW b1 \in Nat,
         n = a + b, a1 = a - 1, b1 = b + 1
  PROVE  n = a1 + b1
  OBVIOUS

(* A batch leaves the transport and is settled, its entries with it.       *)
LEMMA SettleMoves ==
  ASSUME IInv, LineInv, NEW t \in sending, NEW ok \in BOOLEAN, SendSettles(t, ok)
  PROVE  /\ OrderInv' /\ TransportInv' /\ AccountInv'
         /\ Settled' = Settled \union Of(t) /\ In(sending') \subseteq In(sending)
<1>1. /\ t \in Task /\ sending \in SUBSET Task
      /\ delivered \in SUBSET (1 .. MaxLogs) /\ failed \in SUBSET (1 .. MaxLogs)
  BY DEF IInv, TypeOK
<1>2. /\ sending' = sending \ {t} /\ settled' = settled \union {t}
      /\ delivered' = IF ok THEN delivered \union Of(t) ELSE delivered
      /\ failed' = IF ok THEN failed ELSE failed \union Of(t)
      /\ UNCHANGED <<held, evicted, admitted, queue, inFlight, queueDropped>>
  BY DEF SendSettles, Of, bufferVars
<1>3. /\ Apart(sending) /\ IsFiniteSet(sending) /\ IsFiniteSet(settled)
      /\ IsBatch(t) /\ Of(t) \cap Settled = {}
      /\ \A u \in sending : u # t => Of(u) \cap Of(t) = {}
      /\ \A u \in settled : IsBatch(u) /\ Of(u) \subseteq Settled
      /\ delivered \cap failed = {}
  BY DEF LineInv, TransportInv, Apart
<1>4. /\ t.entries \in Seq(1 .. MaxLogs) /\ Len(t.entries) \in Nat
      /\ Of(t) # {} /\ Of(t) \subseteq 1 .. MaxLogs
  BY <1>1, <1>3, TaskEntries
<1>5. IsFiniteSet(Of(t)) /\ Cardinality(Of(t)) = Len(t.entries)
  <2>1. 1 .. MaxLogs \subseteq Nat
    OBVIOUS
  <2>2. t.entries \in Seq(Nat)
    <3>1. /\ t.entries \in [1 .. Len(t.entries) -> 1 .. MaxLogs]
          /\ Len(t.entries) \in Nat
      BY <1>4, LenProperties
    <3> QED
      BY <2>1, <3>1, SeqDef
  <2> QED
    BY <1>3, <2>2, AscendingCount DEF IsBatch, Of
<1>6. Settled' = Settled \union Of(t)
  BY <1>2, Primed DEF Settled
<1>7. In(sending) = In(sending') \union Of(t)
  BY <1>2 DEF In
<1>8. Gone' = Gone
  BY <1>6, <1>7, Primed DEF Gone
<1>9. OrderInv'
  BY <1>2, <1>8, Primed DEF LineInv, OrderInv
<1>10. IsFiniteSet(sending') /\ IsFiniteSet({t}) /\ IsFiniteSet(settled')
  BY <1>2, <1>3, FS_RemoveElement, FS_Singleton, FS_AddElement
<1>11. TransportInv'
  <2>1. Apart(sending)'
    <3>1. \A u \in sending' : IsBatch(u) /\ Of(u) \cap Settled' = {}
      BY <1>2, <1>3, <1>6 DEF Apart
    <3>2. \A u, v \in sending' : u # v => Of(u) \cap Of(v) = {}
      BY <1>2, <1>3 DEF Apart
    <3> QED
      BY <1>10, <3>1, <3>2, Primed
  <2>2. \A u \in settled' : IsBatch(u) /\ Of(u) \subseteq Settled'
    BY <1>2, <1>3, <1>6
  <2>3. delivered' \cap failed' = {}
    BY <1>2, <1>3 DEF Settled
  <2> QED
    BY <1>10, <2>1, <2>2, <2>3, Primed
<1>12. t \notin settled
  BY <1>3, <1>4
<1>13. inFlight' = Cardinality(sending') + Cardinality(settled')
  <2>1. Cardinality(sending \ {t}) = Cardinality(sending) - 1
    BY <1>3, FS_RemoveElement
  <2>2. Cardinality(settled \union {t}) = Cardinality(settled) + 1
    BY <1>3, <1>12, FS_AddElement
  <2>3. Cardinality(sending') \in Nat /\ Cardinality(settled') \in Nat
    BY <1>10, FS_CardinalityType
  <2>4. PICK n \in Nat, a \in Nat, b \in Nat :
          /\ n = inFlight /\ a = Cardinality(sending) /\ b = Cardinality(settled)
          /\ n = a + b
    BY Numbers
  <2>5. PICK a1 \in Nat, b1 \in Nat :
          /\ a1 = Cardinality(sending') /\ b1 = Cardinality(settled')
          /\ a1 = a - 1 /\ b1 = b + 1
    BY <1>2, <2>1, <2>2, <2>3, <2>4
  <2>6. n = a1 + b1
    BY <2>4, <2>5, SlotsStay
  <2>7. inFlight' = inFlight
    BY <1>2
  <2> QED
    BY <2>4, <2>5, <2>6, <2>7
<1>14. TotalOf(sending) = TotalOf(sending') + Len(t.entries) /\ TotalOf(sending') \in Nat
  <2>1. /\ sending' \in SUBSET Task /\ {t} \in SUBSET Task /\ sending' \cap {t} = {}
        /\ sending' \union {t} = sending
    BY <1>1, <1>2
  <2>2. TotalOf(sending' \union {t}) = TotalOf(sending') + TotalOf({t})
    BY <1>10, <2>1, TotalOfJoin
  <2>3. TotalOf({t}) = Len(t.entries)
    BY <1>1, TotalOfOne
  <2> QED
    BY <1>10, <2>1, <2>2, <2>3, TotalOfType
<1>15. /\ Cardinality(delivered') \in Nat /\ Cardinality(failed') \in Nat
       /\ Cardinality(delivered') + Cardinality(failed')
            = Cardinality(delivered) + Cardinality(failed) + Len(t.entries)
  <2>1. /\ IsFiniteSet(delivered) /\ IsFiniteSet(failed)
        /\ Cardinality(delivered) \in Nat /\ Cardinality(failed) \in Nat
    BY Numbers
  <2>2. \A S : IsFiniteSet(S) /\ S \cap Of(t) = {} =>
          /\ Cardinality(S \union Of(t)) = Cardinality(S) + Len(t.entries)
          /\ Cardinality(S \union Of(t)) \in Nat
    <3> SUFFICES ASSUME NEW S, IsFiniteSet(S), S \cap Of(t) = {}
                 PROVE  /\ Cardinality(S \union Of(t)) = Cardinality(S) + Len(t.entries)
                        /\ Cardinality(S \union Of(t)) \in Nat
      OBVIOUS
    <3>1. Cardinality(S \union Of(t))
            = Cardinality(S) + Cardinality(Of(t)) - Cardinality(S \cap Of(t))
      BY <1>5, FS_Union
    <3>2. Cardinality(S \cap Of(t)) = 0 /\ Cardinality(S) \in Nat
      BY FS_EmptySet, FS_CardinalityType
    <3> QED
      BY <1>4, <1>5, <3>1, <3>2
  <2>3. delivered \cap Of(t) = {} /\ failed \cap Of(t) = {}
    BY <1>3 DEF Settled
  <2>4. CASE ok
    <3>1. delivered' = delivered \union Of(t) /\ failed' = failed
      BY <1>2, <2>4
    <3>2. /\ Cardinality(delivered') = Cardinality(delivered) + Len(t.entries)
          /\ Cardinality(delivered') \in Nat
      BY <2>1, <2>2, <2>3, <3>1
    <3> QED
      BY <1>4, <2>1, <3>1, <3>2
  <2>5. CASE ~ ok
    <3>1. delivered' = delivered /\ failed' = failed \union Of(t)
      BY <1>2, <2>5
    <3>2. /\ Cardinality(failed') = Cardinality(failed) + Len(t.entries)
          /\ Cardinality(failed') \in Nat
      BY <2>1, <2>2, <2>3, <3>1
    <3> QED
      BY <1>4, <2>1, <3>1, <3>2
  <2> QED
    BY <2>4, <2>5
<1>16. admitted' = evicted' + queueDropped'
         + Len(held') + Total(queue') + TotalOf(sending')
         + Cardinality(delivered') + Cardinality(failed')
  <2>1. PICK tq \in Nat, ts \in Nat, x \in Nat, y \in Nat, h \in Nat :
          /\ tq = Total(queue) /\ ts = TotalOf(sending) /\ h = Len(held)
          /\ x = Cardinality(delivered) /\ y = Cardinality(failed)
    BY Numbers
  <2>2. /\ admitted = evicted + queueDropped + h + tq + ts + x + y
        /\ admitted \in Nat /\ evicted \in Nat /\ queueDropped \in Nat
    BY <2>1, Numbers
  <2>3. PICK l \in Nat, ts1 \in Nat, x1 \in Nat, y1 \in Nat :
          /\ l = Len(t.entries) /\ ts1 = TotalOf(sending')
          /\ x1 = Cardinality(delivered') /\ y1 = Cardinality(failed')
          /\ ts = ts1 + l /\ x1 + y1 = x + y + l
    BY <1>4, <1>14, <1>15, <2>1
  <2>4. ts = ts1 + l /\ x1 + y1 = x + y + l
    BY <2>3
  <2>5. admitted = evicted + queueDropped + h + tq + ts1 + x1 + y1
    BY <2>2, <2>4, BatchSettled
  <2>6. /\ admitted' = admitted /\ evicted' = evicted /\ queueDropped' = queueDropped
        /\ Len(held') = h /\ Total(queue') = tq
    BY <1>2, <2>1
  <2>7. /\ TotalOf(sending') = ts1
        /\ Cardinality(delivered') = x1 /\ Cardinality(failed') = y1
    BY <2>3
  <2> QED
    BY <2>5, <2>6, <2>7
<1>17. AccountInv'
  BY <1>2, <1>13, <1>16, Primed, Numbers
<1> QED
  BY <1>6, <1>7, <1>9, <1>11, <1>17

(* sendFlushBatch, once the transport has answered. *)
LEMMA SendSettlesLines ==
  ASSUME IInv, LineInv, NEW t \in sending, NEW ok \in BOOLEAN, SendSettles(t, ok)
  PROVE  LineInv'
<1>1. OrderInv' /\ TransportInv' /\ AccountInv' /\ In(sending') \subseteq In(sending)
  BY SettleMoves
<1>2. /\ UNCHANGED <<held, admitted, queue, shutdown, drainError, mark>>
      /\ \A f \in Flushers : /\ pc'[f] = "done" => pc[f] = "done"
                             /\ pc[f] = "done" => pc'[f] = "done"
  BY DEF SendSettles, bufferVars, closingVars
<1>3. ShutdownInv'
  BY <1>2 DEF LineInv, ShutdownInv, Destroyed, Flushers
<1>4. BarrierInv'
  <2>1. In(ToSet(queue') \union sending') \subseteq In(ToSet(queue) \union sending)
    BY <1>1, <1>2 DEF In
  <2>2. ToSet(held') \subseteq ToSet(held)
    BY <1>2
  <2> QED
    BY <1>2, <2>1, <2>2, BarrierKept DEF LineInv, Flushers
<1> QED
  BY <1>1, <1>3, <1>4 DEF LineInv

(* Arithmetic of the accounts: a slot is given back, others are taken.     *)
LEMMA SlotReturned ==
  ASSUME NEW n \in Nat, NEW a \in Nat, NEW b \in Nat,
         NEW n1 \in Nat, NEW a1 \in Nat, NEW b1 \in Nat,
         n = a + b, b1 = b - 1, n1 - (n - 1) = a1 - a
  PROVE  n1 = a1 + b1
  OBVIOUS

(* The finally handler.  The settled batch it is for proves that the count *)
(* of slots is not zero.                                                   *)
LEMMA FinallyLines ==
  ASSUME IInv, LineInv, NEW t \in settled, Finally(t)
  PROVE  LineInv'
<1> DEFINE left == IF inFlight > 0 THEN inFlight - 1 ELSE 0
           H == ToSet(held)
<1>1. /\ queue \in Seq(Task) /\ inFlight \in 0 .. MaxConcurrent /\ sending \subseteq Task
      /\ Lined(Gone, queue, H) /\ Apart(sending)
  BY DEF IInv, TypeOK, LineInv, OrderInv, TransportInv
<1>2. /\ ProcessFlushQueue(left, queue) /\ settled' = settled \ {t}
      /\ UNCHANGED <<held, evicted, admitted, queueDropped, delivered, failed>>
      /\ UNCHANGED <<shutdown, drainError, mark>>
      /\ pc' = [f \in Flushers |->
                  IF pc[f] = "idle" /\ Idle(inFlight', queue') THEN "done" ELSE pc[f]]
  BY DEF Finally, bufferVars, closingVars, historyVars
<1>3. /\ IsFiniteSet(settled) /\ Cardinality(settled) \in Nat /\ IsFiniteSet(settled')
      /\ Cardinality(settled') = Cardinality(settled) - 1 /\ Cardinality(settled') \in Nat
  <2>1. IsFiniteSet(settled)
    BY Numbers
  <2>2. /\ IsFiniteSet(settled \ {t})
        /\ Cardinality(settled \ {t}) = Cardinality(settled) - 1
    BY <2>1, FS_RemoveElement
  <2> QED
    BY <1>2, <2>1, <2>2, FS_CardinalityType
<1>4. left = inFlight - 1 /\ left \in 0 .. MaxConcurrent
  <2>1. PICK n \in Nat, a \in Nat, b \in Nat :
          n = inFlight /\ a = Cardinality(sending) /\ b = Cardinality(settled) /\ n = a + b
    BY Numbers
  <2>2. b > 0
    BY <1>3, <2>1
  <2>3. inFlight > 0
    BY <2>1, <2>2
  <2> QED
    BY <1>1, <2>3
<1> HIDE DEF left, H
<1>5. /\ Lined(Gone', queue', H) /\ Apart(sending)'
      /\ Total(queue') + TotalOf(sending') = Total(queue) + TotalOf(sending)
      /\ Total(queue') \in Nat /\ TotalOf(sending') \in Nat
      /\ inFlight' \in Nat /\ Cardinality(sending') \in Nat
      /\ inFlight' - left = Cardinality(sending') - Cardinality(sending)
      /\ In(ToSet(queue')) \union In(sending') = In(ToSet(queue)) \union In(sending)
  BY <1>1, <1>2, <1>4, ProcessMoves
<1>6. Settled' = Settled
  BY <1>2 DEF Settled
<1>7. OrderInv'
  <2>1. Gone \union In(ToSet(queue)) \union H \subseteq 1 .. admitted
    BY DEF LineInv, OrderInv, H
  <2>2. Gone' = Settled \union In(sending') /\ Gone = Settled \union In(sending)
    BY <1>6, Primed DEF Gone
  <2>3. Gone' \union In(ToSet(queue')) \union H \subseteq 1 .. admitted
    BY <1>5, <2>1, <2>2
  <2>4. held' = held /\ admitted' = admitted /\ Ascending(held)
    BY <1>2 DEF LineInv, OrderInv
  <2> QED
    BY <1>5, <2>3, <2>4, Primed DEF H
<1>8. TransportInv'
  <2>1. \A u \in settled' : IsBatch(u) /\ Of(u) \subseteq Settled'
    BY <1>2, <1>6 DEF LineInv, TransportInv
  <2>2. delivered' \cap failed' = {}
    BY <1>2 DEF LineInv, TransportInv
  <2> QED
    BY <1>3, <1>5, <2>1, <2>2, Primed
<1>9. inFlight' = Cardinality(sending') + Cardinality(settled')
  <2>1. PICK n \in Nat, a \in Nat, b \in Nat :
          n = inFlight /\ a = Cardinality(sending) /\ b = Cardinality(settled) /\ n = a + b
    BY Numbers
  <2>2. PICK n1 \in Nat, a1 \in Nat, b1 \in Nat :
          /\ n1 = inFlight' /\ a1 = Cardinality(sending') /\ b1 = Cardinality(settled')
          /\ b1 = b - 1 /\ n1 - (n - 1) = a1 - a
    BY <1>3, <1>4, <1>5, <2>1
  <2>3. n = a + b /\ b1 = b - 1 /\ n1 - (n - 1) = a1 - a
    BY <2>1, <2>2
  <2>4. n1 = a1 + b1
    BY <2>3, SlotReturned
  <2> QED
    BY <2>2, <2>4
<1>10. admitted' = evicted' + queueDropped'
         + Len(held') + Total(queue') + TotalOf(sending')
         + Cardinality(delivered') + Cardinality(failed')
  <2>1. PICK tq \in Nat, ts \in Nat, x \in Nat, y \in Nat, h \in Nat :
          /\ tq = Total(queue) /\ ts = TotalOf(sending) /\ h = Len(held)
          /\ x = Cardinality(delivered) /\ y = Cardinality(failed)
    BY Numbers
  <2>2. /\ admitted = evicted + queueDropped + h + tq + ts + x + y
        /\ admitted \in Nat /\ evicted \in Nat /\ queueDropped \in Nat
    BY <2>1, Numbers
  <2>3. PICK tq1 \in Nat, ts1 \in Nat :
          tq1 = Total(queue') /\ ts1 = TotalOf(sending') /\ tq1 + ts1 = tq + ts
    BY <1>5, <2>1
  <2>4. admitted = evicted + queueDropped + h + tq1 + ts1 + x + y
    <3>1. tq1 + ts1 = tq + ts
      BY <2>3
    <3> QED
      BY <2>2, <3>1, EntriesPass
  <2>5. /\ admitted' = admitted /\ evicted' = evicted /\ queueDropped' = queueDropped
        /\ Len(held') = h
        /\ Cardinality(delivered') = x /\ Cardinality(failed') = y
    BY <1>2, <2>1
  <2> QED
    BY <2>3, <2>4, <2>5
<1>11. AccountInv'
  BY <1>2, <1>9, <1>10, Primed, Numbers
<1>12. \A f \in Flushers :
         /\ pc'[f] = "done" => pc[f] = "done" \/ In(ToSet(queue') \union sending') = {}
         /\ pc[f] = "done" => pc'[f] = "done"
  <2>1. IsFiniteSet(sending')
    BY <1>5, Primed
  <2>2. Idle(inFlight', queue') => In(ToSet(queue') \union sending') = {}
    BY <1>3, <1>9, <2>1, IdleIsEmpty
  <2> QED
    BY <1>2, <2>2
<1>13. ShutdownInv'
  BY <1>2, <1>12 DEF LineInv, ShutdownInv, Destroyed, Flushers
<1>14. BarrierInv'
  <2>1. In(ToSet(queue') \union sending') \subseteq In(ToSet(queue) \union sending)
    BY <1>5 DEF In
  <2>2. ToSet(held') \subseteq ToSet(held)
    BY <1>2
  <2> QED
    BY <1>2, <1>12, <2>1, <2>2, BarrierKept DEF LineInv, Flushers
<1> QED
  BY <1>7, <1>8, <1>11, <1>13, <1>14 DEF LineInv

(* flush() by a caller. *)
LEMMA FlushLines ==
  ASSUME IInv, LineInv, NEW c \in Callers, Flush(c)
  PROVE  LineInv'
<1>1. /\ mark' = [mark EXCEPT ![c] = admitted] /\ mark \in [Callers -> 0 .. MaxLogs]
      /\ UNCHANGED <<admitted, shutdown, drainError, delivered, failed>>
      /\ ~ Destroyed /\ ~ Destroyed' /\ c \in Owners /\ Callers \subseteq Flushers
      /\ pc \in [Flushers -> Returned \union {"batch", "resumed", "idle"}]
  BY DEF Flush, closingVars, Destroyed, Owners, Flushers, IInv, TypeOK
<1>2. ShutdownInv'
  BY <1>1 DEF ShutdownInv, Destroyed
<1>3. CASE Holding
  <2>1. Buffer!Take /\ EnqueueFlush(held, c)
    BY <1>3 DEF Flush, Holding
  <2>2. /\ OrderInv' /\ TransportInv' /\ AccountInv'
        /\ ToSet(held') = {}
        /\ In(ToSet(queue') \union sending')
             \subseteq In(ToSet(queue) \union sending) \union ToSet(held)
    BY <1>1, <1>3, <2>1, EnqueueMoves
  <2>3. \A d \in Callers : pc'[d] = "done" => d # c /\ pc[d] = "done"
    BY <1>1, <2>1 DEF EnqueueFlush
  <2>4. BarrierInv'
    <3> SUFFICES ASSUME NEW d \in Callers
                 PROVE  /\ mark'[d] <= admitted
                        /\ Before(1 .. mark'[d], ToSet(held'))
                        /\ pc'[d] = "done" =>
                             Before(1 .. mark'[d], In(ToSet(queue') \union sending'))
      BY <1>1 DEF BarrierInv, Before, In, Of
    <3>1. /\ mark[d] <= admitted /\ Before(1 .. mark[d], ToSet(held))
          /\ pc[d] = "done" => Before(1 .. mark[d], In(ToSet(queue) \union sending))
      BY DEF LineInv, BarrierInv
    <3>2. mark'[d] = IF d = c THEN admitted ELSE mark[d]
      BY <1>1
    <3>3. mark'[d] <= admitted
      BY <3>1, <3>2, Numbers
    <3>4. Before(1 .. mark'[d], ToSet(held'))
      BY <2>2 DEF Before
    <3>5. ASSUME pc'[d] = "done"
          PROVE  Before(1 .. mark'[d], In(ToSet(queue') \union sending'))
      <4>1. mark'[d] = mark[d] /\ pc[d] = "done"
        BY <2>3, <3>2, <3>5
      <4>2. /\ Before(1 .. mark[d], ToSet(held))
            /\ Before(1 .. mark[d], In(ToSet(queue) \union sending))
        BY <3>1, <4>1
      <4> QED
        BY <2>2, <4>1, <4>2 DEF Before
    <3> QED
      BY <3>3, <3>4, <3>5
  <2> QED
    BY <1>2, <2>2, <2>4 DEF LineInv
<1>4. CASE ~ Holding
  <2>1. /\ held = <<>> /\ UNCHANGED <<bufferVars, queueVars>>
        /\ pc' = [pc EXCEPT ![c] = IF Idle(inFlight, queue) THEN "done" ELSE "idle"]
    BY <1>4 DEF Flush, Holding, AwaitIdle
  <2>2. UNCHANGED <<held, evicted, queue, inFlight, sending, settled, queueDropped>>
    BY <2>1 DEF bufferVars, queueVars
  <2>3. OrderInv' /\ TransportInv' /\ AccountInv'
    BY <1>1, <2>2, PlacesSame
  <2>4. Idle(inFlight, queue) => In(ToSet(queue) \union sending) = {}
    BY IdleIsEmpty, Numbers
  <2>5. ToSet(held) = {}
    BY <2>1 DEF ToSet
  <2>6. BarrierInv'
    <3> SUFFICES ASSUME NEW d \in Callers
                 PROVE  /\ mark'[d] <= admitted
                        /\ Before(1 .. mark'[d], ToSet(held))
                        /\ pc'[d] = "done" =>
                             Before(1 .. mark'[d], In(ToSet(queue) \union sending))
      BY <1>1, <2>2 DEF BarrierInv, Before, In, Of
    <3>1. /\ mark[d] <= admitted
          /\ pc[d] = "done" => Before(1 .. mark[d], In(ToSet(queue) \union sending))
      BY DEF LineInv, BarrierInv
    <3>2. mark'[d] = IF d = c THEN admitted ELSE mark[d]
      BY <1>1
    <3>3. mark'[d] <= admitted
      BY <3>1, <3>2, Numbers
    <3>4. Before(1 .. mark'[d], ToSet(held))
      BY <2>5 DEF Before
    <3>5. ASSUME pc'[d] = "done"
          PROVE  Before(1 .. mark'[d], In(ToSet(queue) \union sending))
      <4>1. CASE d = c
        <5>1. Idle(inFlight, queue)
          BY <1>1, <2>1, <3>5, <4>1
        <5> QED
          BY <2>4, <5>1 DEF Before
      <4>2. CASE d # c
        BY <1>1, <2>1, <3>1, <3>2, <3>5, <4>2
      <4> QED
        BY <4>1, <4>2
    <3> QED
      BY <3>3, <3>4, <3>5
  <2> QED
    BY <1>2, <2>3, <2>6 DEF LineInv
<1> QED
  BY <1>3, <1>4

(* The flush of the buffer's own timers. *)
LEMMA BackgroundLines ==
  ASSUME IInv, LineInv, FlushInBackground
  PROVE  LineInv'
<1>1. /\ Holding /\ Buffer!Take /\ EnqueueFlush(held, Background) /\ Background \in Owners
      /\ UNCHANGED <<admitted, shutdown, drainError, delivered, failed, mark>>
      /\ ~ Destroyed /\ ~ Destroyed'
  BY DEF FlushInBackground, Holding, closingVars, historyVars, Destroyed, Owners
<1>2. /\ OrderInv' /\ TransportInv' /\ AccountInv'
      /\ ToSet(held') = {}
      /\ In(ToSet(queue') \union sending')
           \subseteq In(ToSet(queue) \union sending) \union ToSet(held)
  BY <1>1, EnqueueMoves
<1>3. \A d \in Callers : pc'[d] = "done" => pc[d] = "done"
  BY <1>1 DEF EnqueueFlush, Flushers, IInv, TypeOK
<1>4. BarrierInv'
  BY <1>1, <1>2, <1>3, BarrierKept DEF LineInv
<1>5. ShutdownInv'
  BY <1>1 DEF ShutdownInv, Destroyed
<1> QED
  BY <1>2, <1>4, <1>5 DEF LineInv

(* destroy(): the buffer is empty from here on. *)
LEMMA DestroyLines ==
  ASSUME IInv, LineInv, Destroy
  PROVE  LineInv'
<1>1. /\ UNCHANGED <<admitted, drainError, delivered, failed, mark>>
      /\ shutdown' = "draining" /\ Shutdown \in Owners
      /\ pc \in [Flushers -> Returned \union {"batch", "resumed", "idle"}]
      /\ \A d \in Callers : d \in Flushers /\ d # Shutdown
  BY DEF Destroy, historyVars, Owners, Flushers, IInv, TypeOK
<1>2. CASE Holding
  <2>1. Buffer!Take /\ EnqueueFlush(held, Shutdown)
    BY <1>2 DEF Destroy, Holding
  <2>2. /\ OrderInv' /\ TransportInv' /\ AccountInv'
        /\ ToSet(held') = {}
        /\ In(ToSet(queue') \union sending')
             \subseteq In(ToSet(queue) \union sending) \union ToSet(held)
    BY <1>1, <1>2, <2>1, EnqueueMoves
  <2>3. \A d \in Callers : pc'[d] = "done" => pc[d] = "done"
    BY <1>1, <2>1 DEF EnqueueFlush
  <2>4. BarrierInv'
    BY <1>1, <2>2, <2>3, BarrierKept DEF LineInv
  <2>5. ShutdownInv'
    BY <1>1, <2>1 DEF ShutdownInv, Buffer!Take
  <2> QED
    BY <2>2, <2>4, <2>5 DEF LineInv
<1>3. CASE ~ Holding
  <2>1. /\ held = <<>> /\ UNCHANGED <<bufferVars, queueVars>> /\ AwaitIdle(Shutdown)
    BY <1>3 DEF Destroy, Holding
  <2>2. UNCHANGED <<held, evicted, queue, inFlight, sending, settled, queueDropped>>
    BY <2>1 DEF bufferVars, queueVars
  <2>3. OrderInv' /\ TransportInv' /\ AccountInv'
    BY <1>1, <2>2, PlacesSame
  <2>4. \A d \in Callers : pc'[d] = "done" => pc[d] = "done"
    BY <1>1, <2>1 DEF AwaitIdle
  <2>5. BarrierInv'
    <3>1. In(ToSet(queue') \union sending') = In(ToSet(queue) \union sending)
      BY <2>2
    <3> QED
      BY <1>1, <2>2, <2>4, <3>1, BarrierKept DEF LineInv
  <2>6. ShutdownInv'
    BY <1>1, <2>1, <2>2 DEF ShutdownInv
  <2> QED
    BY <2>3, <2>5, <2>6 DEF LineInv
<1> QED
  BY <1>2, <1>3

(* A flush() called once destroyed finds the buffer empty. *)
LEMMA FlushOnceDestroyedLines ==
  ASSUME IInv, LineInv, NEW c \in Callers, FlushOnceDestroyed(c)
  PROVE  LineInv'
<1>1. /\ UNCHANGED <<held, evicted, queue, inFlight, sending, settled, queueDropped>>
      /\ UNCHANGED <<admitted, shutdown, drainError, delivered, failed>>
      /\ pc' = [pc EXCEPT ![c] = "refused"] /\ mark' = [mark EXCEPT ![c] = admitted]
      /\ Destroyed
  BY DEF FlushOnceDestroyed, bufferVars, queueVars, closingVars
<1>2. OrderInv' /\ TransportInv' /\ AccountInv'
  BY <1>1, PlacesSame
<1>3. ShutdownInv'
  BY <1>1 DEF LineInv, ShutdownInv, Destroyed, IInv, TypeOK, Flushers
<1>4. BarrierInv'
  <2> SUFFICES ASSUME NEW d \in Callers
               PROVE  /\ mark'[d] <= admitted
                      /\ Before(1 .. mark'[d], ToSet(held))
                      /\ pc'[d] = "done" =>
                           Before(1 .. mark'[d], In(ToSet(queue) \union sending))
    BY <1>1 DEF BarrierInv, Before, In, Of
  <2>1. /\ mark[d] <= admitted /\ Before(1 .. mark[d], ToSet(held))
        /\ pc[d] = "done" => Before(1 .. mark[d], In(ToSet(queue) \union sending))
    BY DEF LineInv, BarrierInv
  <2>2. ToSet(held) = {}
    BY <1>1 DEF LineInv, ShutdownInv, ToSet
  <2>3. CASE d = c
    <3>1. mark'[d] = admitted /\ pc'[d] = "refused"
      BY <1>1, <2>3 DEF IInv, TypeOK, Flushers
    <3> QED
      BY <2>2, <3>1, Numbers DEF Before
  <2>4. CASE d # c
    <3>1. mark'[d] = mark[d] /\ pc'[d] = pc[d]
      BY <1>1, <2>4 DEF IInv, TypeOK, Flushers
    <3> QED
      BY <2>1, <3>1
  <2> QED
    BY <2>3, <2>4
<1> QED
  BY <1>2, <1>3, <1>4 DEF LineInv

(* A flush() or the drain goes on to wait for an idle pipeline. *)
LEMMA ResumeLines ==
  ASSUME IInv, LineInv, NEW f \in Flushers, Resume(f)
  PROVE  LineInv'
<1>1. /\ UNCHANGED <<held, evicted, queue, inFlight, sending, settled, queueDropped>>
      /\ UNCHANGED <<admitted, shutdown, drainError, delivered, failed, mark>>
      /\ pc[f] = "resumed" /\ AwaitIdle(f)
  BY DEF Resume, bufferVars, queueVars, closingVars, historyVars
<1>2. OrderInv' /\ TransportInv' /\ AccountInv'
  BY <1>1, PlacesSame
<1>3. /\ Idle(inFlight, queue) => In(ToSet(queue') \union sending') = {}
      /\ In(ToSet(queue') \union sending') = In(ToSet(queue) \union sending)
  BY <1>1, IdleIsEmpty, Numbers
<1>4. \A g \in Flushers :
        /\ pc'[g] = "done" => pc[g] = "done" \/ In(ToSet(queue') \union sending') = {}
        /\ pc[g] = "done" => pc'[g] = "done"
  BY <1>1, <1>3 DEF AwaitIdle, IInv, TypeOK
<1>5. ShutdownInv'
  BY <1>1, <1>4 DEF LineInv, ShutdownInv, Destroyed, Flushers
<1>6. BarrierInv'
  BY <1>1, <1>3, <1>4, BarrierKept DEF LineInv, Flushers
<1> QED
  BY <1>2, <1>5, <1>6 DEF LineInv

(* Arithmetic of the accounts: what was queued is counted as dropped. *)
LEMMA EntriesDropped ==
  ASSUME NEW all \in Nat, NEW e \in Nat, NEW d \in Nat, NEW h \in Nat,
         NEW tq \in Nat, NEW ts \in Nat, NEW x \in Nat, NEW y \in Nat,
         NEW d1 \in Nat, NEW tq1 \in Nat,
         all = e + d + h + tq + ts + x + y, d1 + tq1 = d + tq
  PROVE  all = e + d1 + h + tq1 + ts + x + y
  OBVIOUS

(* Closing, after the drain or instead of it: nothing was held any more,   *)
(* and what was queued is counted.                                         *)
LEMMA ClosingLines ==
  ASSUME IInv, LineInv, shutdown = "draining", CloseAll, queueDropped' \in Nat,
         queueDropped' + Total(queue') = queueDropped + Total(queue),
         queue' = queue \/ queue' = <<>>,
         \A f \in Flushers : pc'[f] = "done" => pc[f] = "done",
         drainError' = "none" => pc'[Shutdown] = "done"
  PROVE  LineInv'
<1>1. /\ UNCHANGED <<evicted, admitted, inFlight, sending, settled>>
      /\ UNCHANGED <<delivered, failed, mark>>
      /\ held' = <<>> /\ held = <<>>
  BY DEF CloseAll, Buffer!Close, historyVars, LineInv, ShutdownInv, Destroyed
<1>2. /\ queue \in Seq(Task) /\ queue' \in Seq(Task)
      /\ Lined(Gone, queue, ToSet(held))
  BY EmptySeq DEF LineInv, OrderInv, IInv, TypeOK
<1>3. Settled' = Settled /\ Gone' = Gone
  BY <1>1, Primed DEF Settled, Gone
<1>4. held' = held /\ In(ToSet(queue')) \subseteq In(ToSet(queue))
  BY <1>1 DEF In, ToSet
<1>5. Lined(Gone, queue', ToSet(held))
  <2>1. CASE queue' = queue
    BY <1>2, <2>1
  <2>2. CASE queue' = <<>>
    BY <1>2, <2>2 DEF Lined
  <2> QED
    BY <2>1, <2>2
<1>6. OrderInv'
  <2>1. Gone \union In(ToSet(queue)) \union ToSet(held) \subseteq 1 .. admitted /\ Ascending(held)
    BY DEF LineInv, OrderInv
  <2>2. /\ Lined(Gone', queue', ToSet(held'))
        /\ Gone' \union In(ToSet(queue')) \union ToSet(held') \subseteq 1 .. admitted'
        /\ Ascending(held')
    BY <1>1, <1>3, <1>4, <1>5, <2>1
  <2> QED
    BY <2>2, Primed
<1>7. TransportInv'
  BY <1>1, <1>3, Primed DEF LineInv, TransportInv, Apart
<1>8. AccountInv'
  <2>1. PICK tq \in Nat, ts \in Nat, x \in Nat, y \in Nat, h \in Nat :
          /\ tq = Total(queue) /\ ts = TotalOf(sending) /\ h = Len(held)
          /\ x = Cardinality(delivered) /\ y = Cardinality(failed)
    BY Numbers
  <2>2. /\ admitted = evicted + queueDropped + h + tq + ts + x + y
        /\ evicted \in Nat /\ queueDropped \in Nat /\ admitted \in Nat
    BY <2>1, Numbers
  <2>3. PICK tq1 \in Nat, d1 \in Nat :
          tq1 = Total(queue') /\ d1 = queueDropped' /\ d1 + tq1 = queueDropped + tq
    BY <1>2, <2>1, TotalType
  <2>4. d1 + tq1 = queueDropped + tq
    BY <2>3
  <2>5. admitted = evicted + d1 + h + tq1 + ts + x + y
    BY <2>2, <2>4, EntriesDropped
  <2>6. /\ Len(held') = h /\ TotalOf(sending') = ts /\ evicted' = evicted
        /\ Cardinality(delivered') = x /\ Cardinality(failed') = y /\ admitted' = admitted
    BY <1>1, <1>4, <2>1
  <2>7. inFlight' = Cardinality(sending') + Cardinality(settled')
    BY <1>1, Numbers
  <2> QED
    BY <2>3, <2>5, <2>6, <2>7, Primed
<1>9. ShutdownInv'
  BY <1>1 DEF ShutdownInv
<1>10. BarrierInv'
  <2>1. In(ToSet(queue') \union sending') \subseteq In(ToSet(queue) \union sending)
    BY <1>1, <1>4 DEF In
  <2> QED
    BY <1>1, <1>4, <2>1, BarrierKept DEF LineInv, Flushers
<1> QED
  BY <1>6, <1>7, <1>8, <1>9, <1>10 DEF LineInv

(* The drain came to its end, or was given up. *)
LEMMA DrainLines ==
  ASSUME IInv, LineInv, Drained \/ (\E why \in {"send", "deadline"} : GiveUp(why))
  PROVE  LineInv'
<1>1. queueDropped \in Nat /\ Total(queue) \in Nat
  BY Numbers
<1>2. CASE Drained
  <2>1. /\ shutdown = "draining" /\ CloseAll /\ pc[Shutdown] = "done"
        /\ UNCHANGED <<queue, queueDropped, pc>>
    BY <1>2 DEF Drained
  <2> QED
    BY <1>1, <2>1, ClosingLines
<1>3. ASSUME NEW why \in {"send", "deadline"}, GiveUp(why)
      PROVE  LineInv'
  <2>1. /\ shutdown = "draining" /\ CloseAll /\ drainError' # "none"
        /\ queue' = <<>> /\ queueDropped' = queueDropped + Total(queue)
        /\ \A f \in Flushers : pc'[f] = "done" => pc[f] = "done"
    BY <1>3 DEF GiveUp
  <2>2. Total(queue') = 0
    BY <2>1, TotalEmpty
  <2>3. /\ queueDropped' \in Nat
        /\ queueDropped' + Total(queue') = queueDropped + Total(queue)
    BY <1>1, <2>1, <2>2
  <2> QED
    BY <2>1, <2>3, ClosingLines
<1> QED
  BY <1>2, <1>3

(* The inductive invariant of the accounts, on top of that of the ranges:  *)
(* no step loses an entry, moves one ahead of an earlier one, or lets go   *)
(* of a slot that is in use.                                               *)
THEOREM Accounts == Spec => [](IInv /\ LineInv)
<1>1. LineInv /\ IInv /\ [Next]_vars => LineInv'
  <2> SUFFICES ASSUME IInv, LineInv, [Next]_vars
               PROVE  LineInv'
    OBVIOUS
  <2>1. CASE Closed
    <3>1. /\ UNCHANGED <<held, evicted, queue, inFlight, sending, settled, queueDropped>>
          /\ UNCHANGED <<admitted, drainError, delivered, failed, mark, pc>>
          /\ shutdown = "closing" /\ shutdown' = "closed"
      BY <2>1 DEF Closed, bufferVars, queueVars, historyVars
    <3>2. In(ToSet(queue') \union sending') = In(ToSet(queue) \union sending)
      BY <3>1
    <3>3. BarrierInv'
      BY <3>1, <3>2, BarrierKept DEF LineInv
    <3>4. ShutdownInv'
      BY <3>1 DEF LineInv, ShutdownInv, Destroyed
    <3> QED
      BY <3>1, <3>3, <3>4, PlacesSame DEF LineInv
  <2>2. CASE UNCHANGED vars
    <3>1. /\ UNCHANGED <<held, evicted, queue, inFlight, sending, settled, queueDropped>>
          /\ UNCHANGED <<admitted, drainError, delivered, failed, mark, pc, shutdown>>
      BY <2>2 DEF vars, bufferVars, queueVars, closingVars, historyVars
    <3>2. In(ToSet(queue') \union sending') = In(ToSet(queue) \union sending)
      BY <3>1
    <3>3. BarrierInv'
      BY <3>1, <3>2, BarrierKept DEF LineInv
    <3>4. ShutdownInv'
      BY <3>1 DEF LineInv, ShutdownInv, Destroyed
    <3> QED
      BY <3>1, <3>3, <3>4, PlacesSame DEF LineInv
  <2> QED
    BY <2>1, <2>2, LogLines, FlushLines, FlushOnceDestroyedLines, BackgroundLines,
       ResumeLines, SendSettlesLines, FinallyLines, DestroyLines, DrainLines DEF Next
<1> QED
  BY InitLineInv, Invariance, <1>1, PTL DEF Spec

(* The slots in use are the sends from their start to their finally        *)
(* handler, in every state.                                                *)
THEOREM SlotsAreCounted == Spec => []SlotsInUse
<1>1. IInv /\ LineInv => SlotsInUse
  BY DEF IInv, QueueInv, LineInv, AccountInv, SlotsInUse
<1> QED
  BY Accounts, <1>1, PTL

(* No entry is lost uncounted and none is counted twice, whatever the      *)
(* buffer evicts, the queue drops, the transport answers and destroy()     *)
(* gives up.                                                               *)
THEOREM NothingUnaccounted == Spec => []EveryEntryAccounted
<1>1. LineInv => EveryEntryAccounted
  BY DEF LineInv, AccountInv
<1> QED
  BY Accounts, <1>1, PTL

(* A destroy() that resolves leaves no batch queued, with the transport or *)
(* without its finally handler.                                            *)
THEOREM ResolvingIsDrained == Spec => []ResolvesDrained
<1>1. ASSUME IInv, LineInv
      PROVE  ResolvesDrained
  <2> SUFFICES ASSUME DrainSucceeded
               PROVE  Idle(inFlight, queue) /\ sending = {}
    BY DEF ResolvesDrained
  <2>1. Idle(inFlight, queue)
    BY <1>1 DEF DrainSucceeded, LineInv, ShutdownInv, IInv, DrainInv, Destroyed
  <2> QED
    BY <1>1, <2>1, IdleIsEmpty, Numbers
<1> QED
  BY Accounts, <1>1, PTL

(* A flush() that has resolved is a barrier for all that was logged before *)
(* it was called, but for one called once destroy() had begun: that leaves *)
(* nothing held, and nothing at all when the drain has come to its end.    *)
THEOREM ReturnedIsFlushed == Spec => []FlushIsBarrier
<1>1. ASSUME IInv, LineInv
      PROVE  FlushIsBarrier
  <2> SUFFICES ASSUME NEW c \in Callers, pc[c] \in {"done", "refused"},
                      NEW i \in 1 .. mark[c]
               PROVE  /\ i \notin ToSet(held)
                      /\ pc[c] = "done" \/ DrainSucceeded =>
                           \A t \in ToSet(queue) \union sending : i \notin ToSet(t.entries)
    BY DEF FlushIsBarrier
  <2>1. /\ Before(1 .. mark[c], ToSet(held))
        /\ pc[c] = "done" => Before(1 .. mark[c], In(ToSet(queue) \union sending))
    BY <1>1 DEF LineInv, BarrierInv
  <2>2. ~ (i < i)
    BY <1>1 DEF IInv, TypeOK
  <2>3. DrainSucceeded => In(ToSet(queue) \union sending) = {}
    <3>1. DrainSucceeded => Idle(inFlight, queue)
      BY <1>1 DEF DrainSucceeded, LineInv, ShutdownInv, IInv, DrainInv, Destroyed
    <3> QED
      BY <1>1, <3>1, IdleIsEmpty, Numbers
  <2> QED
    BY <2>1, <2>2, <2>3 DEF Before, In, Of
<1> QED
  BY Accounts, <1>1, PTL

-----------------------------------------------------------------------------
(***************************************************************************)
(* The pipeline implements Delivery.  What happened to an entry is read    *)
(* off the place where its number is; the places are disjoint by LineInv,  *)
(* and every step moves entries only from one place to the next one.       *)
(***************************************************************************)
Waiting == In(ToSet(queue)) \union ToSet(held)

PlacesInv ==
  /\ Gone \union Waiting \subseteq 1 .. admitted
  /\ Settled \cap In(sending) = {} /\ Gone \cap Waiting = {}
  /\ delivered \cap failed = {}
  /\ Before(Gone, Waiting)

(* The step of a behaviour from place to place. *)
MovesOn ==
  /\ admitted <= admitted'
  /\ delivered \subseteq delivered' /\ failed \subseteq failed'
  /\ Settled' \subseteq Gone
  /\ Gone \subseteq Gone' /\ In(sending') \subseteq Gone \union Waiting
  /\ Waiting' \subseteq Waiting \union ((1 .. admitted') \ (1 .. admitted))

(* Each entry is in one place, and what was sent precedes what waits. *)
LEMMA PlacesApart ==
  ASSUME IInv, LineInv
  PROVE  PlacesInv
<1>1. /\ Lined(Gone, queue, ToSet(held))
      /\ Gone \union In(ToSet(queue)) \union ToSet(held) \subseteq 1 .. admitted
      /\ queue \in Seq(Task) /\ admitted \in Nat
  BY DEF LineInv, OrderInv, IInv, TypeOK
<1>2. Before(Gone, Waiting)
  <2>1. \A a \in DOMAIN queue : Before(Gone, Of(queue[a]))
    BY <1>1 DEF Lined
  <2>2. \A x \in In(ToSet(queue)) : \E a \in DOMAIN queue : x \in Of(queue[a])
    BY DEF In, ToSet
  <2>3. Before(Gone, In(ToSet(queue)))
    BY <2>1, <2>2 DEF Before
  <2>4. Before(Gone, ToSet(held))
    BY <1>1 DEF Lined
  <2> QED
    BY <2>3, <2>4 DEF Before, Waiting
<1>3. Waiting \in SUBSET Nat
  BY <1>1 DEF Waiting
<1>4. Gone \cap Waiting = {}
  BY <1>2, <1>3, BeforeApart
<1>5. Settled \cap In(sending) = {}
  BY DEF LineInv, TransportInv, Apart, In
<1> QED
  BY <1>1, <1>2, <1>4, <1>5 DEF PlacesInv, Waiting, LineInv, TransportInv

(* Fate in terms of the places. *)
LEMMA FateByPlace ==
  ASSUME NEW i
  PROVE  Fate(i) = IF i > admitted THEN "absent"
                   ELSE IF i \in delivered THEN "delivered"
                   ELSE IF i \in failed THEN "failed"
                   ELSE IF i \in In(sending) THEN "sending"
                   ELSE IF i \in Waiting THEN "waiting"
                   ELSE "dropped"
<1>1. (\E t \in sending : i \in ToSet(t.entries)) <=> i \in In(sending)
  BY DEF In, Of
<1>2. (\E t \in ToSet(queue) : i \in ToSet(t.entries)) <=> i \in In(ToSet(queue))
  BY DEF In, Of
<1> QED
  BY <1>1, <1>2 DEF Fate, Waiting

(* The same of the next state. *)
LEMMA NextFateByPlace ==
  ASSUME NEW i
  PROVE  Fate(i)' = IF i > admitted' THEN "absent"
                    ELSE IF i \in delivered' THEN "delivered"
                    ELSE IF i \in failed' THEN "failed"
                    ELSE IF i \in In(sending') THEN "sending"
                    ELSE IF i \in Waiting' THEN "waiting"
                    ELSE "dropped"
<1>1. (\E t \in sending' : i \in ToSet(t.entries)) <=> i \in In(sending')
  BY DEF In, Of
<1>2. (\E t \in ToSet(queue') : i \in ToSet(t.entries)) <=> i \in In(ToSet(queue'))
  BY DEF In, Of
<1>3. Waiting' = In(ToSet(queue')) \union ToSet(held')
  BY DEF Waiting, In, Of
<1> QED
  BY <1>1, <1>2, <1>3 DEF Fate

(* A step from place to place is a step of Delivery. *)
LEMMA MovesAreDeliveries ==
  ASSUME PlacesInv, PlacesInv', MovesOn, admitted \in Nat, admitted' \in Nat
  PROVE  Outside!DeliveryNext
<1>1. /\ Gone = Settled \union In(sending) /\ Gone' = Settled' \union In(sending')
      /\ Settled = delivered \union failed /\ Settled' = delivered' \union failed'
  BY Primed DEF Gone, Settled
<1>2. /\ \A i \in Gone \union Waiting : ~ (i > admitted)
      /\ \A i \in Gone' \union Waiting' : ~ (i > admitted')
  BY DEF PlacesInv
<1>3. ASSUME NEW i \in 1 .. MaxLogs
      PROVE  Outside!Becomes(Fate(i), Fate(i)')
  <2>1. /\ admitted <= admitted'
        /\ i \in delivered => i \in delivered'
        /\ i \in failed => i \in failed'
        /\ i \in delivered' \/ i \in failed' => i \in delivered \/ i \in failed \/ i \in In(sending)
        /\ i \in In(sending) => i \in delivered' \/ i \in failed' \/ i \in In(sending')
        /\ i \in In(sending') => i \in delivered \/ i \in failed \/ i \in In(sending)
                                   \/ i \in Waiting
        /\ i \in Waiting' => i \in Waiting \/ i > admitted
    BY <1>1 DEF MovesOn
  <2>2. /\ ~ (i \in delivered /\ i \in failed) /\ ~ (i \in delivered' /\ i \in failed')
        /\ i \in In(sending) => i \notin delivered /\ i \notin failed
        /\ i \in In(sending') => i \notin delivered' /\ i \notin failed'
        /\ i \in Waiting => i \notin delivered /\ i \notin failed /\ i \notin In(sending)
    BY <1>1 DEF PlacesInv
  <2>3. i > admitted' => i > admitted
    BY <2>1
  <2>4. /\ i > admitted => /\ i \notin delivered /\ i \notin failed
                           /\ i \notin In(sending) /\ i \notin Waiting
        /\ i > admitted' => /\ i \notin delivered' /\ i \notin failed'
                            /\ i \notin In(sending') /\ i \notin Waiting'
    BY <1>1, <1>2
  <2> QED
    BY <2>1, <2>2, <2>3, <2>4, FateByPlace, NextFateByPlace DEF Outside!Becomes
<1>4. \A i \in 1 .. MaxLogs : /\ Fate(i) \in Outside!Sent => i \in Gone
                              /\ Fate(i)' \in Outside!Sent => i \in Gone'
                              /\ i \in Gone => Fate(i) \in Outside!Sent
  BY <1>1, <1>2, FateByPlace, NextFateByPlace DEF Outside!Sent
<1>5. ASSUME NEW i \in 1 .. MaxLogs, NEW j \in 1 .. MaxLogs,
             Fate(i) \notin Outside!Sent, Fate(i)' \in Outside!Sent, Fate(j) \in Outside!Sent
      PROVE  j < i
  <2>1. i \in Gone' /\ i \notin Gone /\ j \in Gone
    BY <1>4, <1>5
  <2>2. i \in Waiting
    BY <1>1, <2>1 DEF MovesOn
  <2> QED
    BY <2>1, <2>2 DEF PlacesInv, Before
<1> QED
  BY <1>3, <1>5 DEF Outside!DeliveryNext

(* Handing over moves entries on: what is taken out of the buffer and the  *)
(* queue is with the transport, queued, or dropped.                        *)
LEMMA EnqueueMovesOn ==
  ASSUME IInv, LineInv, IInv', LineInv', NEW owner \in Owners, Holding,
         Buffer!Take, EnqueueFlush(held, owner),
         UNCHANGED <<admitted, delivered, failed>>
  PROVE  MovesOn
<1>1. /\ ToSet(held') = {}
      /\ In(ToSet(queue') \union sending')
           \subseteq In(ToSet(queue) \union sending) \union ToSet(held)
  BY EnqueueMoves
<1>2. sending \subseteq sending'
  BY DEF EnqueueFlush, ProcessFlushQueue
<1>3. /\ Settled' = Settled /\ Gone' = Settled' \union In(sending')
      /\ Waiting' = In(ToSet(queue')) \union ToSet(held')
  BY Primed DEF Settled, Waiting, In, Of
<1>4. PlacesInv'
  BY PlacesApart, PTL
<1>5. In(sending) \subseteq In(sending')
  BY <1>2 DEF In
<1>6. /\ In(ToSet(queue') \union sending') = In(ToSet(queue')) \union In(sending')
      /\ In(ToSet(queue) \union sending) = In(ToSet(queue)) \union In(sending)
  BY DEF In
<1>7. In(sending') \subseteq Gone \union Waiting
  BY <1>1, <1>6 DEF Gone, Waiting
<1>8. Waiting' \subseteq Waiting
  BY <1>1, <1>3, <1>4, <1>5, <1>6 DEF Waiting, PlacesInv
<1>9. Gone \subseteq Gone' /\ Settled' \subseteq Gone
  BY <1>3, <1>5 DEF Gone
<1>10. admitted <= admitted'
  BY Numbers
<1> QED
  BY <1>7, <1>8, <1>9, <1>10 DEF MovesOn

(* Entries that stay where they are. *)
LEMMA StayingMovesOn ==
  ASSUME admitted \in Nat, UNCHANGED <<admitted, sending, delivered, failed>>,
         ToSet(held') \subseteq ToSet(held), queue' = queue \/ queue' = <<>>
  PROVE  MovesOn
<1>1. /\ Settled' = Settled /\ Gone' = Gone
      /\ Waiting' = In(ToSet(queue')) \union ToSet(held')
  BY Primed DEF Settled, Gone, Waiting, In, Of
<1>2. In(ToSet(queue')) \subseteq In(ToSet(queue))
  BY DEF In, ToSet
<1>3. Waiting' \subseteq Waiting
  BY <1>1, <1>2 DEF Waiting
<1>4. In(sending') \subseteq Gone
  BY DEF Gone
<1>5. Settled' \subseteq Gone /\ Gone \subseteq Gone'
  BY <1>1 DEF Gone
<1> QED
  BY <1>3, <1>4, <1>5 DEF MovesOn

(* log() adds a waiting entry and may evict others. *)
LEMMA LogMovesOn ==
  ASSUME IInv, LineInv, Log
  PROVE  MovesOn
<1> DEFINE e == admitted + 1
<1>1. /\ admitted \in Nat /\ e \in 1 .. MaxLogs /\ Buffer!Add(e) /\ admitted' = e
      /\ UNCHANGED <<queue, sending, delivered, failed>>
  BY DEF Log, queueVars, historyVars, IInv, TypeOK
<1>2. ToSet(held') \subseteq ToSet(held) \union {e}
  BY <1>1, AddedInOrder
<1>3. /\ Settled' = Settled /\ Gone' = Gone
      /\ Waiting' = In(ToSet(queue)) \union ToSet(held')
  BY <1>1, Primed DEF Settled, Gone, Waiting, In, Of
<1>4. e \in (1 .. admitted') \ (1 .. admitted) /\ admitted <= admitted'
  BY <1>1
<1> HIDE DEF e
<1>5. Waiting' \subseteq Waiting \union ((1 .. admitted') \ (1 .. admitted))
  BY <1>2, <1>3, <1>4 DEF Waiting
<1>6. In(sending') \subseteq Gone
  BY <1>1 DEF Gone
<1>7. Settled' \subseteq Gone /\ Gone \subseteq Gone'
  BY <1>3 DEF Gone
<1> QED
  BY <1>1, <1>4, <1>5, <1>6, <1>7 DEF MovesOn

(* The entries of a batch that settles leave the transport. *)
LEMMA SettlingMovesOn ==
  ASSUME IInv, LineInv, NEW t \in sending, NEW ok \in BOOLEAN, SendSettles(t, ok)
  PROVE  MovesOn
<1>1. Settled' = Settled \union Of(t) /\ In(sending') \subseteq In(sending)
  BY SettleMoves
<1>2. /\ UNCHANGED <<held, queue, admitted>>
      /\ delivered \subseteq delivered' /\ failed \subseteq failed'
      /\ sending' = sending \ {t}
  BY DEF SendSettles, bufferVars
<1>3. In(sending) \subseteq In(sending') \union Of(t) /\ Of(t) \subseteq In(sending)
  BY <1>2 DEF In
<1>4. Waiting' = Waiting
  BY <1>2 DEF Waiting, In, Of
<1>5. Gone' = Settled' \union In(sending') /\ Gone = Settled \union In(sending)
  BY Primed DEF Gone
<1>6. admitted <= admitted'
  BY <1>2, Numbers
<1> QED
  BY <1>1, <1>2, <1>3, <1>4, <1>5, <1>6 DEF MovesOn

(* The finally handler hands the first batches of the queue over. *)
LEMMA FinallyMovesOn ==
  ASSUME IInv, LineInv, IInv', LineInv', NEW t \in settled, Finally(t)
  PROVE  MovesOn
<1> DEFINE left == IF inFlight > 0 THEN inFlight - 1 ELSE 0
           H == ToSet(held)
<1>1. /\ queue \in Seq(Task) /\ sending \subseteq Task /\ left \in 0 .. MaxConcurrent
      /\ Lined(Gone, queue, H) /\ Apart(sending)
  BY DEF IInv, TypeOK, LineInv, OrderInv, TransportInv
<1>2. /\ ProcessFlushQueue(left, queue)
      /\ UNCHANGED <<held, admitted, delivered, failed>>
  BY DEF Finally, bufferVars, historyVars
<1> HIDE DEF left, H
<1>3. /\ In(ToSet(queue')) \union In(sending') = In(ToSet(queue)) \union In(sending)
      /\ sending \subseteq sending'
  BY <1>1, <1>2, ProcessMoves
<1>4. /\ Settled' = Settled /\ Gone' = Settled' \union In(sending')
      /\ Waiting' = In(ToSet(queue')) \union ToSet(held)
  BY <1>2, Primed DEF Settled, Waiting, In, Of
<1>5. PlacesInv'
  BY PlacesApart, PTL
<1>6. In(sending) \subseteq In(sending')
  BY <1>3 DEF In
<1>7. In(sending') \subseteq Gone \union Waiting
  BY <1>3 DEF Gone, Waiting
<1>8. Waiting' \subseteq Waiting
  BY <1>3, <1>4, <1>5, <1>6 DEF Waiting, PlacesInv
<1>9. Gone \subseteq Gone' /\ Settled' \subseteq Gone
  BY <1>4, <1>6 DEF Gone
<1>10. admitted <= admitted'
  BY <1>2, Numbers
<1> QED
  BY <1>2, <1>7, <1>8, <1>9, <1>10 DEF MovesOn

(* Every step moves entries on. *)
LEMMA EveryStepMovesOn ==
  ASSUME IInv, LineInv, IInv', LineInv', [Next]_vars
  PROVE  MovesOn
<1>1. admitted \in Nat
  BY Numbers
<1>2. \A owner \in Owners :
        /\ Holding /\ Buffer!Take /\ EnqueueFlush(held, owner)
        /\ UNCHANGED <<admitted, delivered, failed>>
        => MovesOn
  BY EnqueueMovesOn
<1>3. /\ UNCHANGED <<held, admitted, sending, delivered, failed, queue>> => MovesOn
      /\ UNCHANGED <<admitted, sending, delivered, failed>> /\ held' = <<>>
           /\ (queue' = queue \/ queue' = <<>>) => MovesOn
  <2>1. held' = <<>> => ToSet(held') \subseteq ToSet(held)
    BY DEF ToSet
  <2> QED
    BY <1>1, <2>1, StayingMovesOn
<1>4. ASSUME NEW c \in Callers, Flush(c)
      PROVE  MovesOn
  <2>1. c \in Owners
    BY DEF Owners, Flushers
  <2>2. CASE Holding
    BY <1>2, <1>4, <2>1, <2>2 DEF Flush, Holding
  <2>3. CASE ~ Holding
    <3>1. UNCHANGED <<held, admitted, sending, delivered, failed, queue>>
      BY <1>4, <2>3 DEF Flush, Holding, bufferVars, queueVars
    <3> QED
      BY <1>3, <3>1
  <2> QED
    BY <2>2, <2>3
<1>5. CASE FlushInBackground
  BY <1>2, <1>5 DEF FlushInBackground, Holding, Owners, historyVars
<1>6. CASE Destroy
  <2>1. Shutdown \in Owners
    BY DEF Owners, Flushers
  <2>2. CASE Holding
    BY <1>2, <1>6, <2>1, <2>2 DEF Destroy, Holding, historyVars
  <2>3. CASE ~ Holding
    <3>1. UNCHANGED <<held, admitted, sending, delivered, failed, queue>>
      BY <1>6, <2>3 DEF Destroy, Holding, bufferVars, queueVars, historyVars
    <3> QED
      BY <1>3, <3>1
  <2> QED
    BY <2>2, <2>3
<1>7. ASSUME NEW f \in Flushers, Resume(f)
      PROVE  MovesOn
  <2>1. UNCHANGED <<held, admitted, sending, delivered, failed, queue>>
    BY <1>7 DEF Resume, bufferVars, queueVars, historyVars
  <2> QED
    BY <1>3, <2>1
<1>8. ASSUME Drained \/ \E why \in {"send", "deadline"} : GiveUp(why)
      PROVE  MovesOn
  <2>1. /\ UNCHANGED <<admitted, sending, delivered, failed>> /\ held' = <<>>
        /\ queue' = queue \/ queue' = <<>>
    BY <1>8 DEF Drained, GiveUp, CloseAll, Buffer!Close, historyVars
  <2> QED
    BY <1>3, <2>1
<1>9. ASSUME \/ \E c \in Callers : FlushOnceDestroyed(c)
             \/ Closed
             \/ UNCHANGED vars
      PROVE  MovesOn
  <2>1. UNCHANGED <<held, admitted, sending, delivered, failed, queue>>
    BY <1>9 DEF FlushOnceDestroyed, Closed, vars, bufferVars, queueVars, historyVars
  <2> QED
    BY <1>3, <2>1
<1> QED
  BY <1>4, <1>5, <1>6, <1>7, <1>8, <1>9, LogMovesOn, SettlingMovesOn, FinallyMovesOn
     DEF Next

(* The pipeline implements Delivery: an entry is handed to the transport   *)
(* at most once and in the order of admission, its outcome is final, and   *)
(* none is dropped that the transport has - for any number of callers,     *)
(* slots, batches and entries.                                             *)
THEOREM PipelineDelivers == Spec => ImplementsDelivery
<1>1. Init => Outside!DeliveryInit
  <2> SUFFICES ASSUME Init, NEW i \in 1 .. MaxLogs
               PROVE  Fate(i) = "absent"
    BY DEF Outside!DeliveryInit
  <2>1. admitted = 0 /\ i > 0
    BY DEF Init
  <2> QED
    BY <2>1, FateByPlace
<1>2. /\ IInv /\ LineInv /\ IInv' /\ LineInv' /\ [Next]_vars
      => [Outside!DeliveryNext]_([i \in 1 .. MaxLogs |-> Fate(i)])
  <2> SUFFICES ASSUME IInv, LineInv, IInv', LineInv', [Next]_vars
               PROVE  Outside!DeliveryNext
    OBVIOUS
  <2>1. PlacesInv
    BY PlacesApart
  <2>2. PlacesInv'
    BY PlacesApart, PTL
  <2>3. admitted \in Nat /\ admitted' \in Nat
    BY DEF IInv, TypeOK
  <2>4. MovesOn
    BY EveryStepMovesOn
  <2> QED
    BY <2>1, <2>2, <2>3, <2>4, MovesAreDeliveries
<1> QED
  BY <1>1, <1>2, Accounts, PTL
     DEF Spec, ImplementsDelivery, Outside!DeliverySpec
=============================================================================
