----------------------------- MODULE WorkerPool -----------------------------
(***************************************************************************)
(* The pool of worker threads that format and compress batches             *)
(* (infrastructure/workers/WorkerPool.ts).  The answers of the threads,    *)
(* their timeouts, their exits, the aborts of the callers and destroy()    *)
(* are events of one event loop, in any order; each is one step, with the  *)
(* replenish() and drainQueue() it ends in.                                *)
(*                                                                         *)
(* This module has the operations; WireTransport composes them with the    *)
(* sends that call the pool.                                               *)
(*                                                                         *)
(* A thread that is being terminated is in closing until terminate()       *)
(* resolves; its name may then be used for a new thread.                   *)
(***************************************************************************)
EXTENDS Naturals, Sequences, FiniteSets, SequencesExt

CONSTANTS
  Threads,        \* names for threads, more than the pool may have at once
  Tasks,          \* calls of execute()
  Uncloneable,    \* tasks whose data postMessage() refuses
  MaxWorkersOption, MaxQueueOption,   \* config.maxWorkers, config.maxQueueSize
  Undefined, NoTask

(* bounded(): a missing or non-positive option falls back. *)
Bounded(value, fallback, max) ==
  IF value = Undefined \/ value = 0 THEN fallback ELSE Min({value, max})

MaxWorkers == Bounded(MaxWorkersOption, 2, 16)
MaxQueueSize == Bounded(MaxQueueOption, MaxWorkers * 4, 64)

ASSUME WorkerPoolAssumption ==
  /\ IsFiniteSet(Threads) /\ Cardinality(Threads) > MaxWorkers
  /\ IsFiniteSet(Tasks) /\ Uncloneable \subseteq Tasks
  /\ NoTask \notin Tasks \union Threads
  /\ MaxWorkersOption \in Nat \union {Undefined}
  /\ MaxQueueOption \in Nat \union {Undefined}

VARIABLES
  available,      \* availableWorkers: the last one is taken first
  queue,
  active,         \* active[w]: the task of thread w, or NoTask
  workers,
  closing,        \* the threads in terminations
  cancelling,     \* cancelling[t]: the thread whose end cancelTask(t) awaits
  totalTasks, completedTasks, failedTasks,
  destroyed,
  outcome         \* history: how each call of execute() ended

counters == <<totalTasks, completedTasks, failedTasks>>
vars == <<available, queue, active, workers, closing, cancelling, counters,
          destroyed, outcome>>

(***************************************************************************)
(* replenish() and drainQueue(), on the lists and sets an event leaves.    *)
(***************************************************************************)

(* The threads createWorker() makes, n of them, in some fixed order. *)
Fresh(n, used) == SubSeq(SetToSeq(Threads \ used), 1, n)

(* A mistake: threads that are still closing are not counted. *)
ReplenishedEarly(avail, waiting, alive, ending) ==
  LET wanted == Len(waiting) - Len(avail)
      spare == MaxWorkers - Cardinality(alive)
  IN  IF destroyed \/ Len(waiting) <= Len(avail)
           \/ MaxWorkers <= Cardinality(alive)
        THEN <<>>
        ELSE Fresh(Min({wanted, spare}), alive \union ending)

(* Threads that replenish() creates: one for each task that no available   *)
(* thread will take, as far as there is capacity.                          *)
Replenished(avail, waiting, alive, ending) ==
  LET wanted == Len(waiting) - Len(avail)
      spare == MaxWorkers - Cardinality(alive) - Cardinality(ending)
  IN  IF destroyed \/ Len(waiting) <= Len(avail)
           \/ MaxWorkers <= Cardinality(alive) + Cardinality(ending)
        THEN <<>>
        ELSE Fresh(Min({wanted, spare}), alive \union ending)

Cloneable(t) == t \notin Uncloneable

(* How many of the first p tasks that wait can be posted. *)
Posted(waiting, p) == Cardinality({i \in 1 .. p : Cloneable(waiting[i])})

(* How many tasks leave the queue when n threads are available: a task     *)
(* that cannot be posted fails at once and its thread takes the next one.  *)
Leaving(waiting, n) ==
  LET ends == {p \in 1 .. Len(waiting) : Posted(waiting, p) = n}
  IN  IF n = 0 THEN 0 ELSE IF ends = {} THEN Len(waiting) ELSE Min(ends)

(* Which of the first n tasks that wait thread w gets: none or one, the    *)
(* last thread that is ready the first task that can be posted.            *)
Given(ready, waiting, n, w) ==
  {p \in 1 .. n : Cloneable(waiting[p])
                  /\ w = ready[Len(ready) + 1 - Posted(waiting, p)]}

(* The end of every event: from avail, waiting, the running tasks and the  *)
(* live and closing threads it leaves, to the next state.  done and refused *)
(* are the tasks that it settles itself.                                   *)
ReplenishAndDrain(avail, waiting, running, alive, ending, done, refused) ==
  LET fresh == Replenished(avail, waiting, alive, ending)
      ready == avail \o fresh
      n == Leaving(waiting, Len(ready))
      left == Len(ready) - Posted(waiting, n)
      Got(w) == Given(ready, waiting, n, w)
      failed == refused \union {waiting[p] : p \in {q \in 1 .. n : ~Cloneable(waiting[q])}}
  IN  /\ available' = SubSeq(ready, 1, left)
      /\ queue' = SubSeq(waiting, n + 1, Len(waiting))
      /\ active' = [w \in Threads |->
                     IF Got(w) = {} THEN running[w]
                       ELSE waiting[CHOOSE p \in Got(w) : TRUE]]
      /\ workers' = alive \union ToSet(fresh)
      /\ closing' = ending
      /\ completedTasks' = completedTasks + Cardinality(done)
      /\ failedTasks' = failedTasks + Cardinality(failed)
      /\ outcome' = [t \in Tasks |->
                      CASE t \in done -> "resolved"
                        [] t \in failed -> "rejected"
                        [] t \in ToSet(waiting) \ failed -> "waiting"
                        [] OTHER -> outcome[t]]

Init ==
  /\ available = Fresh(MaxWorkers, {}) /\ workers = ToSet(available)
  /\ queue = <<>> /\ closing = {}
  /\ active = [w \in Threads |-> NoTask]
  /\ cancelling = [t \in Tasks |-> NoTask]
  /\ totalTasks = 0 /\ completedTasks = 0 /\ failedTasks = 0
  /\ destroyed = FALSE
  /\ outcome = [t \in Tasks |-> "none"]

(***************************************************************************)
(* execute()                                                               *)
(***************************************************************************)

(* The calls that never become a task: after destroy(), uncounted, and at  *)
(* the limit of the queue, counted as failed but not in totalTasks.        *)
ExecuteDestroyed(t) ==
  /\ outcome[t] = "none" /\ destroyed
  /\ outcome' = [outcome EXCEPT ![t] = "after destroy"]
  /\ UNCHANGED <<available, queue, active, workers, closing, cancelling,
                 counters, destroyed>>

ExecuteOverLimit(t) ==
  /\ outcome[t] = "none" /\ ~destroyed
  /\ workers # {} \/ closing # {}
  /\ available = <<>> /\ Len(queue) >= MaxQueueSize
  /\ failedTasks' = failedTasks + 1
  /\ outcome' = [outcome EXCEPT ![t] = "over limit"]
  /\ UNCHANGED <<available, queue, active, workers, closing, cancelling,
                 totalTasks, completedTasks, destroyed>>

(* A pool whose threads all died idle makes one before it looks.           *)
Execute(t) ==
  LET first == IF workers = {} /\ closing = {} THEN Fresh(1, {}) ELSE <<>>
  IN  /\ outcome[t] = "none" /\ ~destroyed
      /\ available \o first # <<>> \/ Len(queue) < MaxQueueSize
      /\ totalTasks' = totalTasks + 1
      /\ ReplenishAndDrain(available \o first, Append(queue, t), active,
                           workers \union ToSet(first), closing, {}, {})
      /\ UNCHANGED <<cancelling, destroyed>>

(***************************************************************************)
(* What threads and timers report.                                         *)
(***************************************************************************)

(* The list without e, which is in it once at most. *)
Without(list, e) ==
  IF e \in ToSet(list)
    THEN RemoveAt(list, CHOOSE i \in DOMAIN list : list[i] = e) ELSE list

Freed(w) == [active EXCEPT ![w] = NoTask]

(* What the thread's message handler posts: it catches what it throws.     *)
Reply == {"result", "error"}

(* The handler of the task on w: settle(), back to availableWorkers.       *)
Answer(w, reply) ==
  /\ active[w] # NoTask /\ reply \in Reply
  /\ ReplenishAndDrain(Append(available, w), queue, Freed(w), workers, closing,
                       IF reply = "result" THEN {active[w]} ELSE {},
                       IF reply = "error" THEN {active[w]} ELSE {})
  /\ UNCHANGED <<cancelling, totalTasks, destroyed>>

(* removeWorker(): a no-op for a thread that was removed before.           *)
RemoveWorker(w) ==
  /\ w \in workers
  /\ ReplenishAndDrain(Without(available, w), queue, Freed(w),
                       workers \ {w}, closing \union {w},
                       {}, {active[w]} \ {NoTask})
  /\ UNCHANGED <<cancelling, totalTasks, destroyed>>

Timeout(w) == active[w] # NoTask /\ RemoveWorker(w)

(* An error or an exit of the thread, idle or busy. *)
Exit(w) == RemoveWorker(w)

(* A mistake: terminate() rejects and cancelTask() does not go on. *)
TerminatedUncaught(w) ==
  /\ w \in closing
  /\ ReplenishAndDrain(available, queue, active, workers, closing \ {w}, {}, {})
  /\ UNCHANGED <<cancelling, totalTasks, destroyed>>

(* terminate() resolves; if cancelTask() awaits it, that goes on as well.  *)
Terminated(w) ==
  LET cancelled == {t \in Tasks : cancelling[t] = w}
  IN  /\ w \in closing
      /\ ReplenishAndDrain(available, queue, active, workers, closing \ {w},
                           {}, cancelled)
      /\ cancelling' = [t \in Tasks |->
                          IF t \in cancelled THEN NoTask ELSE cancelling[t]]
      /\ UNCHANGED <<totalTasks, destroyed>>

(***************************************************************************)
(* cancelTask(), when the caller aborts its signal.                        *)
(***************************************************************************)

AbortQueued(t) ==
  /\ t \in ToSet(queue)
  /\ ReplenishAndDrain(available, Without(queue, t), active,
                       workers, closing, {}, {t})
  /\ UNCHANGED <<cancelling, totalTasks, destroyed>>

(* A mistake: the task is settled at once and again when its thread ends. *)
AbortRunningTwice(t) ==
  \E w \in Threads :
    /\ active[w] = t
    /\ active' = Freed(w)
    /\ workers' = workers \ {w} /\ closing' = closing \union {w}
    /\ available' = Without(available, w)
    /\ cancelling' = [cancelling EXCEPT ![t] = w]
    /\ failedTasks' = failedTasks + 1
    /\ outcome' = [outcome EXCEPT ![t] = "rejected"]
    /\ UNCHANGED <<queue, totalTasks, completedTasks, destroyed>>

(* The running task is neither queued nor active until its thread is gone. *)
AbortRunning(t) ==
  \E w \in Threads :
    /\ active[w] = t
    /\ active' = Freed(w)
    /\ workers' = workers \ {w} /\ closing' = closing \union {w}
    /\ available' = Without(available, w)
    /\ cancelling' = [cancelling EXCEPT ![t] = w]
    /\ UNCHANGED <<queue, counters, destroyed, outcome>>

(***************************************************************************)
(* destroy()                                                               *)
(***************************************************************************)

Destroy ==
  LET dropped == (ToSet(queue) \union {active[w] : w \in workers}) \ {NoTask}
  IN  /\ ~destroyed
      /\ destroyed' = TRUE
      /\ available' = <<>> /\ queue' = <<>>
      /\ active' = [w \in Threads |-> NoTask]
      /\ workers' = {} /\ closing' = closing \union workers
      /\ failedTasks' = failedTasks + Cardinality(dropped)
      /\ outcome' = [t \in Tasks |->
                       IF t \in dropped THEN "rejected" ELSE outcome[t]]
      /\ UNCHANGED <<cancelling, totalTasks, completedTasks>>

(* What the threads and their timers do on their own.  WireTransport calls *)
(* execute() and aborts, and has the next-state relation.                  *)
ThreadStep ==
  \E w \in Threads : \/ \E reply \in Reply : Answer(w, reply)
                     \/ Timeout(w) \/ Exit(w) \/ Terminated(w)

(***************************************************************************)
(* Properties                                                              *)
(***************************************************************************)

(* Threads that are closing count against the capacity, whatever mixture   *)
(* of exits, timeouts, aborts and answers led here (removeWorker,          *)
(* cancelTask, terminate); a thread is available exactly when it is alive  *)
(* and has no task, and once; a task waits only while every thread that    *)
(* may exist does, busy or closing.                                        *)
CapacityUsed ==
  LET threads == Cardinality(workers) + Cardinality(closing)
  IN  /\ workers \intersect closing = {} /\ threads <= MaxWorkers
      /\ IsInjective(available)
      /\ ToSet(available) = {w \in workers : active[w] = NoTask}
      /\ \A w \in Threads \ workers : active[w] = NoTask
      /\ Len(queue) <= MaxQueueSize
      /\ queue # <<>> => ~destroyed /\ available = <<>> /\ threads = MaxWorkers

(* Each promise of execute() is settled once: a task is in one place only, *)
(* and completedTasks and failedTasks are the promises that ended, with    *)
(* the refusals at the limit, that totalTasks leaves out.                  *)
SettledOnce ==
  LET Ended(how) == Cardinality({t \in Tasks : outcome[t] = how})
      running == {active[w] : w \in Threads} \ {NoTask}
      cancelled == {t \in Tasks : cancelling[t] # NoTask}
  IN  /\ completedTasks = Ended("resolved")
      /\ failedTasks = Ended("rejected") + Ended("over limit")
      /\ totalTasks = Len(queue) + Cardinality(running) + Cardinality(cancelled)
                        + Ended("resolved") + Ended("rejected")
=============================================================================
