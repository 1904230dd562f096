---------------------------- MODULE WireTransport ---------------------------
(***************************************************************************)
(* The transports that turn a batch into one HTTP request, below           *)
(* ResilientTransport (infrastructure/transport/LokiJsonTransport.ts,      *)
(* LokiProtobufTransport.ts, OtlpHttpTransport.ts, BoundedAgent.ts).  The  *)
(* Loki transports hand large batches to the worker pool of WorkerPool,    *)
(* fall back to the main thread when the pool fails them, and check the    *)
(* abort signal wherever they wait; the OTLP transport leaves encoding and *)
(* retries to the OpenTelemetry exporter, whose every attempt asks the     *)
(* agent of BoundedAgent for a socket.                                     *)
(*                                                                         *)
(* Shutdown is ResilientTransport.destroy(): it aborts the signal of every *)
(* send and then destroys the transport, in one turn of the event loop.    *)
(* Destroy, of WorkerPool, is destroy() called on a Loki transport itself. *)
(***************************************************************************)
EXTENDS WorkerPool

CONSTANTS
  Sends,          \* calls of send() with a batch
  Jobs,           \* Jobs[s]: the pool tasks batch s is large enough for
  MaxAttempts     \* of the OpenTelemetry exporter for one batch

ASSUME WireTransportAssumption ==
  /\ Jobs \in [Sends -> Seq(Tasks)]
  /\ \A s, r \in Sends : s # r => ToSet(Jobs[s]) \intersect ToSet(Jobs[r]) = {}
  /\ MaxAttempts \in Nat \ {0}

VARIABLES
  kind,           \* which transport
  stage,          \* stage[s]: what send s waits for
  job,            \* job[s]: how many of Jobs[s] were given to the pool
  attempts,
  aborted,        \* aborted[s]: the signal of send s
  shut,           \* ResilientTransport.destroy() was called
  closed          \* the client, or the agent of BoundedAgent, is destroyed

wireVars == <<kind, stage, job, attempts, aborted, shut, closed>>
allVars == <<vars, wireVars>>

(* A task of the pool; compression, or the gate; a socket; the response.   *)
Open == {"working", "preparing", "exporting", "requesting"}

WireInit ==
  /\ Init
  /\ kind \in {"loki", "otlp"}
  /\ stage = [s \in Sends |-> "idle"]
  /\ job = [s \in Sends |-> 0] /\ attempts = [s \in Sends |-> 0]
  /\ aborted = [s \in Sends |-> FALSE]
  /\ shut = FALSE /\ closed = FALSE

Becomes(s, new) == stage' = [stage EXCEPT ![s] = new]

(***************************************************************************)
(* send() of the Loki transports: up to two tasks of the pool, then the    *)
(* main thread.                                                            *)
(***************************************************************************)

Current(s) == Jobs[s][job[s]]

(* workerPool.execute() for the next job, in the step that leads to it.    *)
UseWorker(s) ==
  LET t == Jobs[s][job[s] + 1]
  IN  /\ job[s] < Len(Jobs[s])
      /\ Execute(t) \/ ExecuteOverLimit(t) \/ ExecuteDestroyed(t)
      /\ job' = [job EXCEPT ![s] = @ + 1]
      /\ Becomes(s, "working")

(* Nothing is left for the pool: the body is ready, or compressed here.    *)
MainThread(s) ==
  /\ job[s] = Len(Jobs[s])
  /\ Becomes(s, "preparing")
  /\ UNCHANGED <<vars, job>>

Send(s) ==
  /\ kind = "loki" /\ stage[s] = "idle" /\ ~shut
  /\ UseWorker(s) \/ MainThread(s)
  /\ UNCHANGED <<kind, attempts, aborted, shut, closed>>

Fails(s) == Becomes(s, "failed") /\ UNCHANGED <<vars, job>>

(* The pool has settled the task of the send.  A result and a refusal or   *)
(* failure lead on alike, the latter by way of the main thread.            *)
Continue(s) ==
  /\ stage[s] = "working" /\ outcome[Current(s)] # "waiting"
  /\ IF aborted[s] THEN Fails(s) ELSE UseWorker(s) \/ MainThread(s)
  /\ UNCHANGED <<kind, attempts, aborted, shut, closed>>

(* A mistake: the signal is not looked at again after the wait. *)
DispatchUnchecked(s) ==
  /\ stage[s] = "preparing"
  /\ \/ Fails(s)
     \/ ~closed /\ Becomes(s, "requesting") /\ UNCHANGED <<vars, job>>
  /\ UNCHANGED <<kind, attempts, aborted, shut, closed>>

(* compress() ends, then dispatch() waits until the gate opens or the      *)
(* deadline of the send comes; each of them can fail.                      *)
Dispatch(s) ==
  /\ stage[s] = "preparing"
  /\ \/ Fails(s)
     \/ /\ ~aborted[s] /\ ~closed
        /\ Becomes(s, "requesting") /\ UNCHANGED <<vars, job>>
  /\ UNCHANGED <<kind, attempts, aborted, shut, closed>>

(***************************************************************************)
(* send() of the OTLP transport                                            *)
(***************************************************************************)

Export(s) ==
  /\ kind = "otlp" /\ stage[s] = "idle" /\ ~shut
  /\ Becomes(s, "exporting")
  /\ UNCHANGED <<vars, kind, job, attempts, aborted, shut, closed>>

(* The exporter asks for a socket, for a first or for a repeated attempt.  *)
AddRequest(s) ==
  /\ stage[s] = "exporting"
  /\ attempts' = [attempts EXCEPT ![s] = @ + 1]
  /\ Becomes(s, IF closed \/ aborted[s] THEN "failed" ELSE "requesting")
  /\ UNCHANGED <<vars, kind, job, aborted, shut, closed>>

(* The exporter backs off and repeats an attempt that was refused.         *)
Repeat(s) ==
  /\ kind = "otlp" /\ stage[s] = "requesting" /\ attempts[s] < MaxAttempts
  /\ Becomes(s, "exporting")
  /\ UNCHANGED <<vars, kind, job, attempts, aborted, shut, closed>>

(***************************************************************************)
(* The request                                                             *)
(***************************************************************************)

(* A response below 300 and consumeResponse() comes to the end of it.  The *)
(* callback of the OTLP exporter looks at the signal before the result.    *)
Accepted(s) ==
  /\ stage[s] = "requesting" /\ ~(kind = "otlp" /\ aborted[s])
  /\ Becomes(s, "sent")
  /\ UNCHANGED <<vars, kind, job, attempts, aborted, shut, closed>>

(* Another status, the network, the deadline of the request, the signal,   *)
(* the destroyed client or a body over the limit.                          *)
RequestFails(s) ==
  /\ stage[s] = "requesting" /\ Becomes(s, "failed")
  /\ UNCHANGED <<vars, kind, job, attempts, aborted, shut, closed>>

(***************************************************************************)
(* Abort and shutdown                                                      *)
(***************************************************************************)

(* The deadline of the send; the listeners of the pool run at once.        *)
Abort(s) ==
  /\ stage[s] \in Open /\ ~aborted[s]
  /\ aborted' = [aborted EXCEPT ![s] = TRUE]
  /\ IF stage[s] = "working" /\ outcome[Current(s)] = "waiting"
       THEN AbortQueued(Current(s)) \/ AbortRunning(Current(s))
       ELSE UNCHANGED vars
  /\ UNCHANGED <<kind, stage, job, attempts, shut, closed>>

(* Every task is aborted, so that destroy() finds only idle threads.       *)
PoolShutdown ==
  /\ destroyed' = TRUE
  /\ available' = <<>> /\ queue' = <<>>
  /\ active' = [w \in Threads |-> NoTask]
  /\ workers' = {} /\ closing' = closing \union workers
  /\ cancelling' = [t \in Tasks |->
                      IF \E w \in workers : active[w] = t
                        THEN CHOOSE w \in workers : active[w] = t
                        ELSE cancelling[t]]
  /\ failedTasks' = failedTasks + Len(queue)
  /\ outcome' = [t \in Tasks |->
                   IF t \in ToSet(queue) THEN "rejected" ELSE outcome[t]]
  /\ UNCHANGED <<totalTasks, completedTasks>>

Shutdown ==
  /\ ~shut /\ shut' = TRUE
  /\ aborted' = [s \in Sends |-> aborted[s] \/ stage[s] \in Open]
  /\ IF kind = "loki" THEN PoolShutdown /\ UNCHANGED closed
       ELSE closed' = TRUE /\ UNCHANGED vars
  /\ UNCHANGED <<kind, stage, job, attempts>>

(* client.destroy(), after workerPool.destroy() saw every thread end; with *)
(* connection pooling off there is no client, and this never comes.        *)
ClientClosed ==
  /\ kind = "loki" /\ destroyed /\ closing = {} /\ ~closed
  /\ closed' = TRUE
  /\ UNCHANGED <<vars, kind, stage, job, attempts, aborted, shut>>

PoolStep ==
  /\ kind = "loki"
  /\ ThreadStep \/ Destroy
  /\ UNCHANGED wireVars

WireNext ==
  \/ \E s \in Sends : \/ Send(s) \/ Continue(s) \/ Dispatch(s)
                      \/ Export(s) \/ AddRequest(s) \/ Repeat(s)
                      \/ Accepted(s) \/ RequestFails(s) \/ Abort(s)
  \/ Shutdown \/ ClientClosed \/ PoolStep

(* What happens without a caller, a thread or a server: what was awaited   *)
(* and is settled goes on, timers fire, terminate() resolves.              *)
Progress ==
  \/ \E s \in Sends : \/ Continue(s) \/ Dispatch(s)
                      \/ AddRequest(s) \/ RequestFails(s)
  \/ \E w \in Threads : (Timeout(w) \/ Terminated(w)) /\ UNCHANGED wireVars

(* The event loop does not stop while something of this kind is due.       *)
WireSpec == WireInit /\ [][WireNext]_allVars /\ WF_allVars(Progress)

(***************************************************************************)
(* Properties                                                              *)
(***************************************************************************)

(* Every send() ends, whichever of the answer, the timeout, the abort, the *)
(* exit of a thread, destroy() and the deadlines comes first: no task of   *)
(* the pool is left without an outcome (WorkerPool.execute, cancelTask)    *)
(* and no wait of the transports is without a timer.  (There are finitely  *)
(* many sends, each opened once.)                                          *)
EverySendSettles == <>[](\A s \in Sends : stage[s] \notin Open)

(* Once destroy() was called no request is sent, wherever its batch was:   *)
(* queued or running in the pool, falling back to the main thread because  *)
(* the pool is gone, compressing, held by the gate, or between attempts of *)
(* the exporter; with and without a client that destroy() could close.     *)
NothingSentOnceShut ==
  [][shut => \A s \in Sends :
               stage'[s] = "requesting" => stage[s] = "requesting"]_allVars
=============================================================================
