# Formal models of logs-interceptor

TLA+ models of the telemetry library in `src/src`: what happens to a log entry
between `logger.info()` and the collector, with the timers, queues, limits,
failures and the shutdown on that way, and how the pipelines themselves are
configured, made, replaced and destroyed. TLC checks small instances; TLAPS proves
the central facts for every value of the constants.

Paths below are relative to `src/src/`.

## 1. The system

An application logs through a `LogService`, directly or through a console
interceptor. Entries are filtered and buffered; batches of them are sent through
a transport that retries, observes back-pressure, breaks the circuit and keeps
what failed in a dead letter queue. Everything runs on one event loop (plus
worker threads for compression), so that concurrency is that of promises,
timers and callbacks: code between two `await`s is atomic.

| Component | State | Operations | Talks to |
|---|---|---|---|
| Log buffer (`infrastructure/buffer/MemoryBuffer.ts`, `memory/MemoryTracker.ts`) | entries, tracked bytes, a timeout and an immediate, drop counter | add, flush, clear, destroy, two callbacks | calls LogService's flush back |
| Flush pipeline (`application/services/LogService.ts`) | flush queue, number of batches in flight, callers waiting for idle, counters, destroy promise | log, fatal, flush, destroy | buffer, transport, filter |
| Circuit breaker (`infrastructure/circuit-breaker/CircuitBreaker.ts`) | state, failures, successes, probes in flight, next attempt | execute, reset | wraps a send with all its retries |
| Resilient transport (`infrastructure/transport/ResilientTransport.ts`) | sends in progress, shared retry floor, counters, destroyed | send, destroy | breaker, wire transport, dead letter queue |
| Dead letter queues (`infrastructure/dlq/`) | entries; for the file queue also a chain of writes and a file | addBatch, clear, flush, load | the file system |
| Worker pool (`infrastructure/workers/WorkerPool.ts`) | workers, available, active, terminating, task queue | execute, cancel, timeouts, exits, destroy | worker threads |
| Runtime (`index.ts`, `presentation/factory/`, `infrastructure/interceptors/ConsoleInterceptor.ts`) | the global runtime, console wrappers | init, destroy, enable, restore | all of the above |
| Configuration (`ConfigService.ts`, `ConfigSnapshot.ts`, `utils.ts`) | none | parse the environment, merge, validate, default | `init()` |
| Filtering and privacy (`infrastructure/filter/`, `infrastructure/privacy/`) | compiled rules; the budgets of the record at hand | select, redact, close | `log()` |
| Wire transports (`infrastructure/transport/Loki*.ts`, `OtlpHttpTransport.ts`, `BoundedAgent.ts`) | sends in progress, a client or agent | send, destroy | worker pool, undici, the OpenTelemetry exporter |
| Retry-After (`infrastructure/transport/RetryAfter.ts`) | none | read the fields of an answer, at a wall clock | Resilient transport |
| Pure parts (`MetricsCollector.ts`, `BoundedSnapshot.ts`) | none, or windows of samples | functions of their input | |
| Compression, context, adapters | streams | compress, forward | zlib, other libraries |

What is hard in it, and the properties that matter:

- **Buffer.** Two handles replace and cancel one another; entries must never be
  held without one of them armed, the byte total must not drift, both limits
  must hold whatever is evicted, and a destroyed buffer must be silent.
- **Pipeline.** Slots are taken synchronously and given back two promise
  callbacks after a send settles; a full queue drops its oldest batch and
  resolves its owner; `destroy()` meets callers that wait, batches that are
  queued, sends that are open, and a deadline. No entry may be lost without
  being counted, `flush()` must be a barrier and return, `destroy()` must end and
  nothing may be sent after it.
- **Breaker.** Outcomes arrive in states their operations were not admitted in.
  Slots must not leak, the quiet period must be kept, the breaker must recover.
- **Resilient transport.** A shared retry floor that rises while a send sleeps,
  a deadline that races an answer, `destroy()` between failure and dead letter.
- **File queue.** Writes, `clear()` and recovery interleave; the process may
  crash in the middle of a write.
- **Worker pool.** Terminating threads count against the capacity; answer,
  timeout, cancellation, exit and `destroy()` race for each task.
- **Wire transports.** A batch may wait for a worker, the main thread,
  compression, the gate or a socket when its signal is aborted or `destroy()`
  comes; every send must end and none may start a request afterwards.
- **Runtime.** A replaced logger still drains while its successor runs; label
  providers call `init()`, `destroy()` and the console from inside `log()`;
  creation may fail half way; other libraries wrap the console too.
- **Configuration.** A value may come from an argument, a variable or a default,
  each with ranges of its own; what is accepted must suit every component.
- **Privacy.** Matching has budgets that run out in the middle of a record, and
  shortcuts around the engine; neither may let a sensitive value through.

`PROJECT.json` lists each of these hazards with the line where it bites and the
properties that cover it.

## 2. The modules

| Module | Models | Status |
|---|---|---|
| `LogBuffer` | what the pipeline relies on from a buffer: an abstract specification | done |
| `MemoryBuffer` | the buffer with its handles, ages, sizes and time; implements `LogBuffer` | done |
| `Delivery` | the fate of an entry seen from outside: an abstract specification | done |
| `LogService` | the pipeline on top of `LogBuffer`; implements `Delivery` | done; callbacks into the logger from inside `log()` are in `Runtime` |
| `CircuitBreaker` | the breaker around overlapping operations | done |
| `ResilientTransport` | sends with retries, a shared floor, deadlines, aborts, a dead letter queue | done; the breaker is any `ICircuitBreaker` |
| `WorkerPool` | the operations of the pool: capacity, queue, answers, timeouts, exits, cancellation | done |
| `WireTransport` | the sends of a Loki or OTLP transport composed with `WorkerPool`, aborts and shutdown | control done; no serialisation |
| `DropOldestQueue` | a bounded queue that forgets its oldest entries and counts them: an abstract specification | done |
| `DeadLetterQueue` | the queue in memory and the one in a file, with crashes; implements `DropOldestQueue` | done |
| `Configuration` | environment, merge, validation, defaults: operators | the options named there |
| `RetryAfter` | what the Retry-After fields of an answer ask for: operators | done |
| `Runtime` | `init()`, replacement, `destroy()`, console wrappers, the preload script, re-entrant `log()`, over `Configuration` | done |
| `Privacy` | rules, budgets and decisions of the matcher, and their use on a record | decisions done; no `replace()` |
| `Sums` | the sum of a function or a sequence of numbers: bytes held, entries in batches, lines of the file | done |
| `SumTheorems` | the rules for such sums, and least and greatest elements of sets of naturals | done |
| `MemoryBufferProofs`, `LogServiceProofs`, `ResilientTransportProofs`, `TransportProofs` (wire transports, pool and breaker), `DeadLetterQueueProofs`, `RuntimeProofs`, `PrivacyProofs` | theorems | done |
| `MC*` | model values for the runs | done |

### MemoryBuffer

`entries`, `tracked`, `dropped` and `destroyed` are the fields of the class
(`tracked` is the tracker's `totalSize`). `flushTimer`/`timerLeft` and
`immediate`/`immediateAge` are the two handles with the time that is left or has
passed. An entry is `[size, age]`: the buffer looks at nothing else, and the
estimate of a size is any member of `Sizes`. Time is a `Tick` that is disabled
while a callback is overdue by `Lag`, so that the event loop may be late but not
for ever. One action per operation: `Add` does both evictions, the accounting
and what it arms (`Kept` says what the eviction by age, then by tenths until the
bytes fit, may leave); `Flush`, `TimerFires`, `ImmediateFires` share `HandOver`;
`Clear`; `Destroy`. The callback is the one `LogService` installs: it calls
`flush()` back in the same turn. `Add` adds up the bytes of what its evictions
leave in one formula, where the code takes them off in three places
(`removeOldEntries`, `dropOldest`, `enforceMaxSize`): `TrackedIsHeld` is about
hand-over, `clear()` and `destroy()`, and would not find one eviction that forgets
its bytes.

### LogService

Entries are numbers in the order of admission. A batch is
`[entries, owner]`: the `flush()` call whose promise it carries. `sending` are
the batches the transport has, `settled` those it has settled whose `finally`
handler is still due, which is the window the code really has. `pc` says where
each `flush()` and the drain of `destroy()` is: awaiting its batch, resumed,
waiting for idle, returned or rejected. A `flush()` called once `destroyed` is
set returns at once (`FlushOnceDestroyed`, `pc` "refused"), whatever is queued or
in flight. `ProcessFlushQueue` and `EnqueueFlush`
are the functions of those names; `SendSettles`, `Resume` and `Finally` are the
three promise continuations in the order in which the microtask queue runs them:
`Finally` waits for the owner's `Resume`, and the rejection of the drain
(`GiveUp("send")`) arrives after that batch's `Finally`, because it passes
through more promises. `GiveUp("deadline")` is the timer of `destroyInternal`.
The transport is any `ILogTransport`.

The history variables `delivered`, `failed` and `mark` are not in the code; they
serve the properties only. Queries (`getMetrics`, `getHealth`) change nothing
the pipeline reads.

### CircuitBreaker

`state`, `failures`, `successCount`, `halfOpenInFlight` are the fields;
`failures` is counted up to the threshold only, since the code compares it with
nothing else. `nextAttempt` is kept as the units left (`coolDown`), `running[o]`
holds the local `countedAsProbe`. `Begin`, `HalfOpen` and `Probe` are
the three ways through the first half of `execute()` (a refused call changes
nothing); `Succeed`, `Fail` and `Decline` its outcomes, each with what is recorded
and with the `finally` block in the same step, as in the code. `current` and
`quiet` are history: the probes of the present half-open state, the time since
the latest recorded failure.

### ResilientTransport

One `phase` per send: in `waitUntil` before an attempt (`backoff`) or in
`dispatch` (`gate`), with the wire transport (`preparing` a body, `requested`,
`refused` while it reads the rest of an answer), or with a continuation due:
`yield` after dispatch's wait, `woken` by an abort, `answered` before the last
check in `send()`. `left` and `wake` are the times left until the deadline and
until the timer a send sleeps on, `floor` is `notBefore`; past times stop at
`-Lag` where no comparison can tell them apart. `WaitUntil` is one round of the
loop, `Attempt` and `Gate` its two callers, `WireFails` the catch block of
`retryOperation`, `Fails` that of `send()` up to its `await`, `Enqueued` the rest
of it. An answer's head raises the floor (`Refuse`) turns before its error is
handled, as in the Loki transports, which report it through
`observeRetryAfter` and then read the body. Whether an error is retryable, how
long a backoff is, what the dead letter queue takes, and whether the breaker
refuses are nondeterministic. `acked` and `owed` are history: the sends that
were acknowledged, and the delays asked for that are not over; `owed` is kept
apart from `floor`, so that a floor that forgets one is noticed.

### WorkerPool and WireTransport

`available`, `queue`, `active`, `workers`, `closing` (the map `terminations`),
the three counters and `destroyed` are the fields of the pool; `cancelling[t]` is
the continuation of `cancelTask`, which has taken a task off its thread and
awaits the end of that thread before it rejects. `ReplenishAndDrain` is the pair
of calls nearly every handler ends in, as one operator on what the handler
leaves: `Replenished` the threads that are made, `Leaving` the tasks that are
posted, those that cannot be cloned failing on the way. `Execute`,
`ExecuteOverLimit` and `ExecuteDestroyed` are the three ways through
`execute()`; `Answer`, `Timeout`, `Exit` and `Terminated` what threads and timers
report; `AbortQueued` and `AbortRunning` the abort listener. `outcome` is history.

`WireTransport` calls the pool. `stage[s]` says what a send awaits: a task of the
pool (`working`), compression on the main thread or the gate (`preparing`), the
exporter (`exporting`), the response (`requesting`). `Continue` is the
continuation after a pool task, with the fall-back when the pool refused or
failed it; `Dispatch` the last look at the signal before the request;
`AddRequest` and `Repeat` are `BoundedAgent` and the exporter's retries.
`Shutdown` is what `ResilientTransport.destroy()` does in one turn: every signal
aborted, whose listeners take their tasks off the pool, then `destroy()` of the
transport. A send is used once; that an error is retried by another `send()` is
in `ResilientTransport`.

### DropOldestQueue and DeadLetterQueue

`kind` says which of the two queues the factory made. `queue` and
`droppedEntries` are its fields. For the file queue `load` is the progress of
`loadFromDisk()` (the promise `ready`), `arriving` the batches that await it,
`writeChain` the admitted ones whose write has not ended, `write` the
`writeFile()` in progress with the lines it was given, and `file` what is on the
disk. `Open` and `Written` are the two ends of `writeFile()`, which truncates
first; `Crash` between them leaves a prefix. `Unlink` and `UnlinkFails` are the
second half of `clear()`, outside the chain, of which several may be under way
(`unlinking` counts them): a file that is open loses its name (`write.linked`),
one that cannot be unlinked keeps the cleared lines. `LoadFails` is the catch
block of `loadFromDisk()`. `Affordable` is the halving in `persistQueueToDisk()`, the
largest of the `Halvings` of the queue's length whose lines fit. An entry
is its number, so that order and age are the same; `Bytes` gives its line's
size. `accepted`, the set of the entries given to this process, and `overtaken`
are history.

`DropOldestQueue` has four steps. `Accept` takes younger entries and `Trim` none;
both may forget entries, all of them older than whatever is kept, and count
each. `Accept` forgets only as many as leave the queue full. `TakeAll` is
`clear()`, `Restart` a new process. How much `Trim` forgets is left open:
`persistQueueToDisk()` halves, which takes more than the budget of the file
requires.

`overtaken` names when the file need not be the queue although no call is
pending. The code reports the error and goes on after a write that fails, an
unlink that fails (`FileDeadLetterQueue.ts:112-114`: an empty queue, the old lines
in the file) and a load that fails (`:170-173`: an empty queue, a full file). A
`clear()` overlaps a write or the load. A file left by an earlier process exceeds
the limits. Each of these lasts until a write ends with the lines that are
then in the queue.

### Configuration

Operators only. A configuration is a function from options to values, with the
sections flattened, because the code merges them key by key. `Options` is the
table of numeric options: the range of the environment parser, what `validate()`
checks (a range, a floor that `NaN` and infinity pass, or nothing), the default.
Three options of the section `transport` are in `performance` too (`Twin`); both are
read from the same variable (`Variable`), validated and resolved separately, and
the transport falls back on that of `performance` (`ResolvedOptions`). Nothing
checks `performance.compressionLevel`: `init()` accepts -5 and the transport
uses it, unless `transport.compressionLevel` is there. `LoadConfigFromEnv`, `MergeConfigs`, `Validate`,
`Resolve`, `AutoInitReady` and `NodeConfig` are the functions of the code;
`Snapshot` is whether `configSnapshot()` refuses.

### RetryAfter

Operators over one variable, the wall clock at which an answer is read.
`NotBefore` is `retryAfterNotBefore()` on what the patterns take from the
fields, and `HttpDate` with `Candidate` and `FullYear` the date of `httpDate()`,
over the calendar of JavaScript's `Date` (`DayNumber`, `Weekday`): a day past
the end of its month runs over into the next, which `Exists` then refuses. An
empty set is `NaN` or `undefined`. `Asked` is what RFC 9110 means by a field,
from which `AsksHonoured` is stated, but for one date: "29-Feb-00" read just
before 2100 comes into its window is tried in 2100, which has no such day, and
ignored. Nothing needs the length of a day, which is three ticks in the run.
`ResilientTransport` takes any of these floors.

### Runtime

`slot` is `globalRuntime`, `settings[r]` and `phase[r]` the configuration and the
`LogService` state of runtime `r`, `enabled` and `processing` the flags of its
console interceptor, `console` and `next` the chain of functions a call of
`console.log` goes through. The label providers of an entry are code of the
application, so `log()` is two steps: `Begin` pushes a frame on `stack` and
`Finish` pops it; between them everything the application may call is enabled,
`init()` and `destroy()` included, and nothing of the event loop is. A method of
the console that is swallowed, or reaches the platform, changes nothing.
`Retire` is the synchronous part of the `destroy()` that `index.ts` and the
factory wrap around that of `LogService`; `Retired` the same inside `init()`;
`Drained` its end. `Create` and `CreateFails` are `LogsInterceptorFactory.create`,
which can throw after the predecessor was retired. `Signal` and `ShutdownEnds`
are the preload script, `Patch` and `Unpatch` any other library that wraps the
console. `fate` and `owner` follow an entry until it leaves the buffer: what
happens then is `LogService`. `cutOff` is history. The catch block of the wrapper
(`ConsoleInterceptor.ts:96-104`), which calls the original when the arguments
cannot be formatted or `log()` throws, is not modelled.

### Privacy

`Compiled` is the constructor of the policy, `call` the budgets of `beginRecord()`,
and `Decide` one decision of `filter()`: first the pairs of the context, then
the message, then the labels. `AnyRule`, `TestRule`, `Native`, `Engine` and
`Prefiltered` are the ways to ask whether a text matches, each of which spends
`work`, `units`, `inputs` or `calls` and may fail; `Decided` turns a failure into
the answer that shows nothing. A text is a sequence of characters. A pattern is
the tree that `normalize()` walks, as the sequence of its nodes in the order in
which `walk()` leaves them; a node names its parts by their numbers, which are
less than its own, and a repetition may have no upper bound (`Unbounded`).
`Matches` is a reference definition of matching, which the two regular-expression
engines are trusted to implement, and `Required` and `Cost` are the analyses the
code makes of a pattern. All of them are functions of the number of a node, and
the loops of the code functions of the number of rounds (`Filtered`, `Searched`,
`Tested`), so that both can be reasoned about.

### Operators that are mistakes

Each module holds, just before the definition they vary, a few operators
introduced by "A mistake:". They take no part in the specification. Each is a
plausible bug in the code that the definition models, and `PROJECT.json`
("mutants") says which property finds it: `WorkerPool` has `ReplenishedEarly`
(terminating threads forgotten), `AbortRunningTwice` and `TerminatedUncaught`;
`WireTransport` has `DispatchUnchecked`; `DeadLetterQueue`
has `PushKeepsOldest`, `AdmitCoalesced` and `PersistHalvesOnce`; `Configuration`
has `RejectsOutside`; `RetryAfter` has `FullYearPivoted`; `Runtime` has `ClearedAlways`, `RestoredAlways` and
`RecordsAlways`; `Privacy` has `DecidedOpen`.

## 3. The runs

| Run | Instance | What it shows |
|---|---|---|
| `memory_buffer` | 3 entries, 5 units of memory, sizes 1, 3 and 6, expiry after 2 units, interval 3, lag 1, five calls of `add`; `autoFlush` on and off | the two limits, exact accounts, `PromptHandover`, silence after `destroy()`, `EventuallyHandedOver`, and that `LogBuffer` is implemented |
| `log_service` | two callers of `flush()`, two slots, a queue of one, four entries, a buffer of two | slots, queue and counters exact; `EveryEntryAccounted`; `flush()` a barrier, but for one called once `destroy()` has begun; a resolved `destroy()` has drained; nothing is sent once closing |
| `log_service_progress` | one caller, one slot, a queue of two, four entries | implements `Delivery`; `destroy()` ends without the transport; `flush()` returns and entries settle with it |
| `log_service_backlog` | the same | finds a divergence, below |
| `circuit_breaker` | four overlapping operations, threshold 2, two probes, reset after 2 units | counters fit the state, no slot leaks, the quiet period, the breaker always admits again |
| `circuit_breaker_probes` | the same | finds a divergence, below |
| `resilient_transport` | two sends, one retry, a budget of 3 units, a backoff of 1, delays of 0, 2 and for ever, lag 1 | no request below the floor, after the deadline or after `destroy()`; no hopeless sleep; batches and entries counted once; every send ends |
| `wire_transport` | three sends, one with two tasks of which one cannot be cloned, the others with one; one thread at a time out of two names; a queue of one; two attempts of the exporter; both kinds | capacity is used and kept, each task is settled once, every send ends, no request after the shutdown |
| `dead_letter_queue` | six entries, a queue of two, a budget of three bytes, one line of four; two crashes; two calls of `clear()` at a time; files of an earlier process with other limits; both kinds | `DropOldestQueue` is implemented, and at rest the file is the queue, but for the cases of `overtaken` |
| `runtime` | two runtimes, two entries, `log()` nested twice, two other libraries, one signal; requests that intercept, are refused, disabled, automatic, may fail | one runtime captures, the console is given back, `destroy()` strands no entry but its own |
| `inputs` | each numeric option at and one beyond its limits, as argument, variable and both, and in pairs with its twin in `performance`, with `NaN`, infinity and `undefined`; five clocks and 512 sequences of Retry-After fields | what is accepted is in range for the components, but for what `validate()` does not check; a floor is what the fields ask for |
| `privacy` | all patterns of two operators over three characters, with repetitions of 0 to 1, 1 to 2 and 1 or more, alone and beside others; budgets that some records exhaust in the middle | nothing that a rule matches is shown |

**Why the bounds are enough.** The buffer's sizes are chosen so that one size
fits three times, one once, one never; five adds overflow the number and the
bytes, also together. Its rounds of "a tenth at a time" remove single entries
below 20 entries: larger rounds are not reached by TLC; the proof of the
contract covers them. In the pipeline, overflow of the queue needs one more
batch than slots and queue hold, which both instances admit; two slots are
needed for sends that settle out of order, a queue of two for batches that could
be reordered. In the breaker, a stale probe with two fresh ones needs three
operations; a fourth lets a closed-state operation fail late.
In the transport, one send suffices to raise the floor that another one sleeps
on or is about to pass; a backoff fits the budget twice, a delay once, and one
delay never; with lag 1 timers and answers race at the deadline.
With one thread allowed, a second name is needed for the one that is made while
the first is still terminating; three sends fill thread and queue and overflow
them; two tasks of one send let the pool go away between them; a task that
cannot be cloned is refused while others wait behind it. For the file
queue, two batches must meet a running write and a third follow; one line over
the budget forces more than one halving, which must leave an empty file; two
crashes let a restart fail in its own load; two unlinks let the second find the
file gone. For the runtime, replacement needs
two; two entries and two levels let a label provider log itself and destroy the
logger of the outer call; two patches can come off in either order. Numeric
options are independent of each other in `Validate`, so each is tried alone, or
with its twin; the structural ones are tried together. For the matcher the interesting cases are
sums that cross a limit, which the limits of the run are set low for.

`MaxLogs`, `MaxAdds`, `MaxInits`, `MaxEntry`, `MaxCrashes`, `MaxUnlinks` and `MaxDepth`
bound entries, calls, runtimes, crashes, unlinks under way and nesting and are not in the code, nor is
`MaxAttempts`, which stands for the exporter's own limit;
everything else is a real parameter. `log_service` uses the symmetry of the two
callers and checks no liveness property.

**Deadlock** is checked where the system never stops (buffer, breaker and
transport: time passes). The pipeline stops once it is closed and its sends
have settled; the wire transport once its sends have ended and it is destroyed;
the file queue, the runtime and the filter once the bounds on calls are used up
or the policy is closed.

**Fairness.** The event loop runs what is ready, so promise continuations,
overdue timers, and the end of `transport.destroy()` are weakly fair. The
buffer asks for a flush while it holds something: `MemoryBuffer`'s
`PromptHandover` and `EventuallyHandedOver` justify `WF(FlushInBackground)`, with
`autoFlush` on, as it is by default. No call by the application is fair. The
transport owes nothing, except in `FlushReturns` and `EntriesSettle`, which say
so (`TransportSettles`): the real transport aborts a send at its deadline. In the
breaker every operation ends, for the same reason. `ResilientTransport` shows
that (`EverySendEnds`), from timers that fire and a wire transport that settles
once its signal was aborted: the Loki transports check the signal before a
request and pass it to undici. `DestroyEnds` needs neither. In `WireTransport`
the one assumption is weak fairness of `Progress`: while a continuation, a timer
or the end of a terminated thread is due, the event loop does not stop. It says
nothing of which is served, of answers or of threads; there are finitely many
sends, each opened once, so that `<>[]` in `EverySendSettles` is the statement
that all of them end. Every send has a timer of its own in the code
(`workerTimeout`, the deadline of the request, the abort at the deadline of the
send), which is why no answer has to come. `DeadLetterQueue`, `Runtime` and
`Privacy` have safety properties only.

### Divergences found

- `BacklogDropsCounted` (`application/services/LogService.ts:460-463`): a
  shutdown that gives up counts the dropped backlog in `queueDroppedEntries`, not in
  `logsDropped`, which `src/README.md:118` says has a backlog meaning and which
  the same drop from a full queue does count (`:291-292`).
- `ProbesBounded` (`infrastructure/circuit-breaker/CircuitBreaker.ts:57-60`): a
  probe that outlives its half-open state decrements the counter of the next
  one, and more probes run than `halfOpenRequests` allows; `src/README.md:452`
  promises bounded probes. What does hold is that the counter never exceeds the
  number of running probes (`NoLeakedSlot`), so the mistake is on the generous
  side, and that the counter itself stays within the limit (`TypeOK`).

Met while modelling, not counted as divergences: a late success of an operation
admitted before the breaker opened counts as a probe's success; a failing last
batch makes `destroy()` close the transport under other sends at once, without
waiting for its deadline; an entry whose dynamic label calls `destroy()` is
admitted after the drain and thrown away. A send asleep on its backoff is not
declined when another answer raises the floor beyond its deadline, but when it
wakes (`src/README.md:83-84` says "immediate" of the send that is answered).
The acknowledgement of a batch whose send was aborted in the same turn counts as
a failure, and the batch may be kept in the dead letter queue.

Of the later modules, also met while modelling and allowed by the models:

- `src/README.md:54` says the configuration rejects non-finite values;
  `validate()` does so for most numeric options, but compares only for those of
  the circuit breaker and for `transport.compressionLevel`, so that `NaN` and
  infinity pass, and does not look at `performance.compressionLevel`, on which the
  transport falls back (`ConfigService.ts:256-261` and `323-324`), so that any number
  passes. `SettingsUsable` states both as its exceptions. No run of its own
  shows this divergence.
- A `flush()` called once `destroy()` has begun resolves at once, with earlier
  entries still queued or in flight (`LogService.ts:271-273`); the drain of
  `destroy()` is then what to wait for. `FlushIsBarrier` states the exception.
- A failed unlink, or a failed load, of the file queue is reported and
  otherwise ignored: what `clear()` was to remove may come back in the next
  process, and a file that could not be read is replaced by the first write.
- The environment parser takes wider ranges than `validate()`: a variable alone
  can make `init()` throw. With `LOGS_ENABLED=false` the environment yields no
  url, so that `init()` without an argument throws, and a `filter.levels` of the
  caller turns logging on again.
- A creation that fails has already retired the healthy runtime before it.
- A recovery file over the budget is reported as left untouched
  (`FileDeadLetterQueue.ts:142`); the first write replaces it.
- A replaced runtime and its successor use the same file for their queues.
- `clear()` of the file queue unlinks beside the chain of writes: one that runs
  writes to a file that has no name any more, or brings the cleared lines back.
  `FileIsQueue` holds again after the next write.
- Over the limit, `execute()` counts a failed task that `totalTasks` lacks.
- `destroy()` of a Loki transport without connection pooling closes nothing; only
  the aborted signals keep a request from being sent.
- `BoundedAgent` may make an agent after its `destroy()`, which serves no request.
- A response of status 5xx with a body over 64 KiB fails as an oversized body,
  which is not retried, while `src/README.md:451` says that 5xx answers are.
- A second Node-RED node replaces the runtime of the first, whose logger then
  refuses all entries.
- `sanitizeData()` tests texts and keys, not numbers or booleans; the model has
  texts only.

## 4. The proofs

All theorems hold for every value of the constants that satisfies the
module's named assumption.

- **Sums.** Bytes and entries are added up by counting the units they stand for,
  without recursion. `SumTheorems` shows that a sum may be taken apart, renamed
  and extended (`SumJoin`, `SumRenamed`, `SumAppend`, `SumParts`, and the same
  along a sequence). `LeastNatural` and `GreatestNatural` (a set of naturals has a
  least element, a bounded one a greatest) stand where one would use induction.
- **MemoryBuffer.** `IInv` adds to the types that unarmed handles carry no time,
  that a destroyed buffer has neither handle nor entry, and `WatchInv`: each entry
  is watched by the timeout, due no later than an interval after the entry
  came, or by an immediate that replaced such a timeout when it was at most `Lag`
  overdue. `PromptHandover` alone is not inductive: it says nothing of the
  handle that will flush the entry. `AccountInv`, inductive with it, is that the
  tracked bytes are the sum of what is held and within the limit. Proved:
  `TypeCorrect`, `HandoverIsPrompt`, `TrackerIsExact`, `BothLimitsKept`,
  `DestroyedIsSilent` and `BufferImplementsContract` (initial states and each step
  map to `LogBuffer`).
- **LogService.** `IInv` is the types, `QueueInv` (queue limit; nothing waits while
  a slot is free) and `DrainInv` (a finished drain left the pipeline idle; once
  closing, the queue is empty). Proved from it: `TypeCorrect` (hence at most
  `MaxConcurrent` batches are counted in flight), `QueueWithinLimits`,
  `ClosingIsFinal`. The last needs `DrainInv`: finally handlers of open sends still
  call `processFlushQueue` after the transport is closed, and only an empty queue
  keeps them from sending.
  `LineInv` is about the entries. Its core is `OrderInv`: whatever has left the
  queue comes before every queued batch, the queued batches are in order, and all
  of them come before what the buffer holds. It is what `EveryEntryAccounted`
  rests on: entries in order are in one place only, so that a step which moves a
  batch subtracts in one place what it adds in another. `TransportInv` says that
  batches with the transport are disjoint, from one another and from what is
  settled; `AccountInv` carries the two counts, `ShutdownInv` what a shutdown has
  emptied, and `BarrierInv` where the entries before each `flush()` are. `IInv` and
  `LineInv` are inductive together (`Accounts`). Proved from them:
  `SlotsAreCounted`, `NothingUnaccounted`, `ReturnedIsFlushed`,
  `ResolvingIsDrained`, and the refinement `PipelineDelivers`: each step of the
  pipeline is a step of `Delivery` or leaves the fate of every entry alone.
- **CircuitBreaker** (at the end of `TransportProofs`). `IInv` adds to types and `CountersFitState` that the probes
  of the present half-open state are running, that there are none in other
  states, and that cool-down and quiet time add up to the reset timeout. Proved:
  `TypeCorrect`, `CountersAlwaysFit`, `SlotsDoNotLeak`, `QuietBeforeProbing`.
- **ResilientTransport.** `IInv` adds to the types that `destroy()` has aborted
  whatever is pending and that no delay that is owed exceeds the floor. The first
  is what keeps a request from being made after `destroy()`, since `dispatch`
  looks at the signal only; the second carries the floor's meaning past answers
  that come in any order. Proved: `TypeCorrect`, `NobodySleepsInVain`,
  `FloorAlwaysRespected`. The accounts need two more parts: `AccountInv` relates
  the counters to the numbers of pending, sent and enqueueing sends; `AckInv` says
  where a send may be that was acknowledged, and that it can only fail once it
  was aborted. Proved with them: `EveryBatchAccounted`.
- **WireTransport** (`TransportProofs`). `SignalInv` is that once it is shut every send that is open
  is aborted (`ShutAborts`), which is inductive without a word about the pool:
  the lemma `AdvancesSafe` says what every step of a send keeps, and each action
  is shown to be one. Proved: `OpenSendsAborted` and, from the step form of the
  same lemma, `NothingSentLate`.
  The pool's part, `PoolInv`, is `Shape` (types, and that the available threads
  and the queue have each member once), `CapacityUsed`, and `Accounts`: a promise of
  `execute()` that is not settled is that of one queued task, one running one or
  one that `cancelTask()` is about to end, and the counters are those of the
  others. All events but an abort of a running task and `destroy()` end in
  `replenish()` and `drainQueue()`, so that `EventSafe` says once what becomes of
  what an event leaves behind. Sequences are handled by what they enumerate
  (`Enumerates`: each member of a set once), which takes the place of unfolding the
  recursive filter of the library. Proved: `CapacityIsUsed`, `EachTaskSettledOnce`.
  The proof showed that two arms of the model's `outcome'` overlapped, where a
  `CASE` leaves open which is taken; they are disjoint now.
- **DeadLetterQueue.** `IInv` has five parts. `OrderInv`: whatever may become the
  queue (the queue, what was read, the file, the lines of a write) is ascending
  and older than every batch that awaits the load; without the file and the write,
  a crash could bring back entries out of order. `LimitInv`: the limit of the queue.
  `AcceptedInv`: what was accepted is older than what is still to come, and the
  load is the first to be accepted; without it entries that come could be older
  than those that were forgotten. `KindInv`: types, and that the queue
  in memory has no call in progress. `FileInv`: what the file will be when the last
  write of the chain ends, which `FileIsQueue` does not say while a write runs.
  The lemma `AffordableFits` shows that halving ends within any budget, `Pushed`
  that what a push leaves is the newest part of the queue and the batch
  (`NewestPart`, `JoinedSet`), and `CutIsKept` that such a cut is what `DropOldestQueue`
  allows. Proved:
  `QueueTyped`, `FileMatchesQueue`, and `ImplementsDropOldest`, which maps each step
  to `Accept`, `Trim`, `TakeAll` or `Restart` of `DropOldestQueue`, or to a stutter. Assumed of the
  files of an earlier process is what is shown of those of this one: entries in
  ascending order.
- **Runtime.** `CaptureInv` adds to `OneCapture` only the types of what it
  mentions, and is inductive because retiring and creating are one step: the
  lemma `RetiredIsEmpty` says that what `init()` leaves before it creates has no
  live runtime, so that failing there is safe. `CallsInv` is about the stack: every
  call under way has an open entry of its own, owned by its logger, which is cut
  off if that logger is destroyed; `BeginFits`, `DestroyedFits` and `FinishFits`
  carry it through the three kinds of steps that touch it. Proved:
  `OneRuntimeCaptures`, `OnlyReentrantEntriesLost`. The latter shows that the only
  entries lost to `destroy()` are those whose own label providers called it.
  `ConsoleInv` adds two parts for `ConsoleGivenBack`. `ChainInv` says that no runtime
  calls an enabled wrapper, that a dead wrapper still in the chain is what some patch
  found installed - one in place, or one taken off since, which put the dead wrapper
  back - and that before the first patch the enabled wrapper is the one installed. The chain has any length: a
  function is in it when it is in every set that contains the console and is
  closed under what is called next, so that naming one such set takes the
  place of an induction. `InsideInv` says that a wrapper believes itself inside its
  logger only while such a call is on the stack.
  `AcceptedSettingsUsable` needs no strengthening: it follows the value of one
  option from its source (`EnvironmentTyped`, `MergedTyped`) through the validation
  (`PassedUsable`) and the fall-back on its twin (`TwinLimits`) to the settings
  (`ResolvedUsable`), for all requests whose numeric options are
  numbers or undefined, as their types say; the run tries each option alone, the
  theorem covers all of them at once.

- **RetryAfter.** `FieldsHonoured` is `AsksHonoured` for any headers and any clock that
  shows a date that exists (`Clocks`). Its core are `FullYearMeant` and
  `MeantIsParsed`: what `httpDate()` makes of a date of two digits is the year within
  fifty years of now, and every such year is found but for 29 February. They rest on
  how instants of different years compare (`EarlierYear`, `MovedBefore`), which is why
  the step back by a century is right also when the limit itself moves from
  29 February to 1 March. The largest of the delays exists because a header is
  finite (`GreatestOfMany`). The proofs are at the end of
  `ResilientTransportProofs`, whose floor is what `RetryAfter` computes. The fields
  are typed (`RetryAfterAssumption`) as their patterns take them apart.

- **Privacy.** `FailsClosed` is `NothingSensitiveShown` for any rules, records and
  budgets. Three steps lead to it.
  `RequiredHidesNoMatch` is about the search for required characters, the one
  shortcut around the engine: a text in which a pattern finds a match, at any
  position, contains a character of each class that `required` lists. It has one
  lemma for each kind of node (`ClassSound` to `RepeatSound`), each of which shows
  that a node is sound if its parts are, and `NodesSound` puts them together by the
  least node that is not sound, whose parts have smaller numbers. A repetition is
  handled in the same way by the first round that fails (`RoundsInText`,
  `RepeatSound`), also when it has no upper bound.
  `AnyRuleSound` is about a question: if its answer is "not sensitive", the policy
  is open and valid and none of the rules matches the text. A call that fails, now
  or before, can only turn answers to "sensitive" (`DecidedClean`), so that no word
  about the budgets is needed, and none is assumed.
  The invariant, finally, adds to the property that the policy holds the rules of
  its options unless it is invalid or closed (`PolicyHasRules`), and that what is
  still to be decided are pairs of a key and a text; without the first, a policy
  that is open could have lost rules.
  That the functions by recursion have the values their definitions give is proved
  for each (`FilteredDef`, `RoundsDef`, `SearchedDef`, `TestedDef`, `RequiredDef`,
  `EndsDef`), by the least length for which there is no such function.
  Assumed (`PrivacyAssumption`) are only the types of options and records.

**Only model-checked.** Liveness is out of the prover's reach: `EventuallyHandedOver`,
`DestroyEnds`, `FlushReturns`, `EntriesSettle`, `AlwaysAdmitsAgain`, `EverySendEnds`,
`EverySendSettles`. Every invariant and every action property of the passing runs is a theorem.

## 5. Not modelled

Within the modelled components: formatting, averages and other reported
metrics; a wall clock that is set back (ages and cool-downs assume it is not); a
fractional `maxSize`; queries such as `isFull`, `shouldFlush`, `getMetrics`;
`fatal()`, which is `log()` and `flush()`; `intercept()` and `disable()` of the
console interceptor, which nothing calls; sampling.

- **Compositions.** `ResilientTransport` admits any breaker and any transport,
  `LogService` any transport, `Runtime` any pipeline; each relies on properties
  shown of the other (`EverySendEnds`, `AlwaysAdmitsAgain`, `EverySendSettles`). What
  the breaker records of sends that only waited is therefore not shown. The
  products are too large for TLC with more than one send.
- **Metrics** are reported and decide nothing.
- **Bounded snapshots** copy data of the application within a budget; `Privacy`
  starts from their results.
- **Serialisation**, headers, labels and HTTP: no state, and nothing in the
  control of a send depends on them. Noted in passing: the protobuf transport
  groups entries by joined labels, unescaped, so that two label sets that differ
  in where a separator stands can fall into one group.
- **Compression** and the adapters only forward calls; a compression that ends,
  fails or is aborted is in `WireTransport`, what a Node-RED node passes to
  `init()` in `Configuration`.
- **Privacy**: `replace()`, which the pipeline does not call, case folding, the
  printing of patterns for the engine, and the engines themselves.
- **Configuration**: sampling rate, compression threshold, the retries of the
  dead letter queue, limits on labels and patterns, labels and headers read from
  the environment.
