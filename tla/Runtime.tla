------------------------------ MODULE Runtime ------------------------------
(***************************************************************************)
(* The process-wide runtime: init(), its replacement and destroy()         *)
(* (index.ts), the pipeline a runtime is made of                           *)
(* (LogsInterceptorFactory.ts), the wrappers it installs on the console    *)
(* (ConsoleInterceptor.ts), the synchronous part of log() and destroy()    *)
(* (LogService.ts) and the preload script.                                 *)
(*                                                                         *)
(* log() runs code of the application (dynamic label providers) before it  *)
(* adds the entry; that code may log, write to the console, and replace or *)
(* destroy the runtime.  stack holds the calls of log() that are at that   *)
(* point; everything the event loop does needs it to be empty.  What       *)
(* happens to an entry once it has left the buffer is LogService.          *)
(***************************************************************************)
EXTENDS Configuration

CONSTANTS
  Requests,       \* the pairs [user, env] init() may be called with
  MaxInits,       \* bound on the runtimes made
  MaxLogs,        \* bound on the calls of log()
  MaxDepth,       \* bound on the nesting of log() through user code
  Patches,        \* wrappers other libraries put on the console
  Native,         \* the console of the platform
  Signals         \* SIGTERM and SIGINT

\* What the types of the configuration allow for a number.
Numeric == Int \union {Undefined, NaN, Infinity}

Runtimes == 1 .. MaxInits
Entries == 1 .. MaxLogs
None == 0

ASSUME RuntimeAssumption ==
  /\ MaxInits \in Nat /\ MaxLogs \in Nat /\ MaxDepth \in Nat
  /\ IsFiniteSet(Patches) /\ Patches \intersect Runtimes = {}
  /\ Native \notin Runtimes \union Patches
  /\ \A q \in Requests : \A o \in DOMAIN Options \intersect DOMAIN q.user :
       q.user[o] \in Numeric

VARIABLES
  slot,           \* globalRuntime
  settings,       \* the resolved configuration of each runtime made so far
  phase,          \* of each runtime: unused, live, draining, closed
  enabled,        \* the runtimes whose interceptor is enabled
  processing,     \* the runtimes whose wrapper is inside logger.log()
  console,        \* the function installed as console.log, and so on
  next,           \* what a wrapper or patch calls: what it found installed
                  \* (itself, until it is made)
  stack,
  fate, owner,    \* of each entry
  cutOff,         \* history: entries whose logger was destroyed inside their call
  armed, ending,  \* preload: signals with a handler, signals being handled
  up              \* the process runs

pipeline == <<settings, phase, fate, owner, cutOff>>
output == <<enabled, processing, console, next>>
preload == <<armed, ending, up>>
vars == <<slot, pipeline, output, stack, preload>>

Made == DOMAIN settings
Functions == {Native} \union Runtimes \union Patches
Frame == [runtime : Runtimes, entry : Entries, viaConsole : BOOLEAN]

TypeOK ==
  /\ slot \in {None} \union Made
  /\ Made \subseteq Runtimes /\ phase \in [Runtimes -> {"unused", "live", "draining", "closed"}]
  /\ enabled \subseteq Made /\ processing \subseteq Made
  /\ console \in Functions /\ next \in [Runtimes \union Patches -> Functions]
  /\ stack \in Seq(Frame) /\ Len(stack) <= MaxDepth
  /\ fate \in [Entries -> {"none", "open", "dropped", "held", "handed over", "stranded"}]
  /\ owner \in [Entries -> {None} \union Runtimes] /\ cutOff \subseteq Entries
  /\ armed \subseteq Signals /\ ending \subseteq Signals /\ up \in BOOLEAN

Init ==
  /\ slot = None /\ settings = << >> /\ phase = [r \in Runtimes |-> "unused"]
  /\ enabled = {} /\ processing = {}
  /\ console = Native /\ next = [f \in Runtimes \union Patches |-> f]
  /\ stack = << >>
  /\ fate = [e \in Entries |-> "none"] /\ owner = [e \in Entries |-> None]
  /\ cutOff = {} /\ armed = {} /\ ending = {} /\ up = TRUE

Idle == up /\ stack = << >>

-----------------------------------------------------------------------------
(***************************************************************************)
(* Retiring a runtime: the destroy() that init() and the factory put over  *)
(* the one of LogService.  Until its first await it clears the slot,       *)
(* restores the console, refuses further entries and hands over what the   *)
(* buffer holds.                                                           *)
(***************************************************************************)
(* A mistake: a late destroy() clears the slot of the successor. *)
ClearedAlways(s, r) == None

Cleared(s, r) == IF s = r THEN None ELSE s

(* A mistake: restore() does not look who is installed. *)
RestoredAlways(f, r) == next[r]

\* restore(): only a wrapper that is still the installed one is taken off.
Restored(f, r) == IF f = r THEN next[r] ELSE f

DestroyedFate(r) ==
  [e \in Entries |-> IF owner[e] = r /\ fate[e] = "held" /\ phase[r] = "live"
                     THEN "handed over" ELSE fate[e]]
DestroyedPhase(r) ==
  [phase EXCEPT ![r] = IF @ = "live" THEN "draining" ELSE @]
OpenEntries(r) == {stack[i].entry : i \in {i \in DOMAIN stack : stack[i].runtime = r}}

Retire(r) ==
  /\ slot' = Cleared(slot, r)
  /\ console' = Restored(console, r) /\ enabled' = enabled \ {r}
  /\ phase' = DestroyedPhase(r) /\ fate' = DestroyedFate(r)
  /\ cutOff' = cutOff \union OpenEntries(r)
  /\ UNCHANGED <<settings, owner, processing, next, stack>>

(* destroy() of a logger the application kept. *)
DestroyLogger(r) == up /\ r \in Made /\ Retire(r) /\ UNCHANGED preload

(* destroy() of the module, also the destroy of the facade. *)
Destroy == slot # None /\ DestroyLogger(slot)

-----------------------------------------------------------------------------
(***************************************************************************)
(* init().  A request that is refused leaves everything as it was; a       *)
(* factory that throws (the directory of the dead letter queue, a native   *)
(* module) does so after the previous runtime was retired.                 *)
(***************************************************************************)
MayFail(config) ==
  \/ config.dlqEnabled /\ config.dlqType = "file"
  \/ config.type = "otlp" \/ config.compression = "snappy"

\* What init() does to the runtime in the slot before it makes another.
Retired ==
  IF slot = None
  THEN [console |-> console, enabled |-> enabled, phase |-> phase, fate |-> fate,
        cutOff |-> cutOff]
  ELSE [console |-> Restored(console, slot), enabled |-> enabled \ {slot},
        phase |-> DestroyedPhase(slot), fate |-> DestroyedFate(slot),
        cutOff |-> cutOff \union OpenEntries(slot)]

\* LogsInterceptorFactory.create(): the interceptor keeps what it finds.
Create(r, config) ==
  /\ settings' = [m \in Made \union {r} |-> IF m = r THEN config ELSE settings[m]]
  /\ phase' = [Retired.phase EXCEPT ![r] = "live"]
  /\ IF config.interceptConsole
     THEN /\ next' = [next EXCEPT ![r] = Retired.console]
          /\ console' = r /\ enabled' = Retired.enabled \union {r}
     ELSE next' = next /\ console' = Retired.console /\ enabled' = Retired.enabled
  /\ slot' = r

CreateFails(config) ==
  /\ MayFail(config)
  /\ phase' = Retired.phase
  /\ console' = Retired.console /\ enabled' = Retired.enabled
  /\ slot' = None
  /\ UNCHANGED <<settings, next>>

InitWith(user, env) ==
  /\ up /\ Cardinality(Made) < MaxInits
  /\ Accepted(user, env)
  /\ \/ Create(Cardinality(Made) + 1, Resolved(user, env))
     \/ CreateFails(Resolved(user, env))
  /\ fate' = Retired.fate /\ cutOff' = Retired.cutOff
  /\ UNCHANGED <<owner, processing, stack>>

InitRuntime == \E q \in Requests : InitWith(q.user, q.env) /\ UNCHANGED preload

(* autoInitIfEnabled() when the module is loaded; the preload script adds   *)
(* handlers for the signals if that made a runtime.                        *)
Load(preloaded) ==
  /\ Idle /\ Made = {}
  /\ \E q \in Requests :
       /\ AutoInitReady(q.env)
       /\ InitWith(LoadConfigFromEnv(q.env), q.env)
  /\ armed' = IF preloaded /\ slot' # None THEN Signals ELSE {}
  /\ UNCHANGED <<ending, up>>

(* gracefulShutdown(): destroy() raced with a deadline; the signal is then  *)
(* raised again and ends the process, unless the application listens too.  *)
Signal(s) ==
  /\ Idle /\ s \in armed
  /\ armed' = armed \ {s} /\ ending' = ending \union {s} /\ up' = up
  /\ IF slot = None THEN UNCHANGED <<slot, pipeline, output, stack>> ELSE Retire(slot)

ShutdownEnds(s) ==
  /\ Idle /\ s \in ending
  /\ armed' = {} /\ ending' = ending \ {s}
  /\ up' \in BOOLEAN
  /\ UNCHANGED <<slot, pipeline, output, stack>>

-----------------------------------------------------------------------------
(***************************************************************************)
(* Logging.                                                                *)
(***************************************************************************)
Unlogged == {e \in Entries : fate[e] = "none"}

(* A mistake: log() does not look whether it is destroyed. *)
RecordsAlways(r) == settings[r].levels # "none"

Records(r) == phase[r] = "live" /\ settings[r].levels # "none"

(* log() up to the label providers, or refused; below, fates and inside are *)
(* the stack, the entries and the wrappers in progress it starts from.      *)
Begin(r, viaConsole, below, fates, inside) ==
  /\ Unlogged # {}
  /\ LET e == CHOOSE e \in Unlogged : TRUE IN
     /\ owner' = [owner EXCEPT ![e] = r]
     /\ IF Records(r)
        THEN /\ Len(below) < MaxDepth
             /\ stack' = Append(below, [runtime |-> r, entry |-> e, viaConsole |-> viaConsole])
             /\ fate' = [fates EXCEPT ![e] = "open"]
             /\ processing' = IF viaConsole THEN inside \union {r} ELSE inside
        ELSE /\ stack' = below /\ processing' = inside
             /\ fate' = [fates EXCEPT ![e] = "dropped"]

(* A logger the application kept, that of the slot included. *)
Log(r) ==
  /\ up /\ r \in Made /\ Begin(r, FALSE, stack, fate, processing)
  /\ UNCHANGED <<slot, settings, phase, cutOff, enabled, console, next, preload>>

(***************************************************************************)
(* A call of the console goes from function to function.  A wrapper that   *)
(* is disabled passes it on; one that is inside its own logger.log(), or   *)
(* whose caller suppresses tracing, passes it on or swallows it.           *)
(***************************************************************************)
Quiet(r, suppressed) == suppressed \/ r \in processing
PassesOn(f, suppressed) ==
  \/ f \in Patches
  \/ f \in Made /\ f \notin enabled
  \/ f \in Made /\ Quiet(f, suppressed) /\ settings[f].preserveOriginalConsole

\* Where a call that starts at f comes to rest.
Rest(f, suppressed) ==
  LET after[n \in Nat] ==
        IF n = 0 THEN f
        ELSE IF PassesOn(after[n - 1], suppressed) THEN next[after[n - 1]] ELSE after[n - 1]
  IN after[Cardinality(Functions)]

Captures(f, suppressed) == f \in enabled /\ ~Quiet(f, suppressed)

CallConsole(suppressed) ==
  /\ up
  /\ LET f == Rest(console, suppressed) IN 
       Captures(f, suppressed) /\ Begin(f, TRUE, stack, fate, processing)
  /\ UNCHANGED <<slot, settings, phase, cutOff, enabled, console, next, preload>>

(* The label providers are done: the entry is filtered and added, or        *)
(* dropped, also if something in log() throws.  A wrapper then calls what  *)
(* it wraps, where another may capture the call.                           *)
Finish ==
  LET frame == stack[Len(stack)]
      r == frame.runtime
      below == SubSeq(stack, 1, Len(stack) - 1)
      \* what the wrapper passes the call to; Native if it does not
      onward == IF frame.viaConsole /\ settings[r].preserveOriginalConsole
                THEN Rest(next[r], FALSE) ELSE Native
      added == IF phase[r] = "live" THEN "held" ELSE "stranded"
      inside == IF frame.viaConsole THEN processing \ {r} ELSE processing
  IN /\ up /\ stack # << >>
     /\ \E outcome \in {added, "dropped"} :
          LET fates == [fate EXCEPT ![frame.entry] = outcome]
          IN IF Captures(onward, FALSE)
             THEN Begin(onward, TRUE, below, fates, inside)
             ELSE /\ stack' = below /\ fate' = fates /\ processing' = inside
                  /\ owner' = owner
     /\ UNCHANGED <<slot, settings, phase, cutOff, enabled, console, next, preload>>

-----------------------------------------------------------------------------
(***************************************************************************)
(* The event loop: background flushes, the end of a drain (which clears    *)
(* the buffer and closes the matchers), and other libraries.               *)
(***************************************************************************)
Flush(r) ==
  /\ Idle /\ phase[r] = "live"
  /\ fate' = [e \in Entries |-> IF owner[e] = r /\ fate[e] = "held"
                                THEN "handed over" ELSE fate[e]]
  /\ UNCHANGED <<slot, settings, phase, owner, cutOff, output, stack, preload>>

Drained(r) ==
  /\ Idle /\ phase[r] = "draining"
  /\ phase' = [phase EXCEPT ![r] = "closed"]
  /\ UNCHANGED <<slot, settings, fate, owner, cutOff, output, stack, preload>>

\* A call of the console may reach f: f is in every set with what is installed
\* and with what its members call.
InChain(f) ==
  \A S \in SUBSET Functions :
    console \in S /\ (\A g \in S \ {Native} : next[g] \in S) => f \in S

\* The patches ever made, those taken off since included.
Patched == {p \in Patches : next[p] # p}

Patch(p) ==
  /\ Idle /\ p \notin Patched
  /\ console' = p /\ next' = [next EXCEPT ![p] = console]
  /\ UNCHANGED <<slot, pipeline, enabled, processing, stack, preload>>

\* It puts back what it found, whatever is installed by now.
Unpatch(p) ==
  /\ Idle /\ InChain(p)
  /\ console' = next[p]
  /\ UNCHANGED <<slot, pipeline, enabled, processing, next, stack, preload>>

Next ==
  \/ InitRuntime \/ Destroy \/ Finish
  \/ \E r \in Runtimes : DestroyLogger(r) \/ Log(r) \/ Flush(r) \/ Drained(r)
  \/ \E b \in BOOLEAN : Load(b) \/ CallConsole(b)
  \/ \E p \in Patches : Patch(p) \/ Unpatch(p)
  \/ \E s \in Signals : Signal(s) \/ ShutdownEnds(s)

Spec == Init /\ [][Next]_vars

-----------------------------------------------------------------------------
(* The runtime in the slot is the only one that accepts entries, and the    *)
(* only one whose interceptor is enabled, whoever was replaced, destroyed  *)
(* twice, or failed to be made, and from wherever (index.ts 60-73).        *)
OneCapture ==
  /\ {r \in Runtimes : phase[r] = "live"} = {slot} \ {None}
  /\ enabled = {r \in {slot} \ {None} : settings[r].interceptConsole}

(* The console is given back: if no other library ever wrapped it, what is  *)
(* installed is the live wrapper or the platform's function; a dead        *)
(* wrapper is in the chain only if a patch, in place or taken off since,    *)
(* found it installed, so that replacing the runtime alone does not grow   *)
(* the chain; and while no call is under way no wrapper believes that it is *)
(* inside its logger (ConsoleInterceptor.ts 132-137).                      *)
ConsoleUnwinds ==
  /\ Patched = {} => console \in enabled \union {f \in {Native} : enabled = {}}
  /\ \A r \in Made \ enabled : InChain(r) => \E p \in Patched : next[p] = r
  /\ stack = << >> => processing = {}

(* destroy() strands an accepted entry only when it is called from the      *)
(* label providers of that very entry (LogService.ts 167 and 433); nothing *)
(* that was added before stays in a buffer that no one flushes any more.   *)
LostOnlyReentrant ==
  \A e \in Entries :
    /\ fate[e] = "stranded" => e \in cutOff
    /\ fate[e] = "held" => phase[owner[e]] = "live"

Usable(option, value) ==
  \/ value = Undefined /\ option.default = Undefined
  \/ value \in Int /\ value >= option.min /\ (option.check = "range" => value <= option.max)
  \/ option.check # "range" /\ value \in {NaN, Infinity}

(* What the modules of the components assume of their constants, and what   *)
(* the validation promises (ConfigService.ts 25-91), holds of every runtime *)
(* that was made, wherever a value came from.  The numbers of the breaker  *)
(* and the compression level, which have a floor only, may be NaN or       *)
(* infinite; performance.compressionLevel may be any number, and so may    *)
(* the compression level of the transport where it is taken from there.    *)
SettingsUsable ==
  \A r \in Made : \A o \in DOMAIN Options :
    \/ Usable(Options[o], settings[r][o])
    \/ Options[o].check = "none"
    \/ Options[Twin(o)].check = "none" /\ settings[r][o] = settings[r][Twin(o)]
=============================================================================
