---------------------------- MODULE MemoryBuffer ----------------------------
(***************************************************************************)
(* The in-memory log buffer (infrastructure/buffer/MemoryBuffer.ts): a     *)
(* list of entries bounded in number and in estimated bytes, and the two   *)
(* handles that get it flushed, a timeout and an immediate.                *)
(*                                                                         *)
(* Time passes in units.  An entry carries its age and an armed timeout    *)
(* the units left until it is due, so that the state stays finite while    *)
(* time does not end.  The event loop runs what is due at most Lag units   *)
(* late.  Entries have no content: [size, age] is all the buffer looks at. *)
(*                                                                         *)
(* The flush callback is the one LogService installs while it is wired up; *)
(* it calls flush() at once when something is held.                        *)
(***************************************************************************)
EXTENDS Integers, Sequences, Sums

CONSTANTS
  MaxSize,        \* config.maxSize
  MaxBytes,       \* config.maxMemoryMB, in the unit of Sizes
  MaxAge,         \* config.maxAge
  FlushInterval,  \* config.flushInterval
  Lag,            \* how late the event loop may run a due callback
  Sizes,          \* estimated sizes an entry may have
  MaxAdds         \* bound: calls of add() on a live buffer

ASSUME MemoryBufferAssumption ==
  /\ MaxSize \in Nat \ {0}
  /\ MaxBytes \in Nat
  /\ MaxAge \in Nat
  /\ FlushInterval \in Nat \ {0}
  /\ Lag \in Nat
  /\ Sizes \subseteq Nat \ {0}
  /\ MaxAdds \in Nat

VARIABLES
  autoFlush,     \* config.autoFlush, fixed at construction
  entries,       \* this.entries, oldest first
  tracked,       \* memoryTracker.totalSize
  flushTimer,    \* a timeout is armed ...
  timerLeft,     \* ... and due in this many units (0 when not armed)
  immediate,     \* an immediate is pending ...
  immediateAge,  \* ... for this many units (0 when none is)
  dropped,       \* droppedEntries
  destroyed,
  added          \* calls of add() so far: the bound, not in the code

config  == <<autoFlush>>
content == <<entries, tracked, dropped>>
timers  == <<flushTimer, timerLeft, immediate, immediateAge>>
vars    == <<config, content, timers, destroyed, added>>

LogEntry == [size : Sizes, age : Nat]

(* Ages matter up to here only: the flush deadline and config.maxAge.      *)
LatestHandover == FlushInterval + 2 * Lag
AgeCap == IF MaxAge > LatestHandover THEN MaxAge ELSE LatestHandover + 1

(* tracked is left to TrackedIsHeld, which says more. *)
TypeOK ==
  /\ autoFlush \in BOOLEAN
  /\ entries \in Seq(LogEntry)
  /\ flushTimer \in BOOLEAN /\ timerLeft \in -Lag .. FlushInterval
  /\ immediate \in BOOLEAN /\ immediateAge \in 0 .. Lag
  /\ dropped \in Nat
  /\ destroyed \in BOOLEAN
  /\ added \in Nat

(***************************************************************************)
(* Contents.                                                               *)
(***************************************************************************)

(* The total size of a list of entries, as MemoryTracker adds it up. *)
Bytes(es) == SumOf([i \in DOMAIN es |-> es[i].size])

(* A mistake: the newest go. *)
DropNewest(es, count) == SubSeq(es, 1, Len(es) - count)

(* dropOldest: what remains once the count oldest are gone. *)
DropOldest(es, count) == SubSeq(es, count + 1, Len(es))

(* enforceMaxSize. *)
EnforceMaxSize(es) ==
  IF Len(es) <= MaxSize THEN es ELSE DropOldest(es, Len(es) - MaxSize)

(* The first half of removeOldEntries, run under memory pressure only: the *)
(* x oldest are past config.maxAge (entries come in the order of their     *)
(* ages, so that they are the first x).                                    *)
Expired(es, x) == \A i \in DOMAIN es : i <= x <=> es[i].age >= MaxAge

(* Its loop drops a tenth at a time, at least one entry, until the rest    *)
(* fits: k entries in all, where the round that ended at k was needed.     *)
EvictedBy(es, k) ==
  LET fits(j) == Bytes(DropOldest(es, j)) <= MaxBytes
      round(j) == IF (Len(es) - j) \div 10 > 1 THEN (Len(es) - j) \div 10 ELSE 1
  IN  /\ k = Len(es) \/ fits(k)
      /\ k = 0 \/ \E j \in 0 .. k - 1 : k = j + round(j) /\ ~ fits(j)

(* A mistake: under memory pressure only what has expired is removed. *)
KeptUnlessExpired(es, kept) ==
  LET sized == EnforceMaxSize(es)
  IN  IF Bytes(sized) <= MaxBytes
      THEN kept = sized
      ELSE \E x \in 0 .. Len(sized) :
             Expired(sized, x) /\ kept = DropOldest(sized, x)

(* The contents that add() may leave: kept is a result of the two limits.  *)
Kept(es, kept) ==
  LET sized == EnforceMaxSize(es)
  IN  IF Bytes(sized) <= MaxBytes
      THEN kept = sized
      ELSE \E x \in 0 .. Len(sized) :
             /\ Expired(sized, x)
             /\ LET young == DropOldest(sized, x)
                IN  \E k \in 0 .. Len(young) :
                      /\ EvictedBy(young, k)
                      /\ kept = EnforceMaxSize(DropOldest(young, k))

(***************************************************************************)
(* The two handles.                                                        *)
(***************************************************************************)

(* Mistakes: every call postpones the flush; every call adds an interval. *)
Debounce(armed, left) == flushTimer' = TRUE /\ timerLeft' = FlushInterval
Prolong(armed, left) ==
  flushTimer' = TRUE /\ timerLeft' = (IF armed THEN left ELSE 0) + FlushInterval

(* scheduleFlush, where armed and left describe the timeout it finds: an   *)
(* armed timeout is never postponed.                                       *)
ScheduleFlush(armed, left) ==
  IF armed
  THEN flushTimer' = TRUE /\ timerLeft' = left
  ELSE flushTimer' = TRUE /\ timerLeft' = FlushInterval

NoTimer == flushTimer' = FALSE /\ timerLeft' = 0
NoImmediate == immediate' = FALSE /\ immediateAge' = 0

(* A mistake: add() asks for a flush at the size limit only. *)
RequestFlushWhenFull(count) ==
  IF autoFlush /\ count >= MaxSize /\ ~ immediate
  THEN NoTimer /\ immediate' = TRUE /\ immediateAge' = 0
  ELSE UNCHANGED timers

(* What add() does to the handles: scheduleFlush, then, at the size limit, *)
(* triggerImmediateFlush, which takes the timeout's place.                 *)
RequestFlush(count) ==
  IF ~ autoFlush THEN UNCHANGED timers
  ELSE IF count >= MaxSize /\ ~ immediate
       THEN NoTimer /\ immediate' = TRUE /\ immediateAge' = 0
       ELSE ScheduleFlush(flushTimer, timerLeft)
            /\ UNCHANGED <<immediate, immediateAge>>

(* Mistakes: the tracker is not told; a destroyed buffer arms a timeout. *)
HandOverUntracked ==
  /\ entries' = <<>>
  /\ UNCHANGED <<tracked, dropped>>
  /\ IF autoFlush /\ ~ destroyed THEN ScheduleFlush(FALSE, 0) ELSE NoTimer

HandOverRearming ==
  /\ entries' = <<>>
  /\ tracked' = tracked - Bytes(entries)
  /\ IF autoFlush THEN ScheduleFlush(FALSE, 0) ELSE NoTimer
  /\ UNCHANGED dropped

(* flush() on the contents and on the timeout: a fresh timeout, if any.    *)
HandOver ==
  /\ entries' = <<>>
  /\ tracked' = tracked - Bytes(entries)
  /\ IF autoFlush /\ ~ destroyed THEN ScheduleFlush(FALSE, 0) ELSE NoTimer
  /\ UNCHANGED dropped

(***************************************************************************)
(* Operations.                                                             *)
(***************************************************************************)

Init ==
  /\ autoFlush \in BOOLEAN
  /\ entries = <<>> /\ tracked = 0 /\ dropped = 0
  /\ flushTimer = autoFlush
  /\ timerLeft = IF autoFlush THEN FlushInterval ELSE 0
  /\ immediate = FALSE /\ immediateAge = 0
  /\ destroyed = FALSE
  /\ added = 0

(* add(entry); a destroyed buffer ignores it. *)
Add(size) ==
  /\ added < MaxAdds
  /\ ~ destroyed
  /\ LET all == Append(entries, [size |-> size, age |-> 0])
     IN  \E k \in 0 .. Len(all) :
           /\ Kept(all, DropOldest(all, k))
           /\ entries' = DropOldest(all, k)
           /\ tracked' = tracked + size - Bytes(SubSeq(all, 1, k))
           /\ dropped' = dropped + k
           /\ RequestFlush(Len(all) - k)
  /\ added' = added + 1
  /\ UNCHANGED <<config, destroyed>>

(* flush(), called by the service; it leaves a pending immediate alone. *)
Flush ==
  /\ HandOver
  /\ UNCHANGED <<config, immediate, immediateAge, destroyed, added>>

(* The timeout's callback: nothing re-arms it when nothing is held. *)
TimerFires ==
  /\ flushTimer /\ timerLeft <= 0
  /\ IF entries # <<>> THEN HandOver ELSE NoTimer /\ UNCHANGED content
  /\ UNCHANGED <<config, immediate, immediateAge, destroyed, added>>

(* The immediate's callback. *)
ImmediateFires ==
  /\ immediate
  /\ NoImmediate
  /\ IF entries # <<>>
     THEN HandOver
     ELSE UNCHANGED <<content, flushTimer, timerLeft>>
  /\ UNCHANGED <<config, destroyed, added>>

(* clear(): the immediate stays. *)
Clear ==
  /\ entries' = <<>>
  /\ tracked' = tracked - Bytes(entries)
  /\ NoTimer
  /\ UNCHANGED <<config, dropped, immediate, immediateAge, destroyed, added>>

(* destroy(). *)
Destroy ==
  /\ destroyed' = TRUE
  /\ NoTimer /\ NoImmediate
  /\ entries' = <<>> /\ tracked' = 0
  /\ UNCHANGED <<config, dropped, added>>

(* One unit of time, unless the event loop owes a callback by now. *)
Tick ==
  /\ flushTimer => timerLeft > -Lag
  /\ immediate => immediateAge < Lag
  /\ timerLeft' = IF flushTimer THEN timerLeft - 1 ELSE timerLeft
  /\ immediateAge' = IF immediate THEN immediateAge + 1 ELSE immediateAge
  /\ entries' = [i \in DOMAIN entries |->
                   [entries[i] EXCEPT !.age = IF @ < AgeCap THEN @ + 1 ELSE @]]
  /\ UNCHANGED <<config, tracked, dropped, flushTimer, immediate, destroyed, added>>

Next ==
  \/ \E size \in Sizes : Add(size)
  \/ Flush
  \/ TimerFires
  \/ ImmediateFires
  \/ Clear
  \/ Destroy
  \/ Tick

(* The event loop runs what is due and time goes on; calls of the buffer   *)
(* are owed by nobody.                                                     *)
Fairness == WF_vars(Tick) /\ WF_vars(TimerFires) /\ WF_vars(ImmediateFires)

Spec == Init /\ [][Next]_vars /\ Fairness
-----------------------------------------------------------------------------
(***************************************************************************)
(* Properties.                                                             *)
(***************************************************************************)

(* MemoryTracker's running total never drifts from what is held: every way *)
(* out of the buffer (eviction by count, age or bytes, flush, clear,       *)
(* destroy) takes off exactly what add() put on.                           *)
TrackedIsHeld == tracked = Bytes(entries)

(* Between calls the buffer is within both of its limits, even when one    *)
(* entry alone exceeds the memory limit.                                   *)
WithinLimits == Len(entries) <= MaxSize /\ tracked <= MaxBytes

(* With autoFlush nothing stays longer than the flush interval plus what   *)
(* the event loop may be late (twice: an overdue timeout may be replaced   *)
(* by an immediate).  No entry is left behind without a handle armed by    *)
(* any order of add, flush, clear and the two callbacks.                   *)
PromptHandover ==
  (autoFlush /\ ~ destroyed) =>
    \A i \in DOMAIN entries : entries[i].age <= LatestHandover

(* destroy() leaves no handle that could call back later, and neither does *)
(* any call that comes after it.                                           *)
SilentWhenDestroyed ==
  destroyed => /\ ~ flushTimer /\ ~ immediate
               /\ entries = <<>> /\ tracked = 0

(* Time alone gets a buffer with autoFlush emptied (the handles of the     *)
(* previous properties do fire, and firing does flush).                    *)
EventuallyHandedOver ==
  (autoFlush /\ ~ destroyed /\ entries # <<>>) ~> (entries = <<>>)

Contract == INSTANCE LogBuffer WITH
  Entry   <- Sizes,
  held    <- [i \in DOMAIN entries |-> entries[i].size],
  evicted <- dropped,
  open    <- ~ destroyed

(* The buffer keeps the contract LogService is built on: order kept, only  *)
(* the oldest evicted, every eviction counted, nothing after destroy().    *)
ImplementsLogBuffer == Contract!BufferSpec
=============================================================================
