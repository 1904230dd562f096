------------------------- MODULE MemoryBufferProofs -------------------------
(***************************************************************************)
(* What TLC checks of MemoryBuffer on one choice of limits and intervals,  *)
(* proved for all of them: the types, both limits, the exact account of    *)
(* bytes, the prompt hand-over, the silence of a destroyed buffer, and     *)
(* that the buffer keeps the contract LogBuffer.                           *)
(***************************************************************************)
EXTENDS MemoryBuffer, SumTheorems, TLAPS

USE MemoryBufferAssumption DEF MemoryBufferAssumption

(* Nothing but the oldest goes: what is left of n elements after k.        *)
LEMMA DropOldestType ==
  ASSUME NEW S, NEW es \in Seq(S), NEW k \in 0 .. Len(es)
  PROVE  /\ DropOldest(es, k) \in Seq(S)
         /\ Len(DropOldest(es, k)) = Len(es) - k
         /\ \A i \in 1 .. Len(es) - k : DropOldest(es, k)[i] = es[k + i]
BY SubSeqProperties DEF DropOldest

(* enforceMaxSize leaves at most MaxSize entries. *)
LEMMA EnforcedLength ==
  ASSUME NEW S, NEW es \in Seq(S)
  PROVE  /\ EnforceMaxSize(es) \in Seq(S)
         /\ Len(EnforceMaxSize(es)) <= MaxSize
<1>1. CASE Len(es) <= MaxSize
  BY <1>1 DEF EnforceMaxSize
<1>2. CASE Len(es) > MaxSize
  <2>1. Len(es) - MaxSize \in 0 .. Len(es)
    BY <1>2
  <2>2. EnforceMaxSize(es) = DropOldest(es, Len(es) - MaxSize)
    BY <1>2 DEF EnforceMaxSize
  <2>3. /\ DropOldest(es, Len(es) - MaxSize) \in Seq(S)
        /\ Len(DropOldest(es, Len(es) - MaxSize)) = Len(es) - (Len(es) - MaxSize)
    BY <2>1, DropOldestType
  <2> QED
    BY <2>2, <2>3
<1> QED
  BY <1>1, <1>2

-----------------------------------------------------------------------------
(***************************************************************************)
(* The inductive invariant.  An entry is watched by the timeout, which is  *)
(* due no later than a flush interval after the entry came, or by an       *)
(* immediate that replaced such a timeout when it was at most Lag overdue. *)
(***************************************************************************)
Watched(age, timer, left, immed, immedAge) ==
  \/ timer /\ age + left <= FlushInterval
  \/ immed /\ age <= FlushInterval + Lag + immedAge

HandlesInv ==
  /\ ~ flushTimer => timerLeft = 0
  /\ ~ immediate => immediateAge = 0
  /\ destroyed => ~ flushTimer /\ ~ immediate /\ entries = <<>>

WatchInv ==
  (autoFlush /\ ~ destroyed) => \A i \in DOMAIN entries :
    Watched(entries[i].age, flushTimer, timerLeft, immediate, immediateAge)

SizeInv == Len(entries) <= MaxSize

IInv == TypeOK /\ HandlesInv /\ SizeInv /\ WatchInv

LEMMA InitInv == Init => IInv
<1> SUFFICES ASSUME Init PROVE IInv
  OBVIOUS
<1>1. entries = <<>> /\ entries \in Seq(LogEntry) /\ Len(entries) = 0
  BY DEF Init
<1>2. TypeOK
  <2>1. autoFlush \in BOOLEAN /\ flushTimer \in BOOLEAN /\ immediate \in BOOLEAN
        /\ destroyed \in BOOLEAN
    BY Zenon DEF Init
  <2>2. /\ timerLeft \in -Lag .. FlushInterval /\ immediateAge \in 0 .. Lag
        /\ dropped \in Nat /\ added \in Nat
    BY SMT DEF Init
  <2> QED
    BY <1>1, <2>1, <2>2, Zenon DEF TypeOK
<1>3. HandlesInv
  BY <1>1 DEF Init, HandlesInv
<1>4. SizeInv
  BY <1>1 DEF SizeInv
<1>5. WatchInv
  BY <1>1 DEF WatchInv
<1> QED
  BY <1>2, <1>3, <1>4, <1>5 DEF IInv

(* What add() leaves is within the limit on the number of entries. *)
LEMMA KeptLength ==
  ASSUME NEW es \in Seq(LogEntry), NEW kept, Kept(es, kept)
  PROVE  Len(kept) <= MaxSize
<1> DEFINE sized == EnforceMaxSize(es)
<1>1. sized \in Seq(LogEntry) /\ Len(sized) <= MaxSize
  BY EnforcedLength
<1>2. ASSUME NEW x \in 0 .. Len(sized),
             NEW k \in 0 .. Len(DropOldest(sized, x)),
             kept = EnforceMaxSize(DropOldest(DropOldest(sized, x), k))
      PROVE  Len(kept) <= MaxSize
  <2>1. DropOldest(sized, x) \in Seq(LogEntry)
    BY <1>1, DropOldestType
  <2>2. DropOldest(DropOldest(sized, x), k) \in Seq(LogEntry)
    BY <2>1, DropOldestType
  <2> QED
    BY <1>2, <2>2, EnforcedLength
<1> QED
  BY <1>1, <1>2 DEF Kept


(* One lemma per way the handles change; each says what becomes of the     *)
(* types, of the handles and of what the handles watch.                    *)
LEMMA HandOverInv ==
  ASSUME IInv, HandOver, UNCHANGED <<autoFlush, destroyed, added>>,
         immediate' \in BOOLEAN, immediateAge' \in 0 .. Lag,
         ~ immediate' => immediateAge' = 0, destroyed => ~ immediate'
  PROVE  IInv'
<1>1. entries' = <<>> /\ entries' \in Seq(LogEntry)' /\ Len(entries') = 0
  BY DEF HandOver, LogEntry
<1>2. \/ flushTimer' = TRUE /\ timerLeft' = FlushInterval /\ ~ destroyed
      \/ flushTimer' = FALSE /\ timerLeft' = 0
  BY DEF HandOver, ScheduleFlush, NoTimer
<1>3. TypeOK'
  <2>1. autoFlush' \in BOOLEAN /\ destroyed' \in BOOLEAN /\ flushTimer' \in BOOLEAN
    BY <1>2, Zenon DEF IInv, TypeOK
  <2>2. timerLeft' \in -Lag .. FlushInterval /\ dropped' \in Nat /\ added' \in Nat
    BY <1>2, SMT DEF IInv, TypeOK, HandOver
  <2> QED
    BY <1>1, <2>1, <2>2, Zenon DEF TypeOK
<1>4. HandlesInv'
  BY <1>1, <1>2 DEF HandlesInv
<1> QED
  BY <1>1, <1>3, <1>4 DEF IInv, SizeInv, WatchInv

LEMMA RequestFlushInv ==
  ASSUME IInv, ~ destroyed, NEW count \in Nat, RequestFlush(count)
  PROVE  /\ flushTimer' \in BOOLEAN /\ timerLeft' \in -Lag .. FlushInterval
         /\ immediate' \in BOOLEAN /\ immediateAge' \in 0 .. Lag
         /\ ~ flushTimer' => timerLeft' = 0
         /\ ~ immediate' => immediateAge' = 0
         /\ autoFlush => \A age \in Nat :
              Watched(age, flushTimer, timerLeft, immediate, immediateAge) \/ age = 0
                => Watched(age, flushTimer', timerLeft', immediate', immediateAge')
<1>1. /\ flushTimer \in BOOLEAN /\ timerLeft \in -Lag .. FlushInterval
      /\ immediate \in BOOLEAN /\ immediateAge \in 0 .. Lag
      /\ ~ flushTimer => timerLeft = 0
      /\ ~ immediate => immediateAge = 0
  BY Zenon DEF IInv, TypeOK, HandlesInv
<1>2. CASE ~ autoFlush
  <2>1. /\ flushTimer' = flushTimer /\ timerLeft' = timerLeft
        /\ immediate' = immediate /\ immediateAge' = immediateAge
    BY <1>2, Zenon DEF RequestFlush, timers
  <2> QED
    BY <1>1, <1>2, <2>1, Zenon
<1>3. CASE autoFlush /\ count >= MaxSize /\ ~ immediate
  <2>1. /\ flushTimer' = FALSE /\ timerLeft' = 0
        /\ immediate' = TRUE /\ immediateAge' = 0
    BY <1>3 DEF RequestFlush, NoTimer
  <2>2. ASSUME NEW age \in Nat,
               Watched(age, flushTimer, timerLeft, immediate, immediateAge) \/ age = 0
        PROVE  Watched(age, flushTimer', timerLeft', immediate', immediateAge')
    BY <1>1, <1>3, <2>1, <2>2 DEF Watched
  <2>3. timerLeft' \in -Lag .. FlushInterval /\ immediateAge' \in 0 .. Lag
    BY <2>1
  <2> QED
    BY <2>1, <2>2, <2>3, Zenon
<1>4. CASE autoFlush /\ ~ (count >= MaxSize /\ ~ immediate)
  <2>1. /\ immediate' = immediate /\ immediateAge' = immediateAge
        /\ flushTimer' = TRUE
        /\ timerLeft' = IF flushTimer THEN timerLeft ELSE FlushInterval
    BY <1>4, Zenon DEF RequestFlush, ScheduleFlush
  <2>2. ASSUME NEW age \in Nat,
               Watched(age, flushTimer, timerLeft, immediate, immediateAge) \/ age = 0
        PROVE  Watched(age, flushTimer', timerLeft', immediate', immediateAge')
    BY <1>1, <2>1, <2>2 DEF Watched
  <2>3. timerLeft' \in -Lag .. FlushInterval
    BY <1>1, <2>1
  <2> QED
    BY <1>1, <2>1, <2>2, <2>3, Zenon
<1> QED
  BY <1>2, <1>3, <1>4, Zenon

LEMMA AddInv == ASSUME IInv, NEW size \in Sizes, Add(size) PROVE IInv'
<1> DEFINE all == Append(entries, [size |-> size, age |-> 0])
<1>1. /\ all \in Seq(LogEntry) /\ Len(all) = Len(entries) + 1
      /\ entries \in Seq(LogEntry)
      /\ \A j \in 1 .. Len(entries) : all[j] = entries[j]
      /\ all[Len(entries) + 1].age = 0
  BY DEF IInv, TypeOK, LogEntry
<1>2. PICK k \in 0 .. Len(all) :
        /\ Kept(all, DropOldest(all, k))
        /\ entries' = DropOldest(all, k)
        /\ dropped' = dropped + k
        /\ RequestFlush(Len(all) - k)
  BY DEF Add
<1>3. /\ ~ destroyed /\ UNCHANGED <<autoFlush, destroyed>> /\ added' = added + 1
  BY DEF Add, config
<1> HIDE DEF all
<1>4. /\ entries' \in Seq(LogEntry)
      /\ Len(entries') = Len(all) - k
      /\ \A i \in 1 .. Len(all) - k : entries'[i] = all[k + i]
  <2>1. /\ DropOldest(all, k) \in Seq(LogEntry)
        /\ Len(DropOldest(all, k)) = Len(all) - k
        /\ \A i \in 1 .. Len(all) - k : DropOldest(all, k)[i] = all[k + i]
    <3>1. all \in Seq(LogEntry) /\ k \in 0 .. Len(all)
      BY <1>1
    <3> QED
      BY <3>1, DropOldestType
  <2> QED
    BY <1>2, <2>1, Zenon
<1>5. Len(all) - k \in Nat
  BY <1>1, <1>2
<1>6. /\ flushTimer' \in BOOLEAN /\ timerLeft' \in -Lag .. FlushInterval
      /\ immediate' \in BOOLEAN /\ immediateAge' \in 0 .. Lag
      /\ ~ flushTimer' => timerLeft' = 0
      /\ ~ immediate' => immediateAge' = 0
      /\ autoFlush => \A age \in Nat :
           Watched(age, flushTimer, timerLeft, immediate, immediateAge) \/ age = 0
             => Watched(age, flushTimer', timerLeft', immediate', immediateAge')
  BY <1>2, <1>3, <1>5, RequestFlushInv, Zenon
<1>7. TypeOK'
  <2>1. autoFlush' \in BOOLEAN /\ destroyed' \in BOOLEAN
    BY <1>3, Zenon DEF IInv, TypeOK
  <2>2. dropped' \in Nat /\ added' \in Nat
    BY <1>1, <1>2, <1>3, SMT DEF IInv, TypeOK
  <2>3. entries' \in Seq(LogEntry)'
    BY <1>4 DEF LogEntry
  <2> QED
    BY <1>6, <2>1, <2>2, <2>3, Zenon DEF TypeOK
<1>8. HandlesInv'
  BY <1>3, <1>6, Zenon DEF HandlesInv
<1>9. SizeInv'
  BY <1>1, <1>2, KeptLength DEF SizeInv
<1>10. WatchInv'
  <2> SUFFICES ASSUME autoFlush, NEW i \in DOMAIN entries'
               PROVE  Watched(entries'[i].age, flushTimer', timerLeft',
                              immediate', immediateAge')
    BY <1>3, Zenon DEF WatchInv
  <2>1. i \in 1 .. Len(all) - k /\ entries'[i] = all[k + i] /\ all[k + i] \in LogEntry
    BY <1>1, <1>2, <1>4
  <2>2. all[k + i].age \in Nat
    BY <2>1 DEF LogEntry
  <2>3. CASE k + i <= Len(entries)
    <3>1. k + i \in DOMAIN entries /\ all[k + i] = entries[k + i]
      BY <1>1, <1>2, <2>1, <2>3
    <3>2. Watched(entries[k + i].age, flushTimer, timerLeft, immediate, immediateAge)
      BY <1>3, <3>1 DEF IInv, WatchInv
    <3> QED
      BY <1>6, <2>1, <2>2, <3>1, <3>2
  <2>4. CASE k + i = Len(entries) + 1
    <3>1. all[k + i].age = 0
      BY <1>1, <2>4
    <3> QED
      BY <1>6, <2>1, <2>2, <3>1
  <2>5. k + i <= Len(entries) \/ k + i = Len(entries) + 1
    BY <1>1, <1>2, <2>1
  <2> QED
    BY <2>3, <2>4, <2>5
<1> QED
  BY <1>7, <1>8, <1>9, <1>10 DEF IInv

LEMMA TickInv == ASSUME IInv, Tick PROVE IInv'
<1>1. /\ UNCHANGED <<autoFlush, dropped, flushTimer, immediate, destroyed, added>>
      /\ timerLeft' = IF flushTimer THEN timerLeft - 1 ELSE timerLeft
      /\ immediateAge' = IF immediate THEN immediateAge + 1 ELSE immediateAge
      /\ flushTimer => timerLeft > -Lag
      /\ immediate => immediateAge < Lag
  BY Zenon DEF Tick, config
<1>2. /\ timerLeft \in -Lag .. FlushInterval /\ immediateAge \in 0 .. Lag
      /\ entries \in Seq(LogEntry) /\ Len(entries) <= MaxSize
      /\ dropped \in Nat /\ added \in Nat
      /\ ~ flushTimer => timerLeft = 0
      /\ ~ immediate => immediateAge = 0
  BY Zenon DEF IInv, TypeOK, HandlesInv, SizeInv
<1>3. timerLeft' \in -Lag .. FlushInterval /\ immediateAge' \in 0 .. Lag
  BY <1>1, <1>2
<1>4. AgeCap \in Nat
  BY DEF AgeCap, LatestHandover
<1>5. /\ entries' \in Seq(LogEntry)
      /\ Len(entries') = Len(entries)
      /\ \A i \in 1 .. Len(entries) :
           /\ entries[i].age \in Nat
           /\ entries'[i].age \in Nat
           /\ entries'[i].age <= entries[i].age + 1
  <2> DEFINE older(e) == [e EXCEPT !.age = IF @ < AgeCap THEN @ + 1 ELSE @]
  <2>1. DOMAIN entries = 1 .. Len(entries) /\ Len(entries) \in Nat
    BY <1>2
  <2>2. entries' = [i \in 1 .. Len(entries) |-> older(entries[i])]
    BY <2>1 DEF Tick
  <2>3. ASSUME NEW e \in LogEntry
        PROVE  /\ older(e) \in LogEntry
               /\ e.age \in Nat /\ older(e).age \in Nat
               /\ older(e).age <= e.age + 1
    BY <1>4 DEF LogEntry
  <2> HIDE DEF older
  <2>4. \A i \in 1 .. Len(entries) : entries[i] \in LogEntry
    BY <1>2
  <2>5. entries' \in [1 .. Len(entries) -> LogEntry]
    BY <2>2, <2>3, <2>4
  <2> QED
    BY <2>1, <2>2, <2>3, <2>4, <2>5
<1>6. TypeOK'
  <2>1. /\ autoFlush' \in BOOLEAN /\ destroyed' \in BOOLEAN
        /\ flushTimer' \in BOOLEAN /\ immediate' \in BOOLEAN
    BY <1>1, Zenon DEF IInv, TypeOK
  <2>2. entries' \in Seq(LogEntry)'
    BY <1>5 DEF LogEntry
  <2> QED
    BY <1>1, <1>2, <1>3, <2>1, <2>2, Zenon DEF TypeOK
<1>7. HandlesInv'
  <2>1. destroyed => entries' = <<>>
    <3>1. destroyed => Len(entries) = 0
      BY DEF IInv, HandlesInv
    <3> QED
      BY <1>5, <3>1
  <2> QED
    BY <1>1, <1>2, <2>1, Zenon DEF IInv, HandlesInv
<1>8. SizeInv'
  BY <1>2, <1>5 DEF SizeInv
<1>9. WatchInv'
  <2> SUFFICES ASSUME autoFlush, ~ destroyed, NEW i \in DOMAIN entries'
               PROVE  Watched(entries'[i].age, flushTimer', timerLeft',
                              immediate', immediateAge')
    BY <1>1, Zenon DEF WatchInv
  <2>1. i \in DOMAIN entries /\ i \in 1 .. Len(entries)
    BY <1>2, <1>5
  <2>2. Watched(entries[i].age, flushTimer, timerLeft, immediate, immediateAge)
    BY <2>1 DEF IInv, WatchInv
  <2>3. entries[i].age \in Nat
    BY <1>5, <2>1
  <2>4. entries'[i].age \in Nat /\ entries'[i].age <= entries[i].age + 1
    BY <1>5, <2>1
  <2>5. CASE flushTimer /\ entries[i].age + timerLeft <= FlushInterval
    BY <1>1, <1>2, <2>3, <2>4, <2>5, SMTT(30) DEF Watched
  <2>6. CASE immediate /\ entries[i].age <= FlushInterval + Lag + immediateAge
    BY <1>1, <1>2, <2>3, <2>4, <2>6 DEF Watched
  <2> QED
    BY <2>2, <2>5, <2>6, Zenon DEF Watched
<1> QED
  BY <1>6, <1>7, <1>8, <1>9 DEF IInv

(* A callback that finds nothing, and the calls that empty the buffer. *)
LEMMA TimerFiresInv == ASSUME IInv, TimerFires PROVE IInv'
<1>1. UNCHANGED <<autoFlush, immediate, immediateAge, destroyed, added>>
  BY DEF TimerFires, config
<1>2. CASE entries # <<>>
  <2>1. HandOver
    BY <1>2 DEF TimerFires
  <2>2. /\ immediate' \in BOOLEAN /\ immediateAge' \in 0 .. Lag
        /\ ~ immediate' => immediateAge' = 0
        /\ destroyed => ~ immediate'
    BY <1>1, Zenon DEF IInv, TypeOK, HandlesInv
  <2> QED
    BY <1>1, <2>1, <2>2, HandOverInv
<1>3. CASE entries = <<>>
  <2>1. /\ flushTimer' = FALSE /\ timerLeft' = 0
        /\ entries' = entries /\ dropped' = dropped
    BY <1>3 DEF TimerFires, NoTimer, content
  <2>2. timerLeft' \in -Lag .. FlushInterval
    BY <2>1
  <2>3. TypeOK'
    BY <1>1, <2>1, <2>2, Zenon DEF IInv, TypeOK, LogEntry
  <2>4. HandlesInv'
    BY <1>1, <2>1, Zenon DEF IInv, HandlesInv
  <2>5. SizeInv' /\ WatchInv'
    BY <1>3, <2>1 DEF IInv, SizeInv, WatchInv
  <2> QED
    BY <2>3, <2>4, <2>5 DEF IInv
<1> QED
  BY <1>2, <1>3

LEMMA ImmediateFiresInv == ASSUME IInv, ImmediateFires PROVE IInv'
<1>1. /\ UNCHANGED <<autoFlush, destroyed, added>>
      /\ immediate' = FALSE /\ immediateAge' = 0
      /\ immediate' \in BOOLEAN
  BY Zenon DEF ImmediateFires, config, NoImmediate
<1>1a. immediateAge' \in 0 .. Lag
  BY <1>1
<1>2. CASE entries # <<>>
  <2>1. HandOver
    BY <1>2 DEF ImmediateFires
  <2> QED
    BY <1>1, <1>1a, <2>1, HandOverInv, Zenon
<1>3. CASE entries = <<>>
  <2>1. /\ flushTimer' = flushTimer /\ timerLeft' = timerLeft
        /\ entries' = entries /\ dropped' = dropped
    BY <1>3 DEF ImmediateFires, content
  <2>3. TypeOK'
    BY <1>1, <1>1a, <2>1, Zenon DEF IInv, TypeOK, LogEntry
  <2>4. HandlesInv'
    BY <1>1, <2>1, Zenon DEF IInv, HandlesInv
  <2>5. SizeInv' /\ WatchInv'
    BY <1>3, <2>1 DEF IInv, SizeInv, WatchInv
  <2> QED
    BY <2>3, <2>4, <2>5 DEF IInv
<1> QED
  BY <1>2, <1>3

LEMMA EmptiedInv ==
  ASSUME IInv, entries' = <<>>, UNCHANGED <<autoFlush, dropped, added>>, NoTimer,
         destroyed' \in BOOLEAN,
         \/ destroyed' = destroyed /\ immediate' = immediate
                                   /\ immediateAge' = immediateAge
         \/ NoImmediate
  PROVE  IInv'
<1>1. /\ entries' \in Seq(LogEntry)' /\ Len(entries') = 0
      /\ timerLeft' \in -Lag .. FlushInterval
  BY DEF NoTimer
<1>2. immediateAge' \in 0 .. Lag
  BY DEF IInv, TypeOK, NoImmediate
<1>3. TypeOK'
  <2>1. flushTimer' \in BOOLEAN /\ immediate' \in BOOLEAN
    BY Zenon DEF NoTimer, NoImmediate, IInv, TypeOK
  <2> QED
    BY <1>1, <1>2, <2>1, Zenon DEF IInv, TypeOK
<1>4. HandlesInv'
  <2>1. /\ ~ immediate => immediateAge = 0
        /\ destroyed => ~ immediate
    BY Zenon DEF IInv, HandlesInv
  <2>2. CASE destroyed' = destroyed /\ immediate' = immediate
                                    /\ immediateAge' = immediateAge
    BY <2>1, <2>2, Zenon DEF HandlesInv, NoTimer
  <2>3. CASE NoImmediate
    BY <2>3, Zenon DEF HandlesInv, NoTimer, NoImmediate
  <2> QED
    BY <2>2, <2>3
<1>5. SizeInv' /\ WatchInv'
  BY <1>1 DEF SizeInv, WatchInv
<1> QED
  BY <1>3, <1>4, <1>5 DEF IInv

LEMMA NextInv == IInv /\ [Next]_vars => IInv'
<1> SUFFICES ASSUME IInv, [Next]_vars PROVE IInv'
  OBVIOUS
<1>1. ASSUME NEW size \in Sizes, Add(size) PROVE IInv'
  BY <1>1, AddInv
<1>2. CASE Flush
  <2>1. HandOver /\ UNCHANGED <<autoFlush, immediate, immediateAge, destroyed, added>>
    BY <1>2 DEF Flush, config
  <2>2. /\ immediate' \in BOOLEAN /\ immediateAge' \in 0 .. Lag
        /\ ~ immediate' => immediateAge' = 0
        /\ destroyed => ~ immediate'
    BY <2>1, Zenon DEF IInv, TypeOK, HandlesInv
  <2> QED
    BY <2>1, <2>2, HandOverInv
<1>3. CASE TimerFires
  BY <1>3, TimerFiresInv
<1>4. CASE ImmediateFires
  BY <1>4, ImmediateFiresInv
<1>5. CASE Clear
  <2>1. destroyed' \in BOOLEAN
    BY <1>5, Zenon DEF Clear, IInv, TypeOK
  <2> QED
    BY <1>5, <2>1, EmptiedInv, Zenon DEF Clear, config
<1>6. CASE Destroy
  <2>1. destroyed' \in BOOLEAN
    BY <1>6, Zenon DEF Destroy
  <2> QED
    BY <1>6, <2>1, EmptiedInv, Zenon DEF Destroy, config
<1>7. CASE Tick
  BY <1>7, TickInv
<1>8. CASE UNCHANGED vars
  BY <1>8, Zenon DEF vars, config, content, timers, IInv, TypeOK, HandlesInv,
                     SizeInv, WatchInv, LogEntry
<1> QED
  BY <1>1, <1>2, <1>3, <1>4, <1>5, <1>6, <1>7, <1>8 DEF Next

(* The invariant holds in every state of every behaviour. *)
THEOREM Invariance == Spec => []IInv
BY InitInv, NextInv, PTL DEF Spec

(* The state has its types, whatever the limits and intervals. *)
THEOREM TypeCorrect == Spec => []TypeOK
<1>1. IInv => TypeOK
  BY DEF IInv
<1> QED
  BY <1>1, Invariance, PTL

(* No entry of a live buffer with autoFlush outstays the flush interval by *)
(* more than twice the lag of the event loop.                              *)
THEOREM HandoverIsPrompt == Spec => []PromptHandover
<1>1. IInv => PromptHandover
  <2> SUFFICES ASSUME IInv, autoFlush, ~ destroyed, NEW i \in DOMAIN entries
               PROVE  entries[i].age <= LatestHandover
    BY DEF PromptHandover
  <2>1. Watched(entries[i].age, flushTimer, timerLeft, immediate, immediateAge)
    BY DEF IInv, WatchInv
  <2>2. /\ timerLeft \in -Lag .. FlushInterval /\ immediateAge \in 0 .. Lag
        /\ entries[i] \in LogEntry
    BY DEF IInv, TypeOK
  <2>3. entries[i].age \in Nat
    BY <2>2 DEF LogEntry
  <2> QED
    BY <2>1, <2>2, <2>3 DEF Watched, LatestHandover
<1> QED
  BY <1>1, Invariance, PTL
-----------------------------------------------------------------------------
(***************************************************************************)
(* The buffer implements the contract LogBuffer.                           *)
(***************************************************************************)
shown == [i \in DOMAIN entries |-> entries[i].size]

(* An add of the buffer is an add of the contract with the same eviction.  *)
LEMMA AddImplements ==
  ASSUME IInv, NEW size \in Sizes, Add(size)
  PROVE  Contract!Add(size)
<1> DEFINE all == Append(entries, [size |-> size, age |-> 0])
<1>1. /\ all \in Seq(LogEntry) /\ Len(all) = Len(entries) + 1
      /\ entries \in Seq(LogEntry) /\ Len(entries) \in Nat
      /\ \A j \in 1 .. Len(entries) : all[j] = entries[j]
      /\ all[Len(entries) + 1].size = size
  BY DEF IInv, TypeOK, LogEntry
<1>2. PICK k \in 0 .. Len(all) :
        /\ Kept(all, DropOldest(all, k))
        /\ entries' = DropOldest(all, k)
        /\ dropped' = dropped + k
  BY DEF Add
<1> HIDE DEF all
<1>3. /\ Len(entries') = Len(all) - k
      /\ entries' \in Seq(LogEntry)
      /\ \A i \in 1 .. Len(all) - k : entries'[i] = all[k + i]
  <2>1. /\ DropOldest(all, k) \in Seq(LogEntry)
        /\ Len(DropOldest(all, k)) = Len(all) - k
        /\ \A i \in 1 .. Len(all) - k : DropOldest(all, k)[i] = all[k + i]
    <3>1. all \in Seq(LogEntry) /\ k \in 0 .. Len(all)
      BY <1>1
    <3> QED
      BY <3>1, DropOldestType
  <2> QED
    BY <1>2, <2>1, Zenon
<1>4. Len(entries) + 1 - k <= MaxSize
  <2>1. Len(entries') <= MaxSize
    BY <1>1, <1>2, KeptLength
  <2> QED
    BY <1>1, <1>3, <2>1
<1>5. /\ shown \in Seq(Sizes) /\ Len(shown) = Len(entries)
      /\ \A j \in 1 .. Len(entries) : shown[j] = entries[j].size
  <2>1. shown \in [1 .. Len(entries) -> Sizes]
    <3>1. \A j \in 1 .. Len(entries) : entries[j] \in LogEntry
      BY <1>1
    <3>2. \A j \in 1 .. Len(entries) : entries[j].size \in Sizes
      BY <3>1 DEF LogEntry
    <3>3. DOMAIN entries = 1 .. Len(entries)
      BY <1>1
    <3> QED
      BY <3>2, <3>3 DEF shown
  <2> QED
    BY <1>1, <2>1 DEF shown
<1>6. shown' = Contract!Without(Append(shown, size), k)
  <2> DEFINE more == Append(shown, size)
             rest == SubSeq(more, k + 1, Len(more))
  <2>1. /\ more \in Seq(Sizes) /\ Len(more) = Len(entries) + 1
        /\ \A j \in 1 .. Len(entries) + 1 : more[j] = all[j].size
    BY <1>1, <1>5
  <2> HIDE DEF more
  <2>2. /\ rest \in Seq(Sizes) /\ Len(rest) = Len(entries) + 1 - k
        /\ \A j \in 1 .. Len(entries) + 1 - k : rest[j] = more[k + j]
    <3>1. k \in 0 .. Len(more)
      BY <1>1, <2>1
    <3>2. \A j \in k + 1 .. Len(more) : more[j] \in Sizes
      BY <2>1, <3>1
    <3> QED
      BY <1>1, <2>1, <3>1, <3>2, SubSeqProperties
  <2> HIDE DEF rest
  <2>3. rest = [j \in 1 .. Len(entries) + 1 - k |-> rest[j]]
    BY <2>2
  <2>4. shown' = [j \in 1 .. Len(entries) + 1 - k |-> entries'[j].size]
    BY <1>1, <1>3 DEF shown
  <2>5. \A j \in 1 .. Len(entries) + 1 - k : entries'[j].size = rest[j]
    BY <1>1, <1>2, <1>3, <2>1, <2>2
  <2>6. shown' = rest
    BY <2>3, <2>4, <2>5, Zenon
  <2> QED
    BY <2>6 DEF rest, more, Contract!Without
<1>7. ~ destroyed /\ destroyed' = destroyed
  BY DEF Add
<1>8. Len(shown) + 1 - k <= MaxSize /\ k \in 0 .. Len(shown) + 1
  BY <1>1, <1>2, <1>4, <1>5
<1> QED
  BY <1>2, <1>6, <1>7, <1>8 DEF Contract!Add, shown

(* An empty list of entries shows as an empty list of sizes. *)
LEMMA EmptyShown == ASSUME entries = <<>> PROVE shown = <<>>
BY DEF shown

(* Whatever empties the buffer is a Take or a Close; the rest stutters. *)
LEMMA StepImplements ==
  ASSUME IInv, [Next]_vars
  PROVE  [Contract!BufferNext]_(Contract!bufferVars)
<1> USE DEF Contract!bufferVars
<1>1. ASSUME NEW size \in Sizes, Add(size)
      PROVE  Contract!BufferNext
  BY <1>1, AddImplements DEF Contract!BufferNext
<1>2. ASSUME entries' = <<>>, UNCHANGED <<dropped, destroyed>>
      PROVE  Contract!BufferNext
  <2>1. shown' = <<>>
    BY <1>2 DEF shown
  <2> QED
    BY <1>2, <2>1 DEF Contract!BufferNext, Contract!Take, shown
<1>3. ASSUME entries' = entries, UNCHANGED <<dropped, destroyed>>
      PROVE  UNCHANGED Contract!bufferVars
  BY <1>3
<1>4. CASE Flush
  BY <1>2, <1>4 DEF Flush, HandOver
<1>5. CASE TimerFires
  <2>1. CASE entries # <<>>
    BY <1>2, <1>5, <2>1 DEF TimerFires, HandOver
  <2>2. CASE entries = <<>>
    BY <1>3, <1>5, <2>2 DEF TimerFires, content
  <2> QED
    BY <2>1, <2>2
<1>6. CASE ImmediateFires
  <2>1. CASE entries # <<>>
    BY <1>2, <1>6, <2>1 DEF ImmediateFires, HandOver
  <2>2. CASE entries = <<>>
    BY <1>3, <1>6, <2>2 DEF ImmediateFires, content
  <2> QED
    BY <2>1, <2>2
<1>7. CASE Clear
  BY <1>2, <1>7 DEF Clear
<1>8. CASE Destroy
  <2>1. shown' = <<>>
    BY <1>8 DEF shown, Destroy
  <2> QED
    BY <1>8, <2>1 DEF Destroy, Contract!BufferNext, Contract!Close, shown
<1>9. CASE Tick
  <2>1. shown' = shown
    <3>1. DOMAIN entries' = DOMAIN entries
      BY <1>9 DEF Tick
    <3>2. \A j \in DOMAIN entries : entries[j] \in LogEntry
      BY DEF IInv, TypeOK
    <3>3. \A j \in DOMAIN entries : entries'[j].size = entries[j].size
      BY <1>9, <3>2 DEF Tick, LogEntry
    <3> QED
      BY <3>1, <3>3, Zenon DEF shown
  <2> QED
    BY <1>9, <2>1 DEF Tick, shown
<1>10. CASE UNCHANGED vars
  BY <1>3, <1>10 DEF vars, content
<1> QED
  BY <1>1, <1>4, <1>5, <1>6, <1>7, <1>8, <1>9, <1>10 DEF Next

(* The buffer keeps the contract of LogBuffer: order, eviction from the    *)
(* old end only, an exact count of it, at most MaxSize entries, and        *)
(* nothing held after destroy().                                           *)
THEOREM BufferImplementsContract == Spec => ImplementsLogBuffer
<1>1. Init => Contract!BufferInit
  <2> SUFFICES ASSUME Init PROVE Contract!BufferInit
    OBVIOUS
  <2>1. shown = <<>>
    BY EmptyShown DEF Init
  <2> QED
    BY <2>1 DEF Init, Contract!BufferInit, shown
<1> QED
  BY <1>1, StepImplements, Invariance, PTL
     DEF Spec, ImplementsLogBuffer, Contract!BufferSpec
-----------------------------------------------------------------------------
(***************************************************************************)
(* The account of bytes.                                                   *)
(***************************************************************************)
SizeOf == [e \in LogEntry |-> e.size]

(* The bytes of a list are the sum of the sizes along it. *)
LEMMA BytesType ==
  ASSUME NEW es \in Seq(LogEntry)
  PROVE  Bytes(es) = SumOf(Along(SizeOf, es)) /\ Bytes(es) \in Nat
<1>1. \A i \in DOMAIN es : es[i] \in LogEntry
  BY LenProperties, ElementOfSeq
<1>2. \A i \in DOMAIN es : SizeOf[es[i]] = es[i].size
  BY <1>1 DEF SizeOf
<1>3. [i \in DOMAIN es |-> es[i].size] = Along(SizeOf, es)
  BY <1>2 DEF Along
<1>4. SizeOf \in [LogEntry -> Nat]
  BY DEF SizeOf, LogEntry
<1>5. SumOf(Along(SizeOf, es)) \in Nat
  BY <1>4, AlongType
<1> QED
  BY <1>3, <1>5 DEF Bytes

(* The bytes of a list are those of its oldest entries and those of the    *)
(* rest: what an eviction takes off the tracker and what it leaves.        *)
LEMMA BytesCut ==
  ASSUME NEW es \in Seq(LogEntry), NEW k \in 0 .. Len(es)
  PROVE  /\ DropOldest(es, k) \in Seq(LogEntry)
         /\ SubSeq(es, 1, k) \in Seq(LogEntry)
         /\ Bytes(es) = Bytes(SubSeq(es, 1, k)) + Bytes(DropOldest(es, k))
<1>1. DropOldest(es, k) \in Seq(LogEntry) /\ SubSeq(es, 1, k) \in Seq(LogEntry)
  BY RestOf, FirstOf DEF DropOldest
<1>2. SizeOf \in [LogEntry -> Nat]
  BY DEF SizeOf, LogEntry
<1>3. SumOf(Along(SizeOf, es)) = SumOf(Along(SizeOf, SubSeq(es, 1, k)))
                                   + SumOf(Along(SizeOf, DropOldest(es, k)))
  BY <1>2, AlongParts DEF DropOldest
<1> QED
  BY <1>1, <1>3, BytesType

(* One entry more adds its size. *)
LEMMA BytesAppend ==
  ASSUME NEW es \in Seq(LogEntry), NEW e \in LogEntry
  PROVE  /\ Append(es, e) \in Seq(LogEntry)
         /\ Bytes(Append(es, e)) = Bytes(es) + e.size
<1>1. Append(es, e) \in Seq(LogEntry)
  BY AppendProperties
<1>2. SizeOf \in [LogEntry -> Nat] /\ SizeOf[e] = e.size
  BY DEF SizeOf, LogEntry
<1>3. SumOf(Along(SizeOf, Append(es, e))) = SumOf(Along(SizeOf, es)) + SizeOf[e]
  BY <1>2, AlongAppend
<1> QED
  BY <1>1, <1>2, <1>3, BytesType

(* Nothing weighs nothing. *)
LEMMA BytesOfNothing == Bytes(<<>>) = 0
  BY SumEmpty DEF Bytes

(* What add() leaves is within the memory limit, whatever sizes and ages   *)
(* came together: the loop of removeOldEntries stops at a rest that fits.  *)
LEMMA KeptFits ==
  ASSUME NEW es \in Seq(LogEntry), NEW kept, Kept(es, kept)
  PROVE  Bytes(kept) <= MaxBytes
<1> DEFINE sized == EnforceMaxSize(es)
<1>1. sized \in Seq(LogEntry) /\ Len(sized) <= MaxSize
  BY EnforcedLength
<1>2. CASE Bytes(sized) <= MaxBytes
  BY <1>2 DEF Kept
<1>3. ASSUME NEW x \in 0 .. Len(sized),
             NEW k \in 0 .. Len(DropOldest(sized, x)),
             EvictedBy(DropOldest(sized, x), k),
             kept = EnforceMaxSize(DropOldest(DropOldest(sized, x), k))
      PROVE  Bytes(kept) <= MaxBytes
  <2> DEFINE young == DropOldest(sized, x)
             rest == DropOldest(young, k)
  <2>1. young \in Seq(LogEntry) /\ Len(young) = Len(sized) - x
    BY <1>1, DropOldestType
  <2>2. rest \in Seq(LogEntry) /\ Len(rest) = Len(young) - k
    BY <2>1, DropOldestType
  <2>3. Len(rest) <= MaxSize
    BY <1>1, <2>1, <2>2, LenProperties
  <2>4. kept = rest
    BY <1>3, <2>3 DEF EnforceMaxSize
  <2>5. k = Len(young) \/ Bytes(rest) <= MaxBytes
    BY <1>3 DEF EvictedBy
  <2>6. CASE k = Len(young)
    <3>1. rest = <<>>
      BY <2>1, <2>2, <2>6, LenProperties, EmptySeq
    <3> QED
      BY <2>4, <3>1, BytesOfNothing
  <2> QED
    BY <2>4, <2>5, <2>6
<1> QED
  BY <1>2, <1>3 DEF Kept

AccountInv ==
  /\ TrackedIsHeld /\ tracked <= MaxBytes
  /\ destroyed => tracked = 0

(* Every way into and out of the buffer keeps the account.                 *)
LEMMA AccountKept ==
  ASSUME IInv, AccountInv, [Next]_vars
  PROVE  AccountInv'
<1>1. entries \in Seq(LogEntry) /\ tracked = Bytes(entries) /\ tracked \in Nat
  BY BytesType DEF IInv, TypeOK, AccountInv, TrackedIsHeld
<1>2. ASSUME entries' = <<>>, tracked' = 0
      PROVE  AccountInv'
  BY <1>2, BytesOfNothing DEF AccountInv, TrackedIsHeld, Bytes
<1>3. ASSUME entries' = <<>>, tracked' = tracked - Bytes(entries)
      PROVE  AccountInv'
  BY <1>1, <1>2, <1>3
<1>4. ASSUME UNCHANGED content, UNCHANGED destroyed
      PROVE  AccountInv'
  BY <1>4 DEF content, AccountInv, TrackedIsHeld, Bytes
<1>5. ASSUME NEW size \in Sizes, Add(size)
      PROVE  AccountInv'
  <2> DEFINE e == [size |-> size, age |-> 0]
             all == Append(entries, e)
  <2>1. PICK k \in 0 .. Len(all) :
          /\ Kept(all, DropOldest(all, k))
          /\ entries' = DropOldest(all, k)
          /\ tracked' = tracked + size - Bytes(SubSeq(all, 1, k))
    BY <1>5 DEF Add
  <2>2. e \in LogEntry /\ e.size = size /\ size \in Nat
    BY DEF LogEntry
  <2> HIDE DEF e
  <2>3. all \in Seq(LogEntry) /\ Bytes(all) = tracked + size
    BY <1>1, <2>2, BytesAppend
  <2> HIDE DEF all
  <2>4. /\ Bytes(all) = Bytes(SubSeq(all, 1, k)) + Bytes(entries')
        /\ Bytes(SubSeq(all, 1, k)) \in Nat /\ Bytes(entries') \in Nat
    BY <2>1, <2>3, BytesCut, BytesType
  <2>5. tracked' = Bytes(entries')
    BY <1>1, <2>1, <2>2, <2>3, <2>4
  <2>6. Bytes(entries') <= MaxBytes
    BY <2>1, <2>3, KeptFits
  <2>7. ~ destroyed'
    BY <1>5 DEF Add
  <2> QED
    BY <2>5, <2>6, <2>7 DEF AccountInv, TrackedIsHeld, Bytes
<1>6. CASE Flush
  BY <1>3, <1>6 DEF Flush, HandOver
<1>7. CASE TimerFires
  BY <1>3, <1>4, <1>7 DEF TimerFires, HandOver
<1>8. CASE ImmediateFires
  BY <1>3, <1>4, <1>8 DEF ImmediateFires, HandOver
<1>9. CASE Clear
  BY <1>3, <1>9 DEF Clear
<1>10. CASE Destroy
  BY <1>2, <1>10 DEF Destroy
<1>11. CASE Tick
  <2>1. DOMAIN entries' = DOMAIN entries
    BY <1>11 DEF Tick
  <2>2. \A j \in DOMAIN entries : entries[j] \in LogEntry
    BY DEF IInv, TypeOK
  <2>3. \A j \in DOMAIN entries : entries'[j].size = entries[j].size
    BY <1>11, <2>2 DEF Tick, LogEntry
  <2>4. [j \in DOMAIN entries' |-> entries'[j].size] = [j \in DOMAIN entries |-> entries[j].size]
    BY <2>1, <2>3, Zenon
  <2>5. Bytes(entries)' = Bytes(entries)
    BY <2>4, Zenon DEF Bytes
  <2> QED
    BY <1>11, <2>5 DEF Tick, AccountInv, TrackedIsHeld
<1>12. CASE UNCHANGED vars
  BY <1>4, <1>12 DEF vars
<1> QED
  BY <1>5, <1>6, <1>7, <1>8, <1>9, <1>10, <1>11, <1>12 DEF Next

LEMMA AccountHolds == Spec => []AccountInv
<1>1. Init => AccountInv
  BY BytesOfNothing DEF Init, AccountInv, TrackedIsHeld
<1>2. IInv /\ AccountInv /\ [Next]_vars => AccountInv'
  BY AccountKept
<1> QED
  BY <1>1, <1>2, Invariance, PTL DEF Spec

(* The tracker's running total is what is held, for any sizes and limits   *)
(* and any order of additions, evictions, flushes, clears and destroy().   *)
THEOREM TrackerIsExact == Spec => []TrackedIsHeld
<1>1. AccountInv => TrackedIsHeld
  BY DEF AccountInv
<1> QED
  BY <1>1, AccountHolds, PTL

(* Between calls both limits are kept, even by entries that alone exceed   *)
(* the memory limit.                                                       *)
THEOREM BothLimitsKept == Spec => []WithinLimits
<1>1. IInv /\ AccountInv => WithinLimits
  BY DEF IInv, SizeInv, AccountInv, WithinLimits
<1> QED
  BY <1>1, Invariance, AccountHolds, PTL

(* A destroyed buffer stays silent and empty, whatever is called on it.    *)
THEOREM DestroyedIsSilent == Spec => []SilentWhenDestroyed
<1>1. IInv /\ AccountInv => SilentWhenDestroyed
  BY DEF IInv, HandlesInv, AccountInv, SilentWhenDestroyed
<1> QED
  BY <1>1, Invariance, AccountHolds, PTL
=============================================================================
