---------------------------- MODULE RuntimeProofs ----------------------------
(***************************************************************************)
(* Proved of Runtime for any requests, signals, other libraries and        *)
(* bounds: one runtime captures at a time, destroy() strands no entry but  *)
(* those it was called from, the console is given back, and the settings   *)
(* of a runtime are in range, but for those validate() does not check.     *)
(*                                                                         *)
(* CaptureInv is inductive by itself: only init(), destroy() and the end   *)
(* of a drain touch the slot, the phases and the interceptors.  For the    *)
(* second theorem CallsInv says of every call of log() that is under way   *)
(* that its entry is its own and open, and was cut off if its logger is    *)
(* destroyed.  For the third, Chained follows the functions of the console *)
(* through every set that is closed under what they call, which takes the  *)
(* place of induction along the chain.                                     *)
(***************************************************************************)
EXTENDS Runtime, TLAPS, FiniteSetTheorems, SequenceTheorems

USE RuntimeAssumption DEF RuntimeAssumption

Phases == {"unused", "live", "draining", "closed"}
Fates == {"none", "open", "dropped", "held", "handed over", "stranded"}

CaptureInv ==
  /\ slot \in {None} \union Runtimes
  /\ Made \subseteq Runtimes
  /\ phase \in [Runtimes -> Phases]
  /\ OneCapture

LEMMA LiveIsSlot ==
  ASSUME CaptureInv
  PROVE  /\ \A r \in Runtimes : phase[r] = "live" <=> r = slot
         /\ enabled \subseteq {slot} \ {None}
         /\ None \notin Runtimes
BY DEF CaptureInv, OneCapture, None, Runtimes

LEMMA NextRuntime ==
  ASSUME CaptureInv, Cardinality(Made) < MaxInits
  PROVE  Cardinality(Made) + 1 \in Runtimes
<1>1. IsFiniteSet(1 .. MaxInits)
  BY FS_Interval
<1>2. IsFiniteSet(Made)
  BY <1>1, FS_Subset DEF CaptureInv, Runtimes
<1>3. Cardinality(Made) \in Nat
  BY <1>2, FS_CardinalityType
<1> QED BY <1>3 DEF Runtimes

LEMMA RetireCaptures ==
  ASSUME CaptureInv, NEW r \in Runtimes, Retire(r)
  PROVE  CaptureInv'
<1>1. /\ slot' = IF slot = r THEN None ELSE slot
      /\ enabled' = enabled \ {r}
      /\ settings' = settings
  BY DEF Retire, Cleared
<1>2. phase' = [phase EXCEPT ![r] = IF @ = "live" THEN "draining" ELSE @]
  BY DEF Retire, DestroyedPhase
<1>3. (slot \in {None} \union Runtimes /\ Made \subseteq Runtimes
       /\ phase \in [Runtimes -> Phases])'
  BY <1>1, <1>2 DEF CaptureInv, Made, Phases
<1>4. {q \in Runtimes : phase'[q] = "live"} = {slot'} \ {None}
  BY <1>1, <1>2, LiveIsSlot DEF CaptureInv
<1>5. enabled' = {q \in {slot'} \ {None} : settings'[q].interceptConsole}
  BY <1>1, LiveIsSlot DEF CaptureInv, OneCapture
<1> QED BY <1>3, <1>4, <1>5 DEF CaptureInv, OneCapture

(* What init() does before it makes a runtime leaves none. *)
LEMMA RetiredIsEmpty ==
  ASSUME CaptureInv
  PROVE  /\ Retired.phase \in [Runtimes -> Phases]
         /\ \A r \in Runtimes : Retired.phase[r] # "live"
         /\ \A r \in Runtimes : r # slot => Retired.phase[r] = phase[r]
         /\ Retired.enabled = {}
<1>1. CASE slot = None
  BY <1>1, LiveIsSlot DEF Retired, CaptureInv
<1>2. CASE slot # None
  <2>1. /\ Retired.phase = [phase EXCEPT ![slot] = IF @ = "live" THEN "draining" ELSE @]
        /\ Retired.enabled = enabled \ {slot}
    BY <1>2 DEF Retired, DestroyedPhase
  <2> QED BY <1>2, <2>1, LiveIsSlot DEF CaptureInv, Phases
<1> QED BY <1>1, <1>2

LEMMA InitWithCaptures ==
  ASSUME CaptureInv, NEW user, NEW env, InitWith(user, env)
  PROVE  CaptureInv'
<1> DEFINE r == Cardinality(Made) + 1
           config == Resolved(user, env)
<1>1. r \in Runtimes
  BY NextRuntime DEF InitWith
<1>2. Create(r, config) \/ CreateFails(config)
  BY DEF InitWith
<1> HIDE DEF r, config
<1>3. CASE Create(r, config)
  <2>1. /\ slot' = r /\ Made' = {r} \union Made
        /\ settings'[r] = config
    BY <1>3 DEF Create, Made
  <2>2. /\ phase' = [Retired.phase EXCEPT ![r] = "live"]
        /\ enabled' = IF config.interceptConsole THEN {r} ELSE {}
    BY <1>3, RetiredIsEmpty DEF Create
  <2>3. (slot \in {None} \union Runtimes /\ Made \subseteq Runtimes
         /\ phase \in [Runtimes -> Phases])'
    BY <1>1, <2>1, <2>2, RetiredIsEmpty DEF CaptureInv, Phases
  <2>4. {q \in Runtimes : phase'[q] = "live"} = {slot'} \ {None}
    BY <1>1, <2>1, <2>2, RetiredIsEmpty, LiveIsSlot
  <2>5. enabled' = {q \in {slot'} \ {None} : settings'[q].interceptConsole}
    BY <1>1, <2>1, <2>2, LiveIsSlot
  <2> QED BY <2>3, <2>4, <2>5 DEF CaptureInv, OneCapture
<1>4. CASE CreateFails(config)
  <2>1. /\ slot' = None /\ phase' = Retired.phase /\ enabled' = {}
        /\ settings' = settings
    BY <1>4, RetiredIsEmpty DEF CreateFails
  <2> QED BY <2>1, RetiredIsEmpty DEF CaptureInv, OneCapture, Made
<1> QED BY <1>2, <1>3, <1>4

LEMMA DrainedCaptures ==
  ASSUME CaptureInv, NEW r \in Runtimes, Drained(r)
  PROVE  CaptureInv'
<1>1. /\ phase[r] # "live" /\ phase' = [phase EXCEPT ![r] = "closed"]
      /\ UNCHANGED <<slot, settings, enabled>>
  BY DEF Drained, output
<1> QED BY <1>1 DEF CaptureInv, OneCapture, Made, Phases

LEMMA InitCaptures == Init => CaptureInv
BY DEF Init, CaptureInv, OneCapture, Made, Phases, None, Runtimes

LEMMA NextCaptures ==
  ASSUME CaptureInv, [Next]_vars
  PROVE  CaptureInv'
<1>0. ASSUME UNCHANGED <<slot, settings, phase, enabled>>
      PROVE  CaptureInv'
  BY <1>0 DEF CaptureInv, OneCapture, Made
<1>1. CASE InitRuntime
  BY <1>1, InitWithCaptures DEF InitRuntime
<1>2. ASSUME NEW r \in Runtimes, DestroyLogger(r)
      PROVE  CaptureInv'
  BY <1>2, RetireCaptures DEF DestroyLogger
<1>3. CASE Destroy
  <2>1. slot \in Runtimes /\ DestroyLogger(slot)
    BY <1>3 DEF Destroy, CaptureInv
  <2> QED BY <2>1, <1>2
<1>4. ASSUME NEW b \in BOOLEAN, Load(b)
      PROVE  CaptureInv'
  BY <1>4, InitWithCaptures DEF Load
<1>5. ASSUME NEW s \in Signals, Signal(s)
      PROVE  CaptureInv'
  <2>1. CASE slot = None
    BY <2>1, <1>5, <1>0 DEF Signal, pipeline, output
  <2>2. CASE slot # None
    <3>1. slot \in Runtimes /\ Retire(slot)
      BY <2>2, <1>5 DEF Signal, CaptureInv
    <3> QED BY <3>1, RetireCaptures
  <2> QED BY <2>1, <2>2
<1>6. ASSUME NEW r \in Runtimes, Drained(r)
      PROVE  CaptureInv'
  BY <1>6, DrainedCaptures
<1>7. CASE Finish
  BY <1>7, <1>0 DEF Finish
<1>8. ASSUME NEW r \in Runtimes, Log(r) \/ Flush(r)
      PROVE  CaptureInv'
  BY <1>8, <1>0 DEF Log, Flush, output
<1>9. ASSUME NEW b \in BOOLEAN, CallConsole(b)
      PROVE  CaptureInv'
  BY <1>9, <1>0 DEF CallConsole
<1>10. ASSUME NEW p \in Patches, Patch(p) \/ Unpatch(p)
       PROVE  CaptureInv'
  BY <1>10, <1>0 DEF Patch, Unpatch, pipeline
<1>11. ASSUME NEW s \in Signals, ShutdownEnds(s)
       PROVE  CaptureInv'
  BY <1>11, <1>0 DEF ShutdownEnds, pipeline, output
<1>12. CASE UNCHANGED vars
  BY <1>12, <1>0 DEF vars, pipeline, output
<1> QED
  BY <1>1, <1>2, <1>3, <1>4, <1>5, <1>6, <1>7, <1>8, <1>9, <1>10, <1>11, <1>12
  DEF Next

(* The runtime in the slot is the only one that accepts entries and the     *)
(* only one whose interceptor is enabled (init, destroy).                  *)
THEOREM OneRuntimeCaptures == Spec => []OneCapture
<1>1. CaptureInv /\ [Next]_vars => CaptureInv'
  BY NextCaptures
<1>2. CaptureInv => OneCapture
  BY DEF CaptureInv
<1> QED BY InitCaptures, <1>1, <1>2, PTL DEF Spec

-----------------------------------------------------------------------------
(***************************************************************************)
(* The calls of log() that are under way, with the fates, owners and       *)
(* phases they are judged by: each has an entry of its own, still open, of *)
(* the logger it was made on, and cut off if that is destroyed.            *)
(***************************************************************************)
CallsFit(calls, fates, owners, phases, cut) ==
  /\ calls \in Seq(Frame)
  /\ fates \in [Entries -> Fates] /\ owners \in [Entries -> {None} \union Runtimes]
  /\ cut \subseteq Entries
  /\ \A i \in 1 .. Len(calls) :
       /\ fates[calls[i].entry] = "open"
       /\ owners[calls[i].entry] = calls[i].runtime
       /\ phases[calls[i].runtime] # "live" => calls[i].entry \in cut
  /\ \A i, j \in 1 .. Len(calls) : calls[i].entry = calls[j].entry => i = j

NoneLost(fates, owners, phases, cut) ==
  \A e \in Entries : /\ fates[e] = "stranded" => e \in cut
                     /\ fates[e] = "held" =>
                          owners[e] \in Runtimes /\ phases[owners[e]] = "live"

Fit(calls, fates, owners, phases, cut) ==
  CallsFit(calls, fates, owners, phases, cut) /\ NoneLost(fates, owners, phases, cut)

CallsInv == CaptureInv /\ Fit(stack, fate, owner, phase, cutOff)

LEMMA FramesTyped ==
  ASSUME NEW calls \in Seq(Frame), NEW i \in 1 .. Len(calls)
  PROVE  calls[i] \in Frame /\ calls[i].entry \in Entries /\ calls[i].runtime \in Runtimes
<1>1. calls[i] \in Frame
  OBVIOUS
<1> QED BY <1>1 DEF Frame

(* A new call of log() on r takes an entry nobody uses. *)
LEMMA BeginFits ==
  ASSUME NEW r \in Runtimes, NEW viaConsole \in BOOLEAN,
         NEW below, NEW fates, NEW inside,
         Fit(below, fates, owner, phase, cutOff),
         \A e \in Entries : fate[e] = "none" => fates[e] = "none",
         Begin(r, viaConsole, below, fates, inside)
  PROVE  Fit(stack', fate', owner', phase, cutOff)
<1> DEFINE e == CHOOSE x \in Unlogged : TRUE
           frame == [runtime |-> r, entry |-> e, viaConsole |-> viaConsole]
<1>1. e \in Entries /\ fates[e] = "none"
  <2>1. Unlogged # {}
    BY DEF Begin
  <2>2. e \in Unlogged
    BY <2>1
  <2> QED BY <2>2 DEF Unlogged
<1>2. owner' = [owner EXCEPT ![e] = r]
  BY DEF Begin
<1>3. \/ /\ phase[r] = "live"
         /\ stack' = Append(below, frame) /\ fate' = [fates EXCEPT ![e] = "open"]
      \/ stack' = below /\ fate' = [fates EXCEPT ![e] = "dropped"]
  BY DEF Begin, Records
<1>4. frame \in Frame
  BY <1>1 DEF Frame
<1>5. /\ frame.runtime = r /\ frame.entry = e
  OBVIOUS
<1> HIDE DEF e, frame
<1>6. NoneLost(fate', owner', phase, cutOff)
  BY <1>1, <1>2, <1>3 DEF Fit, CallsFit, NoneLost, Fates
<1>7. \A i \in 1 .. Len(below) : below[i] \in Frame /\ below[i].entry # e
  BY <1>1, FramesTyped DEF Fit, CallsFit
<1>8. CallsFit(below, fate', owner', phase, cutOff)
  BY <1>1, <1>2, <1>3, <1>7 DEF Fit, CallsFit, Fates, Frame
<1>9. CASE stack' = below
  BY <1>6, <1>8, <1>9 DEF Fit
<1>10. CASE /\ phase[r] = "live"
            /\ stack' = Append(below, frame) /\ fate' = [fates EXCEPT ![e] = "open"]
  <2>1. below \in Seq(Frame) /\ stack' \in Seq(Frame) /\ Len(stack') = Len(below) + 1
    BY <1>4, <1>10 DEF Fit, CallsFit
  <2>2. /\ \A i \in 1 .. Len(below) : stack'[i] = below[i]
        /\ stack'[Len(below) + 1] = frame
    BY <1>4, <1>10, <2>1
  <2>3. fate'[e] = "open" /\ owner'[e] = r
    BY <1>1, <1>2, <1>10 DEF Fit, CallsFit
  <2>4. \A i \in 1 .. Len(stack') :
          /\ fate'[stack'[i].entry] = "open"
          /\ owner'[stack'[i].entry] = stack'[i].runtime
          /\ phase[stack'[i].runtime] # "live" => stack'[i].entry \in cutOff
    BY <1>5, <1>8, <1>10, <2>1, <2>2, <2>3 DEF CallsFit
  <2>5. \A i, j \in 1 .. Len(stack') : stack'[i].entry = stack'[j].entry => i = j
    BY <1>5, <1>7, <1>8, <2>1, <2>2 DEF CallsFit
  <2> QED BY <1>6, <1>8, <2>1, <2>4, <2>5 DEF Fit, CallsFit
<1> QED BY <1>3, <1>9, <1>10

(* destroy() of r: nothing stays in its buffer, its open calls are cut off. *)
LEMMA DestroyedFits ==
  ASSUME NEW r \in Runtimes, phase \in [Runtimes -> Phases],
         Fit(stack, fate, owner, phase, cutOff)
  PROVE  Fit(stack, DestroyedFate(r), owner, DestroyedPhase(r),
             cutOff \union OpenEntries(r))
<1> DEFINE fates == DestroyedFate(r)
           phases == DestroyedPhase(r)
           cut == cutOff \union OpenEntries(r)
<1>1. /\ fates = [e \in Entries |-> IF owner[e] = r /\ fate[e] = "held" /\ phase[r] = "live"
                                    THEN "handed over" ELSE fate[e]]
      /\ phases = [phase EXCEPT ![r] = IF @ = "live" THEN "draining" ELSE @]
  BY DEF DestroyedFate, DestroyedPhase
<1>2. \A i \in 1 .. Len(stack) : stack[i].runtime = r => stack[i].entry \in cut
  BY DEF OpenEntries, Fit, CallsFit
<1>3. cutOff \subseteq cut /\ cut \subseteq Entries
  <2>1. OpenEntries(r) \subseteq Entries
    BY FramesTyped DEF OpenEntries, Fit, CallsFit
  <2> QED BY <2>1 DEF Fit, CallsFit
<1>4. \A i \in 1 .. Len(stack) : stack[i] \in Frame
  BY DEF Fit, CallsFit
<1> HIDE DEF fates, phases, cut
<1>5. fates \in [Entries -> Fates]
  BY <1>1 DEF Fit, CallsFit, Fates
<1>6. \A i \in 1 .. Len(stack) : fates[stack[i].entry] = "open"
  BY <1>1, <1>4 DEF Fit, CallsFit, Frame
<1>7. \A i \in 1 .. Len(stack) : phases[stack[i].runtime] # "live" => stack[i].entry \in cut
  BY <1>1, <1>2, <1>3, <1>4 DEF Fit, CallsFit, Frame
<1>8. NoneLost(fates, owner, phases, cut)
  <2> SUFFICES ASSUME NEW e \in Entries
               PROVE  /\ fates[e] = "stranded" => e \in cut
                      /\ fates[e] = "held" =>
                           owner[e] \in Runtimes /\ phases[owner[e]] = "live"
    BY DEF NoneLost
  <2>1. fates[e] = "stranded" => e \in cut
    BY <1>1, <1>3 DEF Fit, NoneLost
  <2>2. ASSUME fates[e] = "held"
        PROVE  owner[e] \in Runtimes /\ phases[owner[e]] = "live"
    <3>1. fate[e] = "held" /\ owner[e] \in Runtimes /\ phase[owner[e]] = "live" /\ owner[e] # r
      BY <1>1, <2>2 DEF Fit, NoneLost
    <3> QED BY <1>1, <3>1
  <2> QED BY <2>1, <2>2
<1>9. CallsFit(stack, fates, owner, phases, cut)
  BY <1>3, <1>5, <1>6, <1>7 DEF Fit, CallsFit
<1> QED BY <1>8, <1>9 DEF Fit, fates, phases, cut

LEMMA RetireFits ==
  ASSUME CallsInv, NEW r \in Runtimes, Retire(r)
  PROVE  Fit(stack, fate, owner, phase, cutOff)'
<1>1. /\ fate' = DestroyedFate(r) /\ phase' = DestroyedPhase(r)
      /\ cutOff' = cutOff \union OpenEntries(r) /\ owner' = owner /\ stack' = stack
  BY DEF Retire
<1>2. Fit(stack, DestroyedFate(r), owner, DestroyedPhase(r), cutOff \union OpenEntries(r))
  BY DestroyedFits DEF CallsInv, CaptureInv
<1> QED BY <1>1, <1>2

(* A runtime that becomes live takes nothing away from anyone. *)
LEMMA LiveFits ==
  ASSUME NEW calls, NEW fates, NEW owners, NEW phases \in [Runtimes -> Phases], NEW cut,
         NEW r \in Runtimes, Fit(calls, fates, owners, phases, cut)
  PROVE  Fit(calls, fates, owners, [phases EXCEPT ![r] = "live"], cut)
<1>1. \A q : [phases EXCEPT ![r] = "live"][q] # "live" /\ q \in Runtimes => phases[q] # "live"
  OBVIOUS
<1>2. CallsFit(calls, fates, owners, [phases EXCEPT ![r] = "live"], cut)
  BY <1>1 DEF Fit, CallsFit, Frame
<1>3. NoneLost(fates, owners, [phases EXCEPT ![r] = "live"], cut)
  BY DEF Fit, CallsFit, NoneLost, Phases
<1> QED BY <1>2, <1>3 DEF Fit

LEMMA InitWithFits ==
  ASSUME CallsInv, NEW user, NEW env, InitWith(user, env)
  PROVE  Fit(stack, fate, owner, phase, cutOff)'
<1>1. Fit(stack, Retired.fate, owner, Retired.phase, Retired.cutOff)
  <2>1. CASE slot = None
    BY <2>1 DEF Retired, CallsInv
  <2>2. CASE slot # None
    <3>1. slot \in Runtimes
      BY <2>2 DEF CallsInv, CaptureInv
    <3>2. /\ Retired.fate = DestroyedFate(slot) /\ Retired.phase = DestroyedPhase(slot)
          /\ Retired.cutOff = cutOff \union OpenEntries(slot)
      BY <2>2 DEF Retired
    <3> QED BY <3>1, <3>2, DestroyedFits DEF CallsInv, CaptureInv
  <2> QED BY <2>1, <2>2
<1>2. /\ fate' = Retired.fate /\ cutOff' = Retired.cutOff
      /\ owner' = owner /\ stack' = stack
  BY DEF InitWith
<1>3. \/ phase' = Retired.phase
      \/ \E r \in Runtimes : phase' = [Retired.phase EXCEPT ![r] = "live"]
  BY NextRuntime DEF InitWith, Create, CreateFails, CallsInv
<1>4. Retired.phase \in [Runtimes -> Phases]
  BY RetiredIsEmpty DEF CallsInv
<1> QED BY <1>1, <1>2, <1>3, <1>4, LiveFits

LEMMA FinishFits ==
  ASSUME CallsInv, Finish
  PROVE  Fit(stack, fate, owner, phase, cutOff)'
<1> DEFINE frame == stack[Len(stack)]
           below == SubSeq(stack, 1, Len(stack) - 1)
           added == IF phase[frame.runtime] = "live" THEN "held" ELSE "stranded"
           fates(outcome) == [fate EXCEPT ![frame.entry] = outcome]
<1>0. phase' = phase /\ cutOff' = cutOff
  BY DEF Finish
<1>1. stack \in Seq(Frame) /\ Len(stack) \in Nat \ {0} /\ stack # << >>
  BY DEF CallsInv, Fit, CallsFit, Finish
<1>2. /\ frame \in Frame /\ frame.entry \in Entries /\ frame.runtime \in Runtimes
      /\ below \in Seq(Frame) /\ Len(below) = Len(stack) - 1
      /\ \A i \in 1 .. Len(below) : below[i] = stack[i]
  <2>1. frame \in Frame /\ frame.entry \in Entries /\ frame.runtime \in Runtimes
    BY <1>1, FramesTyped
  <2>2. /\ below \in Seq(Frame) /\ Len(below) = Len(stack) - 1
        /\ \A i \in 1 .. Len(below) : below[i] = stack[i]
    <3> DEFINE n == Len(stack) - 1
    <3>1. n \in 0 .. Len(stack) /\ 1 \in 1 .. Len(stack) + 1 /\ n \in 1 - 1 .. Len(stack)
      BY <1>1
    <3>2. below = SubSeq(stack, 1, n)
      OBVIOUS
    <3> HIDE DEF n, below
    <3>3. /\ below \in Seq(Frame) /\ Len(below) = IF 1 <= n THEN n - 1 + 1 ELSE 0
          /\ \A i \in 1 .. n - 1 + 1 : below[i] = stack[1 + i - 1]
      BY <1>1, <3>1, <3>2, SubSeqProperties
    <3>4. Len(below) = n /\ \A i \in 1 .. Len(below) : below[i] = stack[i]
      BY <3>1, <3>3
    <3> QED BY <3>3, <3>4 DEF n
  <2> QED BY <2>1, <2>2
<1>3. PICK outcome \in {added, "dropped"} :
        \/ \E onward, inside :
             Captures(onward, FALSE) /\ Begin(onward, TRUE, below, fates(outcome), inside)
        \/ stack' = below /\ fate' = fates(outcome) /\ owner' = owner
  BY DEF Finish
<1>4. frame = stack[Len(stack)]
  OBVIOUS
<1> HIDE DEF frame, below
<1>5. /\ fate[frame.entry] = "open" /\ owner[frame.entry] = frame.runtime
      /\ phase[frame.runtime] # "live" => frame.entry \in cutOff
      /\ \A i \in 1 .. Len(below) : below[i] \in Frame /\ below[i].entry # frame.entry
  BY <1>1, <1>2, <1>4 DEF CallsInv, Fit, CallsFit
<1>6. NoneLost(fates(outcome), owner, phase, cutOff)
  <2> SUFFICES ASSUME NEW e \in Entries
               PROVE  /\ fates(outcome)[e] = "stranded" => e \in cutOff
                      /\ fates(outcome)[e] = "held" =>
                           owner[e] \in Runtimes /\ phase[owner[e]] = "live"
    BY DEF NoneLost
  <2>1. CASE e # frame.entry
    BY <2>1 DEF CallsInv, Fit, CallsFit, NoneLost
  <2>2. CASE e = frame.entry
    <3>1. fates(outcome)[e] = outcome /\ owner[e] = frame.runtime
      BY <1>5, <2>2 DEF CallsInv, Fit, CallsFit
    <3>2. CASE phase[frame.runtime] = "live"
      BY <1>2, <1>3, <3>1, <3>2
    <3>3. CASE phase[frame.runtime] # "live"
      BY <1>3, <1>5, <2>2, <3>1, <3>3
    <3> QED BY <3>2, <3>3
  <2> QED BY <2>1, <2>2
<1>7. CallsFit(below, fates(outcome), owner, phase, cutOff)
  <2>1. fates(outcome) \in [Entries -> Fates]
    BY <1>2, <1>3 DEF CallsInv, Fit, CallsFit, Fates
  <2>2. \A i \in 1 .. Len(below) : fates(outcome)[below[i].entry] = "open"
    BY <1>1, <1>2, <1>5, SMTT(30) DEF CallsInv, Fit, CallsFit, Frame
  <2> QED BY <1>1, <1>2, <1>5, <2>1, <2>2 DEF CallsInv, Fit, CallsFit
<1>8. Fit(below, fates(outcome), owner, phase, cutOff)
  BY <1>6, <1>7 DEF Fit
<1>9. \A e \in Entries : fate[e] = "none" => fates(outcome)[e] = "none"
  BY <1>5 DEF CallsInv, Fit, CallsFit
<1>10. ASSUME NEW onward, NEW inside, Captures(onward, FALSE),
              Begin(onward, TRUE, below, fates(outcome), inside)
       PROVE  Fit(stack, fate, owner, phase, cutOff)'
  <2>1. onward \in Runtimes
    BY <1>10, LiveIsSlot DEF Captures, CallsInv, CaptureInv
  <2> HIDE DEF fates
  <2> QED BY <1>0, <1>8, <1>9, <1>10, <2>1, BeginFits
<1>11. CASE stack' = below /\ fate' = fates(outcome) /\ owner' = owner
  BY <1>0, <1>8, <1>11
<1> QED BY <1>3, <1>10, <1>11

LEMMA InitFits == Init => CallsInv
BY InitCaptures DEF Init, CallsInv, Fit, CallsFit, NoneLost, Fates, None

LEMMA NextFits ==
  ASSUME CallsInv, [Next]_vars
  PROVE  CallsInv'
<1> SUFFICES Fit(stack, fate, owner, phase, cutOff)'
  BY NextCaptures DEF CallsInv
<1> USE DEF CallsInv
<1>0. ASSUME UNCHANGED <<stack, fate, owner, phase, cutOff>>
      PROVE  Fit(stack, fate, owner, phase, cutOff)'
  BY <1>0 DEF Fit, CallsFit, NoneLost
<1>1. CASE InitRuntime
  BY <1>1, InitWithFits DEF InitRuntime
<1>2. ASSUME NEW r \in Runtimes, DestroyLogger(r)
      PROVE  Fit(stack, fate, owner, phase, cutOff)'
  BY <1>2, RetireFits DEF DestroyLogger
<1>3. CASE Destroy
  <2>1. slot \in Runtimes /\ DestroyLogger(slot)
    BY <1>3 DEF Destroy, CaptureInv
  <2> QED BY <2>1, <1>2
<1>4. ASSUME NEW b \in BOOLEAN, Load(b)
      PROVE  Fit(stack, fate, owner, phase, cutOff)'
  BY <1>4, InitWithFits DEF Load
<1>5. ASSUME NEW s \in Signals, Signal(s)
      PROVE  Fit(stack, fate, owner, phase, cutOff)'
  <2>1. CASE slot = None
    BY <2>1, <1>5, <1>0 DEF Signal, pipeline
  <2>2. CASE slot # None
    <3>1. slot \in Runtimes /\ Retire(slot)
      BY <2>2, <1>5 DEF Signal, CaptureInv
    <3> QED BY <3>1, RetireFits
  <2> QED BY <2>1, <2>2
<1>6. ASSUME NEW r \in Runtimes, Drained(r)
      PROVE  Fit(stack, fate, owner, phase, cutOff)'
  <2>1. /\ phase[r] # "live" /\ phase' = [phase EXCEPT ![r] = "closed"]
        /\ UNCHANGED <<stack, fate, owner, cutOff>>
    BY <1>6 DEF Drained
  <2>2. \A q \in Runtimes : phase'[q] = "live" <=> phase[q] = "live"
    BY <2>1 DEF CaptureInv
  <2>3. NoneLost(fate, owner, phase', cutOff)
    BY <2>1 DEF Fit, CallsFit, NoneLost, CaptureInv
  <2>4. CallsFit(stack, fate, owner, phase', cutOff)
    BY <2>2, FramesTyped DEF Fit, CallsFit
  <2> QED BY <2>1, <2>3, <2>4 DEF Fit
<1>7. CASE Finish
  BY <1>7, FinishFits
<1>8. ASSUME NEW r \in Runtimes, Log(r)
      PROVE  Fit(stack, fate, owner, phase, cutOff)'
  <2>1. phase' = phase /\ cutOff' = cutOff /\ Begin(r, FALSE, stack, fate, processing)
    BY <1>8 DEF Log
  <2> QED BY <2>1, BeginFits
<1>9. ASSUME NEW r \in Runtimes, Flush(r)
      PROVE  Fit(stack, fate, owner, phase, cutOff)'
  <2>1. /\ fate' = [e \in Entries |-> IF owner[e] = r /\ fate[e] = "held"
                                      THEN "handed over" ELSE fate[e]]
        /\ UNCHANGED <<stack, owner, phase, cutOff>>
    BY <1>9 DEF Flush
  <2>2. NoneLost(fate', owner, phase, cutOff)
    BY <2>1 DEF Fit, NoneLost
  <2>3. CallsFit(stack, fate', owner, phase, cutOff)
    BY <2>1, FramesTyped DEF Fit, CallsFit, Fates
  <2> QED BY <2>1, <2>2, <2>3 DEF Fit
<1>10. ASSUME NEW b \in BOOLEAN, CallConsole(b)
       PROVE  Fit(stack, fate, owner, phase, cutOff)'
  <2>1. PICK f : Captures(f, b) /\ Begin(f, TRUE, stack, fate, processing)
    BY <1>10 DEF CallConsole
  <2>2. f \in Runtimes
    BY <2>1, LiveIsSlot DEF Captures, CaptureInv
  <2>3. phase' = phase /\ cutOff' = cutOff
    BY <1>10 DEF CallConsole
  <2> QED BY <2>1, <2>2, <2>3, BeginFits
<1>11. ASSUME NEW p \in Patches, Patch(p) \/ Unpatch(p)
       PROVE  Fit(stack, fate, owner, phase, cutOff)'
  BY <1>11, <1>0 DEF Patch, Unpatch, pipeline
<1>12. ASSUME NEW s \in Signals, ShutdownEnds(s)
       PROVE  Fit(stack, fate, owner, phase, cutOff)'
  BY <1>12, <1>0 DEF ShutdownEnds, pipeline
<1>13. CASE UNCHANGED vars
  BY <1>13, <1>0 DEF vars, pipeline
<1> QED
  BY <1>1, <1>2, <1>3, <1>4, <1>5, <1>6, <1>7, <1>8, <1>9, <1>10, <1>11, <1>12, <1>13
  DEF Next

(* destroy() strands an entry only if it is called from the label providers *)
(* of that entry (LogService.log, destroy); what was added before has left *)
(* the buffer by the time no one flushes it any more.                      *)
THEOREM OnlyReentrantEntriesLost == Spec => []LostOnlyReentrant
<1>1. CallsInv /\ [Next]_vars => CallsInv'
  BY NextFits
<1>2. CallsInv => LostOnlyReentrant
  BY DEF CallsInv, Fit, NoneLost, LostOnlyReentrant
<1> QED BY InitFits, <1>1, <1>2, PTL DEF Spec

-----------------------------------------------------------------------------
(***************************************************************************)
(* The chain of the console: from the function installed, c, by what each  *)
(* function calls, n.                                                      *)
(***************************************************************************)
Closed(S, n) == \A g \in S \ {Native} : n[g] \in S

Chain(c, n) ==
  {f \in Functions : \A S \in SUBSET Functions : c \in S /\ Closed(S, n) => f \in S}

Covers(n) == {p \in Patches : n[p] # p}

(* What can be in the chain when the runtimes made were made. *)
Known(n, made) == {Native} \union made \union Covers(n)

(* With on the enabled wrappers: whatever is installed or called was made, *)
(* no runtime calls an enabled wrapper, a dead wrapper that is still in    *)
(* the chain is what some patch found installed, and without patches an    *)
(* enabled wrapper is the one installed.                                   *)
Chained(c, n, made, on) ==
  /\ made \subseteq Runtimes /\ on \subseteq made
  /\ n \in [Runtimes \union Patches -> Functions]
  /\ c \in Known(n, made)
  /\ \A g \in made \union Covers(n) : n[g] \in Known(n, made)
  /\ \A r \in Runtimes \ made : n[r] = r
  /\ \A g \in made : n[g] \notin on
  /\ \A r \in made \ on : r \in Chain(c, n) => \E p \in Covers(n) : n[p] = r
  /\ Covers(n) = {} => on \subseteq {c}

(* The chain has what is installed, and is closed.                         *)
LEMMA ChainFacts ==
  ASSUME NEW n \in [Runtimes \union Patches -> Functions], NEW c \in Functions
  PROVE  /\ Chain(c, n) \subseteq Functions
         /\ c \in Chain(c, n)
         /\ Closed(Chain(c, n), n)
<1>1. Chain(c, n) \subseteq Functions /\ c \in Chain(c, n)
  BY DEF Chain
<1>2. ASSUME NEW g \in Chain(c, n) \ {Native}
      PROVE  n[g] \in Chain(c, n)
  <2>1. g \in Runtimes \union Patches
    BY <1>1 DEF Functions
  <2>2. n[g] \in Functions
    BY <2>1
  <2>3. ASSUME NEW S \in SUBSET Functions, c \in S, Closed(S, n)
        PROVE  n[g] \in S
    BY <2>3 DEF Chain, Closed
  <2> QED BY <2>2, <2>3 DEF Chain
<1> QED BY <1>1, <1>2 DEF Closed

(* A set of functions that is closed and has what is installed has all. *)
LEMMA ChainWithin ==
  ASSUME NEW n, NEW c, NEW S \in SUBSET Functions, c \in S, Closed(S, n)
  PROVE  Chain(c, n) \subseteq S
BY DEF Chain

(* What is not installed itself is called by another function in the chain. *)
LEMMA ChainCalls ==
  ASSUME NEW n \in [Runtimes \union Patches -> Functions], NEW c \in Functions,
         NEW f \in Chain(c, n), f # c
  PROVE  \E g \in Chain(c, n) \ {Native} : n[g] = f
<1> DEFINE S == Chain(c, n) \ {f}
<1>1. S \in SUBSET Functions /\ c \in S
  BY ChainFacts
<1>2. ~ Closed(S, n)
  <2>1. f \notin S
    OBVIOUS
  <2> HIDE DEF S
  <2> QED BY <1>1, <2>1, ChainWithin
<1>3. PICK g \in S \ {Native} : n[g] \notin S
  BY <1>2 DEF Closed
<1>4. n[g] \in Chain(c, n)
  BY <1>3, ChainFacts DEF Closed
<1> QED BY <1>3, <1>4

(* The chain consists of what was made.                                    *)
LEMMA ChainKnown ==
  ASSUME NEW c, NEW n, NEW made, NEW on, Chained(c, n, made, on)
  PROVE  /\ made \subseteq Runtimes /\ on \subseteq made
         /\ n \in [Runtimes \union Patches -> Functions]
         /\ c \in Functions /\ Known(n, made) \subseteq Functions
         /\ Chain(c, n) \subseteq Known(n, made) /\ c \in Known(n, made)
<1>1. Known(n, made) \subseteq Functions /\ c \in Known(n, made)
  BY DEF Chained, Known, Covers, Functions
<1>2. Closed(Known(n, made), n)
  BY DEF Chained, Known, Closed
<1>3. Chain(c, n) \subseteq Known(n, made)
  BY <1>1, <1>2, ChainWithin
<1> QED BY <1>1, <1>3 DEF Chained

(* A function that the chain leads to leads no further than the chain. *)
LEMMA ChainShrinks ==
  ASSUME NEW n \in [Runtimes \union Patches -> Functions], NEW c \in Functions,
         NEW d \in Chain(c, n)
  PROVE  Chain(d, n) \subseteq Chain(c, n)
BY ChainFacts, ChainWithin

(* restore() and disabling: whoever r was covered by is a patch.           *)
LEMMA RestoredChained ==
  ASSUME NEW c, NEW n, NEW made, NEW on, Chained(c, n, made, on), NEW r \in Runtimes
  PROVE  Chained(IF c = r THEN n[r] ELSE c, n, made, on \ {r})
<1> DEFINE d == IF c = r THEN n[r] ELSE c
<1>0. /\ made \subseteq Runtimes /\ on \subseteq made
      /\ n \in [Runtimes \union Patches -> Functions]
      /\ c \in Functions /\ Known(n, made) \subseteq Functions
      /\ Chain(c, n) \subseteq Known(n, made) /\ c \in Known(n, made)
  BY ChainKnown
<1>1. d \in Known(n, made)
  <2>1. c = r => r \in made
    BY <1>0 DEF Known, Covers
  <2> QED BY <1>0, <2>1 DEF Chained
<1>2. d \in Chain(c, n)
  BY <1>0, ChainFacts DEF Closed
<1>3. Chain(d, n) \subseteq Chain(c, n)
  BY <1>0, <1>2, ChainShrinks
<1>4. r \in on => d # r
  BY DEF Chained
<1> HIDE DEF d
<1>5. ASSUME r \in on, r \in Chain(d, n)
      PROVE  \E p \in Covers(n) : n[p] = r
  <2>1. PICK g \in Chain(d, n) \ {Native} : n[g] = r
    BY <1>0, <1>1, <1>4, <1>5, ChainCalls
  <2>2. g \in Known(n, made)
    BY <1>0, <1>3, <2>1
  <2>3. g \notin made
    BY <1>5, <2>1 DEF Chained
  <2> QED BY <2>1, <2>2, <2>3 DEF Known
<1>6. ASSUME NEW q \in made \ (on \ {r}), q \in Chain(d, n)
      PROVE  \E p \in Covers(n) : n[p] = q
  <2>1. CASE q \in on
    BY <1>5, <1>6, <2>1
  <2>2. CASE q \notin on
    BY <1>3, <1>6, <2>2 DEF Chained
  <2> QED BY <2>1, <2>2
<1>7. ASSUME Covers(n) = {}
      PROVE  on \ {r} \subseteq {d}
  BY <1>7 DEF Chained, d
<1>8. Chained(d, n, made, on \ {r})
  BY <1>1, <1>6, <1>7 DEF Chained
<1> QED BY <1>8 DEF d

(* A runtime that is created keeps what it finds installed.                *)
LEMMA CreatedChained ==
  ASSUME NEW c, NEW n, NEW made, Chained(c, n, made, {}), NEW r \in Runtimes \ made
  PROVE  /\ Chained(r, [n EXCEPT ![r] = c], made \union {r}, {r})
         /\ Chained(c, n, made \union {r}, {})
<1>0. /\ made \subseteq Runtimes
      /\ n \in [Runtimes \union Patches -> Functions]
      /\ c \in Functions /\ Known(n, made) \subseteq Functions
      /\ Chain(c, n) \subseteq Known(n, made) /\ c \in Known(n, made)
      /\ n[r] = r
  <2>1. n[r] = r
    BY DEF Chained
  <2>2. \A on : Chained(c, n, made, on) =>
                 /\ made \subseteq Runtimes
                 /\ n \in [Runtimes \union Patches -> Functions]
                 /\ c \in Functions /\ Known(n, made) \subseteq Functions
                 /\ Chain(c, n) \subseteq Known(n, made) /\ c \in Known(n, made)
    BY ChainKnown
  <2> QED BY <2>1, <2>2
<1>1. r \notin Known(n, made)
  BY DEF Known, Covers
<1>2. Chained(c, n, made \union {r}, {})
  <2>1. Known(n, made \union {r}) = Known(n, made) \union {r}
    BY DEF Known
  <2>2. r \notin Chain(c, n)
    BY <1>0, <1>1
  <2> QED BY <1>0, <2>1, <2>2 DEF Chained
<1>3. PICK m : m = [n EXCEPT ![r] = c]
  OBVIOUS
<1>4. /\ m \in [Runtimes \union Patches -> Functions] /\ m[r] = c
      /\ \A g \in Runtimes \union Patches : g # r => m[g] = n[g]
  BY <1>0, <1>3
<1>5. Covers(m) = Covers(n)
  BY <1>4 DEF Covers
<1>6. Known(m, made \union {r}) = Known(n, made) \union {r}
  BY <1>5 DEF Known
<1>7. Chain(r, m) \subseteq Chain(c, n) \union {r}
  <2> DEFINE S == Chain(c, n) \union {r}
  <2>1. S \in SUBSET Functions /\ r \in S
    BY <1>0 DEF Functions
  <2>2. ASSUME NEW g \in S \ {Native}
        PROVE  m[g] \in S
    <3>1. CASE g = r
      BY <1>0, <1>4, <3>1, ChainFacts
    <3>2. CASE g # r
      <4>1. g \in Chain(c, n) \ {Native} /\ g \in Runtimes \union Patches
        BY <1>0, <3>2 DEF Functions
      <4>2. n[g] \in Chain(c, n)
        BY <1>0, <4>1, ChainFacts DEF Closed
      <4> QED BY <1>4, <3>2, <4>1, <4>2
    <3> QED BY <3>1, <3>2
  <2>3. Closed(S, m)
    BY <2>2 DEF Closed
  <2> HIDE DEF S
  <2>4. Chain(r, m) \subseteq S
    BY <2>1, <2>3, ChainWithin
  <2> QED BY <2>4 DEF S
<1>8. \A g \in (made \union {r}) \union Covers(m) : m[g] \in Known(m, made \union {r})
  <2> SUFFICES ASSUME NEW g \in (made \union {r}) \union Covers(m)
               PROVE  m[g] \in Known(n, made) \union {r}
    BY <1>6
  <2>1. CASE g = r
    BY <1>0, <1>4, <2>1
  <2>2. CASE g # r
    <3>1. g \in made \union Covers(n) /\ g \in Runtimes \union Patches
      BY <1>0, <1>5, <2>2 DEF Covers
    <3> QED BY <1>4, <2>2, <3>1 DEF Chained
  <2> QED BY <2>1, <2>2
<1>9. \A g \in made \union {r} : m[g] \notin {r}
  <2> SUFFICES ASSUME NEW g \in made \union {r}
               PROVE  m[g] \in Known(n, made)
    BY <1>1
  <2>1. CASE g = r
    BY <1>0, <1>4, <2>1
  <2>2. CASE g # r
    BY <1>0, <1>4, <2>2 DEF Chained
  <2> QED BY <2>1, <2>2
<1>10. ASSUME NEW q \in (made \union {r}) \ {r}, q \in Chain(r, m)
       PROVE  \E p \in Covers(m) : m[p] = q
  <2>1. q \in Chain(c, n)
    BY <1>7, <1>10
  <2>2. PICK p \in Covers(n) : n[p] = q
    BY <2>1, <1>10 DEF Chained
  <2>3. m[p] = n[p]
    BY <1>4, <2>2 DEF Covers
  <2> QED BY <1>5, <2>2, <2>3
<1>11. /\ made \union {r} \subseteq Runtimes /\ {r} \subseteq made \union {r}
       /\ r \in Known(m, made \union {r})
       /\ \A q \in Runtimes \ (made \union {r}) : m[q] = q
  BY <1>0, <1>4, <1>6 DEF Chained
<1>12. Chained(r, m, made \union {r}, {r})
  BY <1>4, <1>8, <1>9, <1>10, <1>11 DEF Chained
<1> QED BY <1>2, <1>3, <1>12

(* Another library wraps what is installed. *)
LEMMA PatchedChained ==
  ASSUME NEW c, NEW n, NEW made, NEW on, Chained(c, n, made, on),
         NEW p \in Patches \ Covers(n)
  PROVE  Chained(p, [n EXCEPT ![p] = c], made, on)
<1>0. /\ made \subseteq Runtimes /\ on \subseteq made
      /\ n \in [Runtimes \union Patches -> Functions]
      /\ c \in Functions /\ Known(n, made) \subseteq Functions
      /\ Chain(c, n) \subseteq Known(n, made) /\ c \in Known(n, made)
  BY ChainKnown
<1>1. p \notin Known(n, made) /\ p \notin Runtimes
  BY <1>0 DEF Known
<1>2. PICK m : m = [n EXCEPT ![p] = c]
  OBVIOUS
<1>3. /\ m \in [Runtimes \union Patches -> Functions] /\ m[p] = c
      /\ \A g \in Runtimes \union Patches : g # p => m[g] = n[g]
  BY <1>0, <1>2
<1>4. Covers(m) = Covers(n) \union {p}
  BY <1>0, <1>1, <1>3 DEF Covers
<1>5. Known(m, made) = Known(n, made) \union {p}
  BY <1>4 DEF Known
<1>6. Chain(p, m) \subseteq Chain(c, n) \union {p}
  <2> DEFINE S == Chain(c, n) \union {p}
  <2>1. S \in SUBSET Functions /\ p \in S
    BY <1>0 DEF Functions
  <2>2. ASSUME NEW g \in S \ {Native}
        PROVE  m[g] \in S
    <3>1. CASE g = p
      BY <1>0, <1>3, <3>1, ChainFacts
    <3>2. CASE g # p
      <4>1. g \in Chain(c, n) \ {Native} /\ g \in Runtimes \union Patches
        BY <1>0, <2>2, <3>2 DEF Functions
      <4>2. n[g] \in Chain(c, n)
        BY <1>0, <4>1, ChainFacts DEF Closed
      <4> QED BY <1>3, <3>2, <4>1, <4>2
    <3> QED BY <3>1, <3>2
  <2>3. Closed(S, m)
    BY <2>2 DEF Closed
  <2> HIDE DEF S
  <2>4. Chain(p, m) \subseteq S
    BY <2>1, <2>3, ChainWithin
  <2> QED BY <2>4 DEF S
<1>7. \A g \in made \union Covers(m) : m[g] \in Known(m, made)
  <2> SUFFICES ASSUME NEW g \in made \union Covers(m)
               PROVE  m[g] \in Known(n, made) \union {p}
    BY <1>5
  <2>1. CASE g = p
    BY <1>0, <1>3, <2>1
  <2>2. CASE g # p
    <3>1. g \in made \union Covers(n) /\ g \in Runtimes \union Patches
      BY <1>0, <1>4, <2>2 DEF Covers
    <3> QED BY <1>3, <2>2, <3>1 DEF Chained
  <2> QED BY <2>1, <2>2
<1>8. \A g \in Runtimes : m[g] = n[g]
  BY <1>1, <1>3
<1>9. ASSUME NEW q \in made \ on, q \in Chain(p, m)
      PROVE  \E x \in Covers(m) : m[x] = q
  <2>1. q \in Chain(c, n)
    BY <1>0, <1>1, <1>6, <1>9
  <2>2. PICK x \in Covers(n) : n[x] = q
    BY <2>1, <1>9 DEF Chained
  <2>3. x # p /\ x \in Patches
    BY <2>2 DEF Covers
  <2> QED BY <1>3, <1>4, <2>2, <2>3
<1>10. /\ p \in Known(m, made) /\ Covers(m) # {}
       /\ \A r \in Runtimes \ made : m[r] = r
       /\ \A g \in made : m[g] \notin on
  BY <1>0, <1>4, <1>5, <1>8 DEF Chained
<1>11. Chained(p, m, made, on)
  BY <1>0, <1>3, <1>7, <1>9, <1>10 DEF Chained
<1> QED BY <1>2, <1>11

(* It puts back what it found. *)
LEMMA UnpatchedChained ==
  ASSUME NEW c, NEW n, NEW made, NEW on, Chained(c, n, made, on),
         NEW p \in Patches, p \in Chain(c, n)
  PROVE  Chained(n[p], n, made, on)
<1>1. /\ made \subseteq Runtimes /\ n \in [Runtimes \union Patches -> Functions]
      /\ c \in Functions /\ Chain(c, n) \subseteq Known(n, made)
  BY ChainKnown
<1>2. p \in Covers(n)
  BY <1>1 DEF Known
<1>3. n[p] \in Known(n, made)
  BY <1>2 DEF Chained
<1>4. n[p] \in Chain(c, n)
  BY <1>1, ChainFacts DEF Closed
<1>5. Chain(n[p], n) \subseteq Chain(c, n)
  BY <1>1, <1>4, ChainShrinks
<1>6. PICK d : d = n[p]
  OBVIOUS
<1>7. Chained(d, n, made, on)
  BY <1>2, <1>3, <1>5, <1>6 DEF Chained
<1> QED BY <1>6, <1>7

(* Without patches nobody but the live wrapper or the platform is          *)
(* installed, and a dead wrapper in the chain was found by a patch.        *)
LEMMA ChainedUnwinds ==
  ASSUME NEW c, NEW n, NEW made, NEW on, Chained(c, n, made, on)
  PROVE  /\ Covers(n) = {} => c \in on \union {f \in {Native} : on = {}}
         /\ \A r \in made \ on : r \in Chain(c, n) => \E p \in Covers(n) : n[p] = r
<1>1. /\ n \in [Runtimes \union Patches -> Functions] /\ c \in Functions
      /\ c \in Known(n, made) /\ made \subseteq Runtimes
  BY ChainKnown
<1>2. ASSUME Covers(n) = {}
      PROVE  c \in on \union {f \in {Native} : on = {}}
  <2>1. c \in {Native} \union made
    BY <1>1, <1>2 DEF Known
  <2>2. c \in made => c \in on
    BY <1>1, <1>2, ChainFacts DEF Chained
  <2>3. c = Native => on = {}
    <3>1. on \subseteq {c} /\ on \subseteq Runtimes
      BY <1>2 DEF Chained
    <3> QED BY <3>1
  <2> QED BY <2>1, <2>2, <2>3
<1>3. \A r \in made \ on : r \in Chain(c, n) => \E p \in Covers(n) : n[p] = r
  BY DEF Chained
<1> QED BY <1>2, <1>3

(* The console of the process, whose runtimes are numbered as they are made. *)
ChainInv ==
  /\ Chained(console, next, Made, enabled)
  /\ \E k \in Nat : Made = 1 .. k

(* The number of the next runtime is not in use. *)
LEMMA NewRuntime ==
  ASSUME CaptureInv, ChainInv, Cardinality(Made) < MaxInits
  PROVE  /\ Cardinality(Made) + 1 \in Runtimes \ Made
         /\ \E k \in Nat : Made \union {Cardinality(Made) + 1} = 1 .. k
<1>1. PICK k \in Nat : Made = 1 .. k
  BY DEF ChainInv
<1>2. Cardinality(Made) = k
  <2>1. 1 \in Int /\ k \in Int /\ (1 > k => k = 0)
    OBVIOUS
  <2>2. Cardinality(1 .. k) = IF 1 > k THEN 0 ELSE k - 1 + 1
    BY <2>1, FS_Interval
  <2> QED BY <1>1, <2>1, <2>2
<1>3. k + 1 \notin 1 .. k /\ 1 .. k \union {k + 1} = 1 .. (k + 1)
  OBVIOUS
<1> QED BY <1>1, <1>2, <1>3, NextRuntime

(* destroy() of a runtime, that of the slot or an older one.               *)
LEMMA RetireChained ==
  ASSUME ChainInv, NEW r \in Runtimes, Retire(r)
  PROVE  ChainInv'
<1>1. /\ console' = IF console = r THEN next[r] ELSE console
      /\ enabled' = enabled \ {r} /\ next' = next /\ Made' = Made
  BY DEF Retire, Restored, Made
<1>2. Chained(IF console = r THEN next[r] ELSE console, next, Made, enabled \ {r})
  BY RestoredChained DEF ChainInv
<1> QED BY <1>1, <1>2 DEF ChainInv

(* What init() does before it makes a runtime. *)
LEMMA RetiredChained ==
  ASSUME CaptureInv, ChainInv
  PROVE  Chained(Retired.console, next, Made, {})
<1>1. Retired.enabled = {}
  BY RetiredIsEmpty
<1>2. CASE slot = None
  BY <1>1, <1>2 DEF Retired, ChainInv
<1>3. CASE slot # None
  <2>1. slot \in Runtimes
    BY <1>3 DEF CaptureInv
  <2>2. /\ Retired.console = IF console = slot THEN next[slot] ELSE console
        /\ Retired.enabled = enabled \ {slot}
    BY <1>3 DEF Retired, Restored
  <2>3. Chained(IF console = slot THEN next[slot] ELSE console, next, Made, enabled \ {slot})
    BY <2>1, RestoredChained DEF ChainInv
  <2> QED BY <1>1, <2>2, <2>3
<1> QED BY <1>2, <1>3

(* init(), also when it fails half way.                                    *)
LEMMA InitWithChained ==
  ASSUME CaptureInv, ChainInv, NEW user, NEW env, InitWith(user, env)
  PROVE  ChainInv'
<1> DEFINE r == Cardinality(Made) + 1
           config == Resolved(user, env)
<1>1. r \in Runtimes \ Made /\ \E k \in Nat : Made \union {r} = 1 .. k
  BY NewRuntime DEF InitWith
<1>2. Create(r, config) \/ CreateFails(config)
  BY DEF InitWith
<1>3. PICK c : c = Retired.console
  OBVIOUS
<1>4. Chained(c, next, Made, {})
  BY <1>3, RetiredChained
<1>5. Retired.enabled = {}
  BY RetiredIsEmpty
<1> HIDE DEF r, config
<1>6. /\ Chained(r, [next EXCEPT ![r] = c], Made \union {r}, {r})
      /\ Chained(c, next, Made \union {r}, {})
  BY <1>1, <1>4, CreatedChained
<1>7. CASE Create(r, config)
  <2>1. Made' = Made \union {r}
    BY <1>7 DEF Create, Made
  <2>2. \/ next' = [next EXCEPT ![r] = c] /\ console' = r /\ enabled' = {r}
        \/ next' = next /\ console' = c /\ enabled' = {}
    BY <1>3, <1>5, <1>7 DEF Create
  <2> QED BY <1>1, <1>6, <2>1, <2>2 DEF ChainInv
<1>8. CASE CreateFails(config)
  <2>1. Made' = Made /\ next' = next /\ console' = c /\ enabled' = {}
    BY <1>3, <1>5, <1>8 DEF CreateFails, Made
  <2> QED BY <1>4, <2>1 DEF ChainInv
<1> QED BY <1>2, <1>7, <1>8

(* The console as the process finds it.                                    *)
LEMMA InitChained == Init => ChainInv
<1> SUFFICES ASSUME Init
             PROVE  ChainInv
  OBVIOUS
<1>1. /\ console = Native /\ next = [f \in Runtimes \union Patches |-> f]
      /\ enabled = {} /\ Made = {}
  BY DEF Init, Made
<1>2. Covers(next) = {}
  BY <1>1 DEF Covers
<1>3. next \in [Runtimes \union Patches -> Functions]
  BY <1>1 DEF Functions
<1>4. Chained(console, next, {}, {})
  BY <1>1, <1>2, <1>3 DEF Chained, Known
<1>5. {} = 1 .. 0 /\ 0 \in Nat
  OBVIOUS
<1> QED BY <1>1, <1>4, <1>5 DEF ChainInv

(* InChain is membership in the chain.                                     *)
LEMMA InChainDef ==
  ASSUME NEW f \in Functions
  PROVE  InChain(f) <=> f \in Chain(console, next)
BY DEF InChain, Chain, Closed

(* Every step keeps the chain in order.                                    *)
LEMMA NextChained ==
  ASSUME CaptureInv, ChainInv, [Next]_vars
  PROVE  ChainInv'
<1>0. ASSUME UNCHANGED <<console, next, settings, enabled>>
      PROVE  ChainInv'
  BY <1>0 DEF ChainInv, Made
<1>1. CASE InitRuntime
  BY <1>1, InitWithChained DEF InitRuntime
<1>2. ASSUME NEW r \in Runtimes, DestroyLogger(r)
      PROVE  ChainInv'
  BY <1>2, RetireChained DEF DestroyLogger
<1>3. CASE Destroy
  <2>1. slot \in Runtimes /\ DestroyLogger(slot)
    BY <1>3 DEF Destroy, CaptureInv
  <2> QED BY <2>1, <1>2
<1>4. ASSUME NEW b \in BOOLEAN, Load(b)
      PROVE  ChainInv'
  BY <1>4, InitWithChained DEF Load
<1>5. ASSUME NEW s \in Signals, Signal(s)
      PROVE  ChainInv'
  <2>1. CASE slot = None
    BY <2>1, <1>5, <1>0 DEF Signal, pipeline, output
  <2>2. CASE slot # None
    <3>1. slot \in Runtimes /\ Retire(slot)
      BY <2>2, <1>5 DEF Signal, CaptureInv
    <3> QED BY <3>1, RetireChained
  <2> QED BY <2>1, <2>2
<1>6. ASSUME NEW p \in Patches, Patch(p)
      PROVE  ChainInv'
  <2>1. /\ p \in Patches \ Covers(next)
        /\ console' = p /\ next' = [next EXCEPT ![p] = console]
        /\ enabled' = enabled /\ Made' = Made
    BY <1>6 DEF Patch, Patched, Covers, pipeline, Made
  <2>2. Chained(p, [next EXCEPT ![p] = console], Made, enabled)
    BY <2>1, PatchedChained DEF ChainInv
  <2> QED BY <2>1, <2>2 DEF ChainInv
<1>7. ASSUME NEW p \in Patches, Unpatch(p)
      PROVE  ChainInv'
  <2>1. /\ InChain(p) /\ console' = next[p]
        /\ next' = next /\ enabled' = enabled /\ Made' = Made
    BY <1>7 DEF Unpatch, pipeline, Made
  <2>2. p \in Chain(console, next)
    BY <2>1, InChainDef DEF Functions
  <2>3. Chained(next[p], next, Made, enabled)
    BY <2>2, UnpatchedChained DEF ChainInv
  <2> QED BY <2>1, <2>3 DEF ChainInv
<1>8. CASE Finish
  BY <1>8, <1>0 DEF Finish
<1>9. ASSUME NEW r \in Runtimes, Log(r) \/ Flush(r) \/ Drained(r)
      PROVE  ChainInv'
  BY <1>9, <1>0 DEF Log, Flush, Drained, output
<1>10. ASSUME NEW b \in BOOLEAN, CallConsole(b)
       PROVE  ChainInv'
  BY <1>10, <1>0 DEF CallConsole
<1>11. ASSUME NEW s \in Signals, ShutdownEnds(s)
       PROVE  ChainInv'
  BY <1>11, <1>0 DEF ShutdownEnds, pipeline, output
<1>12. CASE UNCHANGED vars
  BY <1>12, <1>0 DEF vars, pipeline, output
<1> QED
  BY <1>1, <1>2, <1>3, <1>4, <1>5, <1>6, <1>7, <1>8, <1>9, <1>10, <1>11, <1>12
  DEF Next

-----------------------------------------------------------------------------
(* A wrapper that is inside its logger has a call under way. *)
Inside(calls, within) ==
  \A r \in within : \E i \in 1 .. Len(calls) : calls[i].viaConsole /\ calls[i].runtime = r

InsideInv == Inside(stack, processing)

(* A wrapper that calls log() is inside while that call is under way.      *)
LEMMA BeginInside ==
  ASSUME NEW r \in Runtimes, NEW viaConsole \in BOOLEAN,
         NEW below \in Seq(Frame), NEW fates, NEW within,
         Inside(below, within),
         Begin(r, viaConsole, below, fates, within)
  PROVE  Inside(stack', processing')
<1> DEFINE e == CHOOSE x \in Unlogged : TRUE
           frame == [runtime |-> r, entry |-> e, viaConsole |-> viaConsole]
<1>1. e \in Entries
  <2>1. Unlogged # {}
    BY DEF Begin
  <2>2. e \in Unlogged
    BY <2>1
  <2> QED BY <2>2 DEF Unlogged
<1>2. frame \in Frame /\ frame.runtime = r /\ frame.viaConsole = viaConsole
  BY <1>1 DEF Frame
<1>3. \/ /\ stack' = Append(below, frame)
         /\ processing' = IF viaConsole THEN within \union {r} ELSE within
      \/ stack' = below /\ processing' = within
  BY DEF Begin
<1> HIDE DEF e, frame
<1>4. CASE stack' = below /\ processing' = within
  BY <1>4
<1>5. CASE /\ stack' = Append(below, frame)
           /\ processing' = IF viaConsole THEN within \union {r} ELSE within
  <2>1. /\ Len(below) \in Nat /\ Len(stack') = Len(below) + 1
        /\ \A i \in 1 .. Len(below) : stack'[i] = below[i]
        /\ stack'[Len(below) + 1] = frame
    BY <1>2, <1>5
  <2>2. ASSUME NEW q \in within
        PROVE  \E i \in 1 .. Len(stack') : stack'[i].viaConsole /\ stack'[i].runtime = q
    <3>1. PICK i \in 1 .. Len(below) : below[i].viaConsole /\ below[i].runtime = q
      BY DEF Inside
    <3>2. i \in 1 .. Len(stack') /\ stack'[i] = below[i]
      BY <2>1
    <3> QED BY <3>1, <3>2
  <2>3. ASSUME viaConsole
        PROVE  \E i \in 1 .. Len(stack') : stack'[i].viaConsole /\ stack'[i].runtime = r
    <3>1. Len(below) + 1 \in 1 .. Len(stack')
      BY <2>1
    <3> QED BY <1>2, <2>1, <2>3, <3>1
  <2> QED BY <1>5, <2>2, <2>3 DEF Inside
<1> QED BY <1>3, <1>4, <1>5

(* The wrapper whose call ends is no longer inside.                        *)
LEMMA FinishInside ==
  ASSUME CallsInv, InsideInv, Finish
  PROVE  InsideInv'
<1> DEFINE frame == stack[Len(stack)]
           below == SubSeq(stack, 1, Len(stack) - 1)
           within == IF frame.viaConsole THEN processing \ {frame.runtime} ELSE processing
<1>1. stack \in Seq(Frame) /\ Len(stack) \in Nat \ {0}
  <2>1. stack \in Seq(Frame) /\ stack # << >>
    BY DEF CallsInv, Fit, CallsFit, Finish
  <2> QED BY <2>1
<1>2. /\ below \in Seq(Frame) /\ Len(below) = Len(stack) - 1
      /\ \A i \in 1 .. Len(stack) - 1 : below[i] = stack[i]
  <2> DEFINE n == Len(stack) - 1
  <2>1. n \in 0 .. Len(stack) /\ 1 \in 1 .. Len(stack) + 1 /\ n \in 1 - 1 .. Len(stack)
    BY <1>1
  <2>2. below = SubSeq(stack, 1, n)
    OBVIOUS
  <2> HIDE DEF n, below
  <2>3. /\ below \in Seq(Frame) /\ Len(below) = IF 1 <= n THEN n - 1 + 1 ELSE 0
        /\ \A i \in 1 .. n - 1 + 1 : below[i] = stack[1 + i - 1]
    BY <1>1, <2>1, <2>2, SubSeqProperties
  <2>4. Len(below) = n /\ \A i \in 1 .. n : below[i] = stack[i]
    BY <2>1, <2>3
  <2> QED BY <2>3, <2>4 DEF n
<1>3. \/ \E onward, fates : Captures(onward, FALSE) /\ Begin(onward, TRUE, below, fates, within)
      \/ stack' = below /\ processing' = within
  BY DEF Finish
<1>4. frame = stack[Len(stack)]
  OBVIOUS
<1>5. within \subseteq processing /\ (frame.viaConsole => frame.runtime \notin within)
  OBVIOUS
<1> HIDE DEF frame, below, within
<1>6. Inside(below, within)
  <2> SUFFICES ASSUME NEW q \in within
               PROVE  \E i \in 1 .. Len(below) : below[i].viaConsole /\ below[i].runtime = q
    BY DEF Inside
  <2>1. PICK i \in 1 .. Len(stack) : stack[i].viaConsole /\ stack[i].runtime = q
    BY <1>5 DEF InsideInv, Inside
  <2>2. i # Len(stack)
    BY <1>4, <1>5, <2>1
  <2>3. i \in 1 .. Len(stack) - 1
    BY <1>1, <2>2
  <2> QED BY <1>2, <2>1, <2>3
<1>7. ASSUME NEW onward, NEW fates, Captures(onward, FALSE),
             Begin(onward, TRUE, below, fates, within)
      PROVE  InsideInv'
  <2>1. onward \in Runtimes
    BY <1>7, LiveIsSlot DEF Captures, CallsInv, CaptureInv
  <2> QED BY <1>2, <1>6, <1>7, <2>1, BeginInside DEF InsideInv
<1>8. CASE stack' = below /\ processing' = within
  BY <1>6, <1>8 DEF InsideInv
<1> QED BY <1>3, <1>7, <1>8

(* Every step keeps InsideInv.                                             *)
LEMMA NextInside ==
  ASSUME CallsInv, InsideInv, [Next]_vars
  PROVE  InsideInv'
<1>0. ASSUME UNCHANGED <<stack, processing>>
      PROVE  InsideInv'
  BY <1>0 DEF InsideInv
<1>1. stack \in Seq(Frame)
  BY DEF CallsInv, Fit, CallsFit
<1>2. CASE Finish
  BY <1>2, FinishInside
<1>3. ASSUME NEW r \in Runtimes, Log(r)
      PROVE  InsideInv'
  <2>1. Begin(r, FALSE, stack, fate, processing)
    BY <1>3 DEF Log
  <2> QED BY <1>1, <2>1, BeginInside DEF InsideInv
<1>4. ASSUME NEW b \in BOOLEAN, CallConsole(b)
      PROVE  InsideInv'
  <2>1. PICK f : Captures(f, b) /\ Begin(f, TRUE, stack, fate, processing)
    BY <1>4 DEF CallConsole
  <2>2. f \in Runtimes
    BY <2>1, LiveIsSlot DEF Captures, CallsInv, CaptureInv
  <2> QED BY <1>1, <2>1, <2>2, BeginInside DEF InsideInv
<1>5. CASE InitRuntime \/ Destroy
  BY <1>5, <1>0 DEF InitRuntime, InitWith, Destroy, DestroyLogger, Retire
<1>6. ASSUME NEW r \in Runtimes, DestroyLogger(r) \/ Flush(r) \/ Drained(r)
      PROVE  InsideInv'
  BY <1>6, <1>0 DEF DestroyLogger, Retire, Flush, Drained, output
<1>7. ASSUME NEW b \in BOOLEAN, Load(b)
      PROVE  InsideInv'
  BY <1>7, <1>0 DEF Load, InitWith
<1>8. ASSUME NEW p \in Patches, Patch(p) \/ Unpatch(p)
      PROVE  InsideInv'
  BY <1>8, <1>0 DEF Patch, Unpatch
<1>9. ASSUME NEW s \in Signals, Signal(s) \/ ShutdownEnds(s)
      PROVE  InsideInv'
  BY <1>9, <1>0 DEF Signal, ShutdownEnds, Retire, output
<1>10. CASE UNCHANGED vars
  BY <1>10, <1>0 DEF vars, output
<1> QED BY <1>2, <1>3, <1>4, <1>5, <1>6, <1>7, <1>8, <1>9, <1>10 DEF Next

-----------------------------------------------------------------------------
(* What ConsoleUnwinds rests on. *)
ConsoleInv == CallsInv /\ ChainInv /\ InsideInv

(* The console is given back, whoever was replaced or destroyed in whatever *)
(* order: with no patch ever made it is the live wrapper or the native      *)
(* function, and a dead wrapper is in the chain only if a patch, in place   *)
(* or taken off since, found it installed (ConsoleInterceptor.restore,      *)
(* init, destroy).                                                          *)
THEOREM ConsoleGivenBack == Spec => []ConsoleUnwinds
<1>1. Init => ConsoleInv
  <2>1. Init => InsideInv
    BY DEF Init, InsideInv, Inside
  <2> QED BY <2>1, InitFits, InitChained DEF ConsoleInv
<1>2. ConsoleInv /\ [Next]_vars => ConsoleInv'
  BY NextFits, NextChained, NextInside DEF ConsoleInv, CallsInv
<1>3. ASSUME ConsoleInv
      PROVE  ConsoleUnwinds
  <2>1. Chained(console, next, Made, enabled) /\ Patched = Covers(next)
    BY <1>3 DEF ConsoleInv, ChainInv, Patched, Covers
  <2>2. Made \subseteq Runtimes
    BY <2>1 DEF Chained
  <2>3. \A r \in Made : InChain(r) <=> r \in Chain(console, next)
    BY <2>2, InChainDef DEF Functions
  <2>4. stack = << >> => processing = {}
    <3>1. stack = << >> => Len(stack) = 0
      OBVIOUS
    <3>2. Len(stack) = 0 => processing = {}
      BY <1>3 DEF ConsoleInv, InsideInv, Inside
    <3> QED BY <3>1, <3>2
  <2> QED BY <2>1, <2>3, <2>4, ChainedUnwinds DEF ConsoleUnwinds
<1> QED BY <1>1, <1>2, <1>3, PTL DEF Spec

-----------------------------------------------------------------------------
(***************************************************************************)
(* The settings of a runtime, for any request: a value is numeric wherever *)
(* it comes from, validate() has looked at what is used, and the defaults  *)
(* are inside the ranges.                                                  *)
(***************************************************************************)
Typed(config) == \A o \in DOMAIN Options \intersect DOMAIN config : config[o] \in Numeric

OtherKeys == {"type", "url", "logsUrl", "tenantId", "appName", "levels", "sanitize",
              "dlqEnabled", "dlqType", "compression", "interceptConsole",
              "preserveOriginalConsole"}

LEMMA OtherKeysAreNoOptions == \A o \in DOMAIN Options : o \notin OtherKeys
BY DEF OtherKeys, Options

LEMMA OptionsWellFormed ==
  ASSUME NEW o \in DOMAIN Options
  PROVE  /\ Usable(Options[o], Options[o].default)
         /\ Options[o].default \in Numeric
         /\ EnvDefault(o) \in Numeric
         /\ Options[o].envMin \in Int /\ Options[o].envMax \in Int
         /\ Options[o].min \in Int /\ Options[o].max \in Int
BY DEF Options, Option, Floor, Unchecked, Usable, Numeric, EnvDefault

LEMMA EnvironmentTyped ==
  ASSUME NEW env
  PROVE  Typed(LoadConfigFromEnv(env))
<1>1. \A o \in DOMAIN FromEnv(env) : o \in DOMAIN Options /\ FromEnv(env)[o] \in Numeric
  BY OptionsWellFormed DEF FromEnv, ParseIntRange, Numeric
<1>2. DOMAIN OtherFromEnv(env) = OtherKeys
  BY DEF OtherFromEnv, OtherKeys
<1>3. Typed(Over(FromEnv(env), OtherFromEnv(env)))
  BY <1>1, <1>2, OtherKeysAreNoOptions DEF Typed, Over
<1>4. Typed([levels |-> "none"])
  BY OtherKeysAreNoOptions DEF Typed, OtherKeys
<1>5. Typed(<< >>)
  BY DEF Typed
<1> QED BY <1>3, <1>4, <1>5 DEF LoadConfigFromEnv

LEMMA MergedTyped ==
  ASSUME NEW user, Typed(user), NEW env
  PROVE  Typed(MergeConfigs(user, LoadConfigFromEnv(env)))
<1> DEFINE merged == Over(user, LoadConfigFromEnv(env))
<1>1. Typed(merged)
  BY EnvironmentTyped DEF Typed, Over
<1>2. Typed(Over([logsUrl |-> Undefined], merged))
  BY <1>1, OtherKeysAreNoOptions DEF Typed, Over, OtherKeys
<1> QED BY <1>1, <1>2 DEF MergeConfigs

(* An option and its twin have the same default and, unless nothing checks *)
(* the twin, the same limits.                                              *)
LEMMA TwinLimits ==
  ASSUME NEW o \in DOMAIN Options
  PROVE  /\ Twin(o) \in DOMAIN Options /\ Twin(Twin(o)) = Twin(o)
         /\ Options[o].check \in {"range", "floor", "none"}
         /\ Options[Twin(o)].check # "none"
              => /\ Options[Twin(o)].check = Options[o].check
                 /\ Options[Twin(o)].min = Options[o].min
                 /\ Options[Twin(o)].max = Options[o].max
                 /\ Options[Twin(o)].default = Options[o].default
<1>1. /\ Twin(o) \in DOMAIN Options /\ Twin(Twin(o)) = Twin(o)
      /\ o = Twin(o) \/ o \in {"maxWorkers", "workerTimeout", "compressionLevel"}
  BY DEF Twin, Twins, Options
<1>2. Options[o].check \in {"range", "floor", "none"}
  BY DEF Options, Option, Floor, Unchecked
<1>3. CASE o \in {"maxWorkers", "workerTimeout", "compressionLevel"}
  <2>1. Options[Twin(o)].check # "none"
          => /\ Options[Twin(o)].check = Options[o].check
             /\ Options[Twin(o)].min = Options[o].min
             /\ Options[Twin(o)].max = Options[o].max
             /\ Options[Twin(o)].default = Options[o].default
    BY <1>3 DEF Twin, Twins, Options, Option, Floor, Unchecked
  <2> QED BY <1>1, <1>2, <2>1
<1> QED BY <1>1, <1>2, <1>3

(* What validate() lets pass of an option it checks is usable.             *)
LEMMA PassedUsable ==
  ASSUME NEW o \in DOMAIN Options, Options[o].check # "none",
         NEW v \in Numeric, v # Undefined, ~Rejects(Options[o], v)
  PROVE  Usable(Options[o], v)
<1>1. Options[o].check \in {"range", "floor"}
  BY TwinLimits
<1>2. CASE v \in Int
  <2>1. v >= Options[o].min /\ (Options[o].check = "range" => v <= Options[o].max)
    BY <1>1, <1>2, OptionsWellFormed DEF Rejects
  <2> QED BY <1>2, <2>1 DEF Usable
<1>3. CASE v \notin Int
  <2>1. Options[o].check # "range"
    BY <1>3 DEF Rejects
  <2> QED BY <1>3, <2>1 DEF Usable, Numeric
<1> QED BY <1>2, <1>3

(* SettingsUsable of one resolved configuration. *)
Sound(config, o) ==
  \/ Usable(Options[o], config[o])
  \/ Options[o].check = "none"
  \/ Options[Twin(o)].check = "none" /\ config[o] = config[Twin(o)]

LEMMA ResolvedUsable ==
  ASSUME NEW config, Typed(config), Validate(config) = {},
         NEW o \in DOMAIN Options
  PROVE  Sound(Resolve(config), o)
<1> DEFINE Present(k) == k \in DOMAIN config /\ config[k] # Undefined
<1>1. ASSUME NEW k \in DOMAIN Options
      PROVE  /\ Present(k) => Resolve(config)[k] = config[k]
             /\ ~Present(k) /\ Present(Twin(k)) => Resolve(config)[k] = config[Twin(k)]
             /\ ~Present(k) /\ ~Present(Twin(k)) => Resolve(config)[k] = Options[k].default
  BY DEF Resolve, Over, ResolvedOptions, Get
<1>2. ASSUME NEW k \in DOMAIN Options, Present(k), Options[k].check # "none"
      PROVE  Usable(Options[k], config[k])
  <2>1. config[k] \in Numeric /\ Get(config, k, Undefined) = config[k]
    BY <1>2 DEF Typed, Get
  <2>2. ~Rejects(Options[k], config[k])
    BY <2>1 DEF Validate
  <2> QED BY <1>2, <2>1, <2>2, PassedUsable
<1>3. Twin(o) \in DOMAIN Options /\ Twin(Twin(o)) = Twin(o)
  BY TwinLimits
<1> HIDE DEF Present
<1>4. CASE Present(o)
  BY <1>1, <1>2, <1>4 DEF Sound
<1>5. CASE ~Present(o) /\ Present(Twin(o))
  <2>1. Resolve(config)[o] = config[Twin(o)] /\ Resolve(config)[Twin(o)] = config[Twin(o)]
    BY <1>1, <1>3, <1>5
  <2>2. CASE Options[Twin(o)].check = "none"
    BY <2>1, <2>2 DEF Sound
  <2>3. CASE Options[Twin(o)].check # "none"
    <3>1. Usable(Options[Twin(o)], config[Twin(o)])
      BY <1>2, <1>3, <1>5, <2>3
    <3>2. Usable(Options[o], config[Twin(o)])
      BY <2>3, <3>1, TwinLimits DEF Usable
    <3> QED BY <2>1, <3>2 DEF Sound
  <2> QED BY <2>2, <2>3
<1>6. CASE ~Present(o) /\ ~Present(Twin(o))
  BY <1>1, <1>6, OptionsWellFormed DEF Sound
<1> QED BY <1>4, <1>5, <1>6

LEMMA InitWithUsable ==
  ASSUME SettingsUsable, NEW user, Typed(user), NEW env, InitWith(user, env)
  PROVE  SettingsUsable'
<1> DEFINE r == Cardinality(Made) + 1
           config == Resolved(user, env)
<1>1. \A o \in DOMAIN Options : Sound(config, o)
  BY MergedTyped, ResolvedUsable DEF InitWith, Accepted, Resolved
<1>2. Create(r, config) \/ CreateFails(config)
  BY DEF InitWith
<1> HIDE DEF r, config
<1>3. CASE Create(r, config)
  <2>1. settings' = [m \in Made \union {r} |-> IF m = r THEN config ELSE settings[m]]
    BY <1>3 DEF Create
  <2>2. Made' = Made \union {r}
    BY <2>1 DEF Made
  <2>3. \A m \in Made', o \in DOMAIN Options : Sound(settings'[m], o)
    BY <1>1, <2>1, <2>2 DEF SettingsUsable, Sound
  <2> QED BY <2>3 DEF SettingsUsable, Sound
<1>4. CASE CreateFails(config)
  BY <1>4 DEF CreateFails, SettingsUsable, Made
<1> QED BY <1>2, <1>3, <1>4

LEMMA NextUsable ==
  ASSUME SettingsUsable, [Next]_vars
  PROVE  SettingsUsable'
<1>1. ASSUME UNCHANGED settings
      PROVE  SettingsUsable'
  BY <1>1 DEF SettingsUsable, Made
<1>2. CASE InitRuntime
  <2>1. PICK q \in Requests : InitWith(q.user, q.env)
    BY <1>2 DEF InitRuntime
  <2>2. Typed(q.user)
    BY DEF Typed
  <2> QED BY <2>1, <2>2, InitWithUsable
<1>3. ASSUME NEW b \in BOOLEAN, Load(b)
      PROVE  SettingsUsable'
  <2>1. PICK q \in Requests : InitWith(LoadConfigFromEnv(q.env), q.env)
    BY <1>3 DEF Load
  <2> QED BY <2>1, EnvironmentTyped, InitWithUsable
<1>4. CASE Next /\ ~InitRuntime /\ ~\E b \in BOOLEAN : Load(b)
  <2>1. UNCHANGED settings
    BY <1>4 DEF Next, Destroy, DestroyLogger, Retire, Signal, ShutdownEnds, Log, Flush,
         Drained, CallConsole, Finish, Patch, Unpatch, pipeline
  <2> QED BY <2>1, <1>1
<1>5. CASE UNCHANGED vars
  BY <1>5, <1>1 DEF vars, pipeline
<1> QED BY <1>2, <1>3, <1>4, <1>5

(* Whatever init() accepts, from its argument, the environment or both, is *)
(* in the ranges that the components rely on (mergeConfigs, validate,      *)
(* resolve) - but the numbers of the breaker and the compression level may *)
(* be NaN or infinite, and a compression level that performance gives may  *)
(* be any number.                                                          *)
THEOREM AcceptedSettingsUsable == Spec => []SettingsUsable
<1>1. Init => SettingsUsable
  BY DEF Init, SettingsUsable, Made
<1>2. SettingsUsable /\ [Next]_vars => SettingsUsable'
  BY NextUsable
<1> QED BY <1>1, <1>2, PTL DEF Spec
=============================================================================
