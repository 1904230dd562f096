--------------------------- MODULE DropOldestQueue ---------------------------
(***************************************************************************)
(* A bounded queue that makes room by forgetting its oldest entries, and   *)
(* counts every one it forgot: what a dead letter queue promises, whatever *)
(* it is kept in.  DeadLetterQueue is shown to implement this.             *)
(***************************************************************************)
EXTENDS Integers, SequencesExt

CONSTANT Capacity

VARIABLES
  held,      \* entries by number, oldest first
  accepted,  \* the entries given to this process so far
  lost       \* how many of them it forgot

vars == <<held, accepted, lost>>

Empty == held = <<>> /\ accepted = {} /\ lost = 0

(* Of what was held and what comes, all that is forgotten is older than    *)
(* all that is kept, and is counted.                                       *)
Keep(coming) ==
  LET all  == ToSet(held) \union coming
      gone == all \ ToSet(held')
  IN  /\ ToSet(held') \subseteq all
      /\ \A i, j \in DOMAIN held' : i < j => held'[i] < held'[j]
      /\ \A g \in gone, h \in ToSet(held') : g < h
      /\ lost' = lost + Cardinality(gone)

(* Younger entries come; the oldest make room if they do not all fit.      *)
Accept ==
  LET coming == accepted' \ accepted
  IN  /\ accepted \subseteq accepted'
      /\ \A e \in coming, d \in accepted : d < e
      /\ Keep(coming)
      /\ Len(held') <= Capacity
      /\ lost' > lost => Len(held') = Capacity

(* What the queue is kept in has no room for all of it.                    *)
Trim == Keep({}) /\ UNCHANGED accepted

TakeAll == held' = <<>> /\ UNCHANGED <<accepted, lost>>

Restart == held' = <<>> /\ accepted' = {} /\ lost' = 0

Spec == Empty /\ [][Accept \/ Trim \/ TakeAll \/ Restart]_vars
=============================================================================
