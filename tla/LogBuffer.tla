----------------------------- MODULE LogBuffer -----------------------------
(***************************************************************************)
(* What the flush pipeline may rely on from a log buffer (the interface    *)
(* ILogBuffer as LogService uses it), without timers, sizes or ages:       *)
(*                                                                         *)
(*   - entries are held in the order they were added;                      *)
(*   - only add() may evict, it evicts from the old end, it counts what it *)
(*     evicts, and it leaves at most MaxSize entries;                      *)
(*   - flush() hands over everything that is held;                         *)
(*   - a closed buffer holds nothing, for ever.                            *)
(*                                                                         *)
(* MemoryBuffer is shown to implement it; LogService is built on it.       *)
(***************************************************************************)
EXTENDS Naturals, Sequences

CONSTANTS
  Entry,     \* what is logged
  MaxSize    \* config.maxSize: entries held at most

VARIABLES
  held,      \* the entries in the buffer, oldest first
  evicted,   \* how many entries add() has dropped (droppedEntries)
  open       \* destroy() has not been called

bufferVars == <<held, evicted, open>>

BufferTypeOK ==
  /\ held \in Seq(Entry)
  /\ evicted \in Nat
  /\ open \in BOOLEAN

BufferInit ==
  /\ held = <<>>
  /\ evicted = 0
  /\ open = TRUE

(* The k oldest elements of s removed. *)
Without(s, k) == SubSeq(s, k + 1, Len(s))

(* add(): the entry is appended, then the k oldest entries are evicted; k  *)
(* may cover the new entry too (it alone can exceed the memory limit).     *)
Add(e) ==
  /\ open
  /\ \E k \in 0 .. Len(held) + 1 :
       /\ Len(held) + 1 - k <= MaxSize
       /\ held' = Without(Append(held, e), k)
       /\ evicted' = evicted + k
  /\ UNCHANGED open

(* flush(): the caller receives held. *)
Take ==
  /\ held' = <<>>
  /\ UNCHANGED <<evicted, open>>

(* destroy(): what is still held is gone without being counted. *)
Close ==
  /\ held' = <<>>
  /\ open' = FALSE
  /\ UNCHANGED evicted

BufferNext == (\E e \in Entry : Add(e)) \/ Take \/ Close

BufferSpec == BufferInit /\ [][BufferNext]_bufferVars
=============================================================================
