--------------------------- MODULE DeadLetterQueue ---------------------------
(***************************************************************************)
(* The dead letter queues (infrastructure/dlq): the one in memory and the  *)
(* one in a file, of which the factory makes one or the other.             *)
(*                                                                         *)
(* Loading the file, the write of each batch and the unlink of clear() run *)
(* in the background: the calls below, and a crash of the process, may     *)
(* come between any two of their steps, and each of the three may fail.    *)
(* writeFile() truncates the file when it opens it and fills it            *)
(* afterwards.                                                             *)
(*                                                                         *)
(* An entry is its number in the order of the calls.  A line of the file   *)
(* that a crash cut short is not parsed, hence not modelled.  retryCount   *)
(* is 0 in every entry written, so the filter on it passes them all.       *)
(***************************************************************************)
EXTENDS Sums, Sequences, FiniteSetsExt, SequencesExt

CONSTANTS
  MaxSize,         \* config.maxSize
  MaxBytes,        \* config.maxFileSizeMB, in the unit of Bytes
  Bytes(_),        \* the size of an entry's line
  MaxEntry,        \* bound: entries ever given
  MaxCrashes,      \* bound
  MaxUnlinks,      \* bound: clear() calls under way at a time
  EarlierFiles,    \* what an earlier process may have left, Absent included
  Absent, None

Entry == 1 .. MaxEntry
Ascending(q) == \A i, j \in DOMAIN q : i < j => q[i] < q[j]

ASSUME DeadLetterAssumption ==
  /\ MaxSize \in 1 .. 10000 /\ MaxBytes \in Nat
  /\ MaxEntry \in Nat /\ MaxCrashes \in Nat /\ MaxUnlinks \in Nat
  /\ \A e \in Entry : Bytes(e) \in Nat
  /\ \A f \in EarlierFiles \ {Absent} : f \in Seq(Entry) /\ Ascending(f)
  /\ Absent \notin Seq(Entry)

VARIABLES
  kind,            \* "memory" or "file"
  queue, droppedEntries,
  load,            \* ready: "stat", "read" or "done"
  content,         \* what readFile() returned to loadFromDisk()
  arriving,        \* batches of addBatch() that await ready
  writeChain,      \* batches admitted whose write has not ended
  write,           \* the writeFile() that runs: its lines, and if the file
                   \* is open, and if what it opened is still the file
  unlinking,       \* how many calls of clear() await their unlink()
  file,
  next, crashes,   \* numbers of the next entry and of crashes so far
  accepted,        \* history: the entries admitted and loaded so far
  overtaken        \* history: a write, an unlink or the load failed, or
                   \* clear() overlapped a write or the load, or the file is
                   \* of other limits, and no write has put that right yet

disk == <<write, unlinking, file>>
calls == <<arriving, writeChain>>
vars == <<kind, queue, droppedEntries, load, content, calls, disk, next,
          crashes, accepted, overtaken>>

Lines(f) == IF f = Absent THEN <<>> ELSE f
Size(q) == SumOf([i \in DOMAIN q |-> Bytes(q[i])])
Newest(q, n) == SubSeq(q, Len(q) - n + 1, Len(q))
Within(q, limit) == Newest(q, Min({Len(q), limit}))

TypeOK ==
  /\ kind \in {"memory", "file"}
  /\ queue \in Seq(Entry) /\ Len(queue) <= MaxSize
  /\ droppedEntries \in Nat /\ accepted \subseteq Entry
  /\ load \in {"stat", "read", "done"}
  /\ content \in Seq(Entry) /\ arriving \in Seq(Seq(Entry))
  /\ writeChain \in Seq(Seq(Entry))
  /\ write = None \/ Size(write.lines) <= MaxBytes
  /\ file = Absent \/ file \in Seq(Entry)
  /\ unlinking \in 0 .. MaxUnlinks /\ overtaken \in BOOLEAN
  /\ next \in 1 .. MaxEntry + 1 /\ crashes \in 0 .. MaxCrashes

(* The constructor: loadFromDisk() ends at once when there is no file.     *)
LoadOf(f) == IF f = Absent THEN "done" ELSE "stat"

Init ==
  /\ \/ kind = "memory" /\ file = Absent
     \/ kind = "file" /\ file \in EarlierFiles
  /\ load = LoadOf(file)
  /\ queue = <<>> /\ droppedEntries = 0 /\ content = <<>>
  /\ arriving = <<>> /\ writeChain = <<>> /\ write = None /\ unlinking = 0
  /\ accepted = {} /\ overtaken = FALSE
  /\ next = Max({Lines(file)[i] : i \in DOMAIN Lines(file)} \union {0}) + 1
  /\ crashes = 0

(***************************************************************************)
(* Adding a batch of n entries.                                            *)
(***************************************************************************)

Batch(n) == [i \in 1 .. n |-> next + i - 1]

(* A mistake: a full queue turns away what comes. *)
PushKeepsOldest(batch) ==
  LET all == queue \o batch
  IN  /\ queue' = SubSeq(all, 1, Min({Len(all), MaxSize}))
      /\ droppedEntries' = droppedEntries + Len(all) - Len(queue')
      /\ accepted' = accepted \union ToSet(batch)

(* Entry by entry, the oldest makes room when the queue is full.           *)
Push(batch) ==
  /\ queue' = Within(queue \o batch, MaxSize)
  /\ droppedEntries' = droppedEntries + Len(queue) + Len(batch) - Len(queue')
  /\ accepted' = accepted \union ToSet(batch)

AddToMemory(n) ==
  /\ kind = "memory" /\ next + n <= MaxEntry + 1
  /\ Push(Batch(n))
  /\ next' = next + n
  /\ UNCHANGED <<kind, load, content, calls, disk, crashes, overtaken>>

AddToFile(n) ==
  /\ kind = "file" /\ next + n <= MaxEntry + 1
  /\ arriving' = Append(arriving, Batch(n))
  /\ next' = next + n
  /\ UNCHANGED <<kind, queue, droppedEntries, load, content, writeChain, disk,
                 crashes, accepted, overtaken>>

(* A mistake: a write that runs is taken to cover the batch. *)
AdmitCoalesced ==
  /\ load = "done" /\ arriving # <<>>
  /\ Push(Head(arriving))
  /\ arriving' = Tail(arriving)
  /\ writeChain' = IF write = None THEN Append(writeChain, Head(arriving))
                   ELSE writeChain
  /\ UNCHANGED <<kind, load, content, disk, next, crashes, overtaken>>

Admit ==
  /\ load = "done" /\ arriving # <<>>
  /\ Push(Head(arriving))
  /\ arriving' = Tail(arriving)
  /\ writeChain' = Append(writeChain, Head(arriving))
  /\ UNCHANGED <<kind, load, content, disk, next, crashes, overtaken>>

(***************************************************************************)
(* persistQueueToDisk(), one link of the write chain.                      *)
(***************************************************************************)

(* What halving n again and again comes to: the least set with n in it and *)
(* the half of whatever is in it.                                          *)
Halvings(n) ==
  {m \in 0 .. n : \A H \in SUBSET (0 .. n) :
                    n \in H /\ (\A h \in H : h \div 2 \in H) => m \in H}

(* The newest half, again and again, until the lines fit.                  *)
Affordable(q) ==
  Newest(q, Max({n \in Halvings(Len(q)) : Size(Newest(q, n)) <= MaxBytes}))

(* A mistake: halved once, whatever the rest amounts to. *)
PersistHalvesOnce ==
  /\ writeChain # <<>> /\ write = None
  /\ queue' = IF Size(queue) > MaxBytes THEN Newest(queue, Len(queue) \div 2)
              ELSE queue
  /\ droppedEntries' = droppedEntries + Len(queue) - Len(queue')
  /\ write' = [lines |-> queue', open |-> FALSE, linked |-> FALSE]
  /\ UNCHANGED <<kind, load, content, calls, unlinking, file, next, crashes,
                 accepted, overtaken>>

Persist ==
  /\ writeChain # <<>> /\ write = None
  /\ queue' = Affordable(queue)
  /\ droppedEntries' = droppedEntries + Len(queue) - Len(queue')
  /\ write' = [lines |-> queue', open |-> FALSE, linked |-> FALSE]
  /\ UNCHANGED <<kind, load, content, calls, unlinking, file, next, crashes,
                 accepted, overtaken>>

Open ==
  /\ write # None /\ ~write.open
  /\ write' = [write EXCEPT !.open = TRUE, !.linked = TRUE]
  /\ file' = <<>>
  /\ UNCHANGED <<kind, queue, droppedEntries, load, content, calls, unlinking,
                 next, crashes, accepted, overtaken>>

(* Later batches may be in the queue by now: their own write follows.      *)
Written ==
  /\ write # None /\ write.open
  /\ file' = IF write.linked THEN write.lines ELSE file
  /\ write' = None
  /\ writeChain' = Tail(writeChain)
  /\ overtaken' = (overtaken /\ (~write.linked \/ write.lines # queue))
  /\ UNCHANGED <<kind, queue, droppedEntries, load, content, arriving,
                 unlinking, next, crashes, accepted>>

(* The error is reported and the chain goes on.                            *)
WriteFails ==
  /\ write # None
  /\ \E n \in 0 .. Len(write.lines) :
       file' = IF write.linked THEN SubSeq(write.lines, 1, n) ELSE file
  /\ write' = None
  /\ writeChain' = Tail(writeChain)
  /\ overtaken' = TRUE
  /\ UNCHANGED <<kind, queue, droppedEntries, load, content, arriving,
                 unlinking, next, crashes, accepted>>

(***************************************************************************)
(* clear(), and flush() of the queue in memory.                            *)
(***************************************************************************)

Clear ==
  /\ queue' = <<>>
  /\ \/ file = Absent /\ UNCHANGED unlinking
     \/ file # Absent /\ unlinking < MaxUnlinks /\ unlinking' = unlinking + 1
  /\ overtaken' = (overtaken \/ load # "done" \/ write # None)
  /\ UNCHANGED <<kind, droppedEntries, load, content, calls, write, file, next,
                 crashes, accepted>>

(* unlink() is outside the write chain: what a write has put there since,  *)
(* or still has open, goes with the file.                                  *)
Unlink ==
  /\ unlinking > 0 /\ file # Absent
  /\ unlinking' = unlinking - 1 /\ file' = Absent
  /\ write' = IF write = None THEN None ELSE [write EXCEPT !.linked = FALSE]
  /\ overtaken' = (overtaken \/ queue # <<>> \/ write # None)
  /\ UNCHANGED <<kind, queue, droppedEntries, load, content, calls, next,
                 crashes, accepted>>

(* The error is reported: the queue is empty, its file is not - unless the *)
(* file is gone, the unlink of another clear() having come first.          *)
UnlinkFails ==
  /\ unlinking > 0
  /\ unlinking' = unlinking - 1
  /\ overtaken' = (overtaken \/ file # Absent)
  /\ UNCHANGED <<kind, queue, droppedEntries, load, content, calls, write, file,
                 next, crashes, accepted>>

(***************************************************************************)
(* loadFromDisk(), and the crash before it.                                *)
(***************************************************************************)

(* A file over the budget, or gone by now, is left alone.                  *)
Read ==
  /\ load = "stat"
  /\ IF file = Absent \/ Size(Lines(file)) > MaxBytes
       THEN /\ load' = "done"
            /\ overtaken' = (overtaken \/ file # Absent)
            /\ UNCHANGED content
       ELSE load' = "read" /\ content' = file /\ UNCHANGED overtaken
  /\ UNCHANGED <<kind, queue, droppedEntries, calls, disk, next, crashes, accepted>>

(* stat() or readFile() fails: the queue starts empty over a full file.    *)
LoadFails ==
  /\ load # "done"
  /\ load' = "done" /\ content' = <<>>
  /\ overtaken' = (overtaken \/ file # Absent)
  /\ UNCHANGED <<kind, queue, droppedEntries, calls, disk, next, crashes, accepted>>

(* The newest lines, as many as fit the queue, replace what it holds.      *)
Loaded ==
  /\ load = "read"
  /\ load' = "done" /\ content' = <<>>
  /\ queue' = Within(content, MaxSize)
  /\ droppedEntries' = droppedEntries + Len(content) - Len(queue')
  /\ accepted' = accepted \union ToSet(content)
  /\ overtaken' = (overtaken \/ Len(content) > MaxSize)
  /\ UNCHANGED <<kind, calls, disk, next, crashes>>

(* A write that was open leaves the lines it had got to.                   *)
Crash ==
  /\ kind = "file" /\ crashes < MaxCrashes
  /\ crashes' = crashes + 1
  /\ \E n \in 0 .. MaxEntry :
       /\ IF write = None THEN n = 0 ELSE n <= Len(write.lines)
       /\ file' = IF write # None /\ write.linked
                    THEN SubSeq(write.lines, 1, n) ELSE file
  /\ load' = LoadOf(file')
  /\ queue' = <<>> /\ droppedEntries' = 0 /\ content' = <<>>
  /\ arriving' = <<>> /\ writeChain' = <<>>
  /\ write' = None /\ unlinking' = 0
  /\ accepted' = {} /\ overtaken' = FALSE
  /\ UNCHANGED <<kind, next>>

Next ==
  \/ \E n \in 1 .. 2 : AddToMemory(n) \/ AddToFile(n)
  \/ Admit \/ Persist \/ Open \/ Written \/ WriteFails
  \/ Clear \/ Unlink \/ UnlinkFails
  \/ Read \/ LoadFails \/ Loaded \/ Crash

Spec == Init /\ [][Next]_vars

(***************************************************************************)
(* Properties                                                              *)
(***************************************************************************)

Promise == INSTANCE DropOldestQueue WITH
             Capacity <- MaxSize, held <- queue, lost <- droppedEntries

(* Either queue (addBatch, persistQueueToDisk, loadFromDisk, clear) keeps  *)
(* the newest entries in their order, forgets only entries older than all  *)
(* that it keeps, for a newer one only when it is full, and counts each of *)
(* them in droppedEntries - through loads, halvings, clears and restarts.  *)
KeepsNewest == Promise!Spec

(* When no call is pending the file is the queue, so that a restart finds  *)
(* every acknowledged entry that was not dropped; except after a write, an *)
(* unlink or a load that failed, a clear() that overlapped a write or the  *)
(* load, or a load under smaller limits, up to the next write (addBatch,   *)
(* clear).                                                                 *)
FileIsQueue ==
  /\ kind = "file" /\ load = "done" /\ unlinking = 0
  /\ arriving = <<>> /\ writeChain = <<>> /\ ~overtaken
  => Lines(file) = queue
=============================================================================
