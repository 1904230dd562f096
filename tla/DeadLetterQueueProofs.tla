------------------------ MODULE DeadLetterQueueProofs ------------------------
(***************************************************************************)
(* Proofs about the dead letter queues: the type invariant, what the file  *)
(* holds when no call is pending, and that the queue is the abstract one   *)
(* of DropOldestQueue.                                                     *)
(*                                                                         *)
(* The invariant IInv has five parts.  OrderInv: whatever may become the   *)
(* queue (it, what was read, the file, the lines of a write) is ascending  *)
(* and older than the batches that await the load, so that a push keeps    *)
(* the newest.  LimitInv: the queue has its limit.  AcceptedInv: what was  *)
(* accepted is older than what awaits the load, before which nothing is.   *)
(* KindInv: types, and that the queue in memory has no call in progress.   *)
(* FileInv: what the file will be once the last write of the chain ends.   *)
(***************************************************************************)
EXTENDS DeadLetterQueue, SumTheorems

-----------------------------------------------------------------------------
(***************************************************************************)
(* What the queue is cut down to: Newest, Min, Halvings, Affordable.       *)
(***************************************************************************)

(* The newest n of a queue. *)
LEMMA NewestOf ==
  ASSUME NEW S, NEW q \in Seq(S), NEW n \in 0 .. Len(q)
  PROVE  /\ Newest(q, n) \in Seq(S) /\ Len(Newest(q, n)) = n
         /\ \A i \in 1 .. n : Newest(q, n)[i] = q[Len(q) - n + i]
<1> DEFINE m == Len(q) - n + 1
           l == Len(q)
<1>1. m \in 1 .. Len(q) + 1 /\ l \in m - 1 .. Len(q)
  OBVIOUS
<1>2. m \in Int /\ l \in Int /\ l = m + n - 1 /\ n \in Nat /\ l \in Nat
  OBVIOUS
<1>3. Newest(q, n) = SubSeq(q, m, l)
  BY DEF Newest
<1> HIDE DEF m, l
<1>4. /\ SubSeq(q, m, l) \in Seq(S)
      /\ Len(SubSeq(q, m, l)) = IF m <= l THEN l - m + 1 ELSE 0
      /\ \A i \in 1 .. l - m + 1 : SubSeq(q, m, l)[i] = q[m + i - 1]
  BY <1>1, SubSeqProperties
<1>5. Len(SubSeq(q, m, l)) = n /\ l - m + 1 = n
  BY <1>2, <1>4
<1>6. \A i \in 1 .. n : m + i - 1 = l - n + i
  BY <1>2
<1> QED
  BY <1>3, <1>4, <1>5, <1>6 DEF l

(* The least of two numbers, as Within takes it. *)
LEMMA MinOfTwo ==
  ASSUME NEW a \in Nat, NEW b \in Nat
  PROVE  Min({a, b}) = IF a <= b THEN a ELSE b
<1>1. \E x \in {a, b} : \A y \in {a, b} : x <= y
  OBVIOUS
<1>2. /\ Min({a, b}) \in {a, b}
      /\ \A y \in {a, b} : Min({a, b}) <= y
  BY <1>1 DEF Min
<1> QED
  BY <1>2

(* Zero is among what halving comes to. *)
LEMMA HalvedToNothing ==
  ASSUME NEW n \in Nat
  PROVE  0 \in Halvings(n) /\ Halvings(n) \subseteq 0 .. n
<1>1. ASSUME NEW H \in SUBSET (0 .. n), n \in H, \A h \in H : h \div 2 \in H
      PROVE  0 \in H
  <2>1. H \subseteq Nat /\ H # {}
    BY <1>1
  <2>2. PICK x \in H : \A y \in H : x <= y
    BY <2>1, LeastNatural
  <2>3. x \in Nat /\ x <= x \div 2
    BY <1>1, <2>1, <2>2
  <2> QED
    BY <2>2, <2>3
<1> QED
  BY <1>1 DEF Halvings

(* No line at all fits any budget: where halving ends. *)
LEMMA NothingHasNoSize ==
  ASSUME NEW S, NEW q \in Seq(S)
  PROVE  Newest(q, 0) = <<>> /\ Size(<<>>) = 0
<1>1. Newest(q, 0) \in Seq(S) /\ Len(Newest(q, 0)) = 0
  BY NewestOf
<1>2. Newest(q, 0) = <<>>
  BY <1>1, EmptySeq
<1>3. DOMAIN [i \in DOMAIN <<>> |-> Bytes(<<>>[i])] = {}
  OBVIOUS
<1> QED
  BY <1>2, <1>3, SumEmpty DEF Size

(* What is affordable is the newest part, and within the budget. *)
LEMMA AffordableFits ==
  ASSUME NEW S, NEW q \in Seq(S)
  PROVE  \E n \in 0 .. Len(q) : /\ Affordable(q) = Newest(q, n)
                                /\ Size(Affordable(q)) <= MaxBytes
<1> DEFINE T == {n \in Halvings(Len(q)) : Size(Newest(q, n)) <= MaxBytes}
<1>1. Len(q) \in Nat
  OBVIOUS
<1>2. T \subseteq 0 .. Len(q) /\ 0 \in T
  BY <1>1, HalvedToNothing, NothingHasNoSize, DeadLetterAssumption DEF DeadLetterAssumption
<1>3. Affordable(q) = Newest(q, Max(T))
  BY DEF Affordable
<1>4. Max(T) \in T
  <2> HIDE DEF T
  <2>1. \E x \in T : \A y \in T : x >= y
    BY <1>1, <1>2, GreatestNatural
  <2> QED
    BY <2>1 DEF Max
<1>5. Size(Newest(q, Max(T))) <= MaxBytes
  BY <1>4
<1>6. PICK n \in 0 .. Len(q) : n = Max(T)
  <2> HIDE DEF T
  <2> QED
    BY <1>2, <1>4
<1> QED
  BY <1>3, <1>5, <1>6

(* What the newest entries leave behind: all of it is older than they are. *)
LEMMA NewestPart ==
  ASSUME NEW r \in Seq(Entry), Ascending(r), NEW l \in 0 .. Len(r),
         NEW W, W = Newest(r, l)
  PROVE  /\ ToSet(W) \subseteq ToSet(r)
         /\ \A g \in ToSet(r) \ ToSet(W), h \in ToSet(W) : g < h
         /\ Cardinality(ToSet(r) \ ToSet(W)) = Len(r) - l
<1>1. PICK m \in Nat : m = Len(r) - l
  OBVIOUS
<1>2. /\ W \in Seq(Entry) /\ Len(W) = l
      /\ \A i \in 1 .. l : W[i] = r[m + i]
  BY <1>1, NewestOf
<1>3. /\ DOMAIN W = 1 .. l /\ DOMAIN r = 1 .. Len(r) /\ Len(r) \in Nat /\ l \in Nat
      /\ \A i \in 1 .. Len(r) : r[i] \in Nat
  <2>1. DOMAIN W = 1 .. l /\ DOMAIN r = 1 .. Len(r) /\ Len(r) \in Nat /\ l \in Nat
    BY <1>2
  <2>2. \A i \in 1 .. Len(r) : r[i] \in Entry
    BY <2>1
  <2>3. Entry \subseteq Nat
    BY DEF Entry
  <2> QED
    BY <2>1, <2>2, <2>3
<1>4. /\ \A i \in 1 .. l : m + i \in 1 .. Len(r)
      /\ \A i \in 1 .. Len(r) :
           i \in 1 .. m \/ (i - m \in 1 .. l /\ m + (i - m) = i)
      /\ \A i \in 1 .. m : i \in 1 .. Len(r) /\ \A j \in 1 .. l : i < m + j
  BY <1>1, <1>3
<1> DEFINE G == ToSet(r) \ ToSet(W)
<1>5. \A x \in ToSet(W) : \E i \in 1 .. l : x = r[m + i]
  BY <1>2, <1>3 DEF ToSet
<1>6. ToSet(W) \subseteq ToSet(r)
  BY <1>3, <1>4, <1>5 DEF ToSet
<1>7. \A i \in 1 .. l : r[m + i] \in ToSet(W)
  BY <1>2, <1>3 DEF ToSet
<1>8. \A x \in G : \E i \in 1 .. m : x = r[i]
  <2> SUFFICES ASSUME NEW x \in G PROVE \E i \in 1 .. m : x = r[i]
    OBVIOUS
  <2>1. PICK i \in 1 .. Len(r) : x = r[i]
    BY <1>3 DEF ToSet
  <2>2. i \notin 1 .. m => x \in ToSet(W)
    BY <1>4, <1>7, <2>1
  <2> QED
    BY <2>1, <2>2
<1>9. \A i \in 1 .. m, j \in 1 .. l : r[i] < r[m + j]
  BY <1>3, <1>4 DEF Ascending
<1>10. \A g \in G, h \in ToSet(W) : g < h
  <2> HIDE DEF G
  <2> SUFFICES ASSUME NEW g \in G, NEW h \in ToSet(W) PROVE g < h
    OBVIOUS
  <2>1. PICK i \in 1 .. m : g = r[i]
    BY <1>8
  <2>2. PICK j \in 1 .. l : h = r[m + j]
    BY <1>5
  <2> QED
    BY <1>9, <2>1, <2>2
<1>11. \A i \in 1 .. m : r[i] \in G
  <2> SUFFICES ASSUME NEW i \in 1 .. m, r[i] \in ToSet(W) PROVE FALSE
    BY <1>3, <1>4 DEF ToSet
  <2>1. PICK j \in 1 .. l : r[i] = r[m + j]
    BY <1>5
  <2>2. r[i] \in Nat /\ r[i] < r[i]
    BY <1>3, <1>4, <1>9, <2>1
  <2> QED
    BY <2>2
<1>12. \A i, j \in 1 .. m : r[i] = r[j] => i = j
  <2>1. ASSUME NEW i \in 1 .. m, NEW j \in 1 .. m, i < j
        PROVE  r[i] # r[j]
    <3>1. r[i] < r[j] /\ r[i] \in Nat
      BY <1>3, <1>4, <2>1 DEF Ascending
    <3> QED
      BY <3>1
  <2>2. \A i, j \in 1 .. m : i < j \/ j < i \/ i = j
    OBVIOUS
  <2> QED
    BY <2>1, <2>2
<1> HIDE DEF G
<1>13. ExistsBijection(1 .. m, G)
  <2> DEFINE f == [i \in 1 .. m |-> r[i]]
  <2>1. f \in [1 .. m -> G] /\ \A i \in 1 .. m : f[i] = r[i]
    BY <1>11
  <2> HIDE DEF f
  <2>2. f \in Bijection(1 .. m, G)
    BY <1>8, <1>12, <2>1 DEF Bijection, Injection, Surjection, IsInjective
  <2> QED
    BY <2>2 DEF ExistsBijection
<1>14. Cardinality(G) = m
  <2>1. IsFiniteSet(1 .. m) /\ Cardinality(1 .. m) = m
    BY IntervalIsFinite
  <2> QED
    BY <1>13, <2>1, FS_Bijection
<1> QED
  BY <1>1, <1>6, <1>10, <1>14 DEF G

-----------------------------------------------------------------------------
(***************************************************************************)
(* The invariant.                                                          *)
(***************************************************************************)

(* Entries in ascending order, from before the next call and from before   *)
(* any batch that awaits the load.                                         *)
Seen(q, batches, n) ==
  /\ q \in Seq(Entry) /\ Ascending(q)
  /\ \A i \in 1 .. Len(q) : q[i] < n
  /\ \A b \in 1 .. Len(batches) : \A j \in 1 .. Len(batches[b]) :
       \A i \in 1 .. Len(q) : q[i] < batches[b][j]

(* One queue is older than another. *)
Before(q, p) == \A i \in 1 .. Len(q), j \in 1 .. Len(p) : q[i] < p[j]

(* Batches in the order of the calls. *)
InOrder(batches, n) ==
  /\ batches \in Seq(Seq(Entry))
  /\ \A b \in 1 .. Len(batches) :
       Ascending(batches[b]) /\ \A j \in 1 .. Len(batches[b]) : batches[b][j] < n
  /\ \A b, c \in 1 .. Len(batches) : b < c =>
       \A i \in 1 .. Len(batches[b]), j \in 1 .. Len(batches[c]) :
         batches[b][i] < batches[c][j]

(* Whatever may become the queue is older than what awaits the load. *)
OrderInv ==
  /\ InOrder(arriving, next)
  /\ Seen(queue, arriving, next)
  /\ Seen(content, arriving, next)
  /\ Seen(Lines(file), IF load = "stat" THEN arriving ELSE <<>>, next)
  /\ write # None => /\ Seen(write.lines, <<>>, next)
                     /\ Size(write.lines) <= MaxBytes
                     /\ write \in [lines : Seq(Entry), open : BOOLEAN, linked : BOOLEAN]
  /\ file # Absent => file \in Seq(Entry)

(* The queue keeps its limit. *)
LimitInv == droppedEntries \in Nat /\ Len(queue) <= MaxSize

(* Entries from before the next call and any batch that awaits the load. *)
Older(S, batches, n) ==
  \A e \in S :
    /\ e \in Entry /\ e < n
    /\ \A b \in 1 .. Len(batches) : \A j \in 1 .. Len(batches[b]) : e < batches[b][j]

(* What was accepted is older than what comes; the load is the first. *)
AcceptedInv ==
  /\ Older(accepted, arriving, next)
  /\ load # "done" => accepted = {}

KindInv ==
  /\ kind \in {"memory", "file"} /\ load \in {"stat", "read", "done"}
  /\ unlinking \in 0 .. MaxUnlinks /\ overtaken \in BOOLEAN
  /\ next \in 1 .. MaxEntry + 1 /\ crashes \in 0 .. MaxCrashes
  /\ writeChain \in Seq(Seq(Entry))
  /\ kind = "memory" => /\ file = Absent /\ load = "done" /\ unlinking = 0
                        /\ arriving = <<>> /\ writeChain = <<>>

(* What the file will be when all is done: unless overtaken, the lines of  *)
(* the last write are the queue, and so is the file once that is written.  *)
FileInv ==
  /\ load # "done" => /\ queue = <<>> /\ writeChain = <<>>
                      /\ unlinking > 0 => overtaken
  /\ load = "read" /\ ~overtaken => Lines(file) = content
  /\ write # None => writeChain # <<>>
  /\ write # None /\ ~overtaken => /\ write.open => write.linked
                                   /\ Len(writeChain) = 1 => write.lines = queue
  /\ kind = "file" /\ load = "done" /\ (file = Absent \/ unlinking = 0)
     /\ writeChain = <<>> /\ ~overtaken
       => Lines(file) = queue

IInv == OrderInv /\ LimitInv /\ AcceptedInv /\ KindInv /\ FileInv

-----------------------------------------------------------------------------
(* OrderInv of the next state, of the primed variables. *)
LEMMA OrderNext ==
  ASSUME InOrder(arriving', next'),
         Seen(queue', arriving', next'),
         Seen(content', arriving', next'),
         Seen(Lines(file'), IF load' = "stat" THEN arriving' ELSE <<>>, next'),
         write' # None => /\ Seen(write'.lines, <<>>, next')
                          /\ Size(write'.lines) <= MaxBytes
                          /\ write' \in [lines : Seq(Entry), open : BOOLEAN,
                                         linked : BOOLEAN],
         file' # Absent => file' \in Seq(Entry)
  PROVE  OrderInv'
BY DEF OrderInv, InOrder, Seen, Lines, Ascending, Size

(* AcceptedInv of the next state, of the primed variables. *)
LEMMA AcceptedNext ==
  ASSUME Older(accepted', arriving', next'), load' # "done" => accepted' = {}
  PROVE  AcceptedInv'
BY DEF AcceptedInv, Older

(* It says nothing of how the calls go on. *)
LEMMA AcceptedSame ==
  ASSUME AcceptedInv, UNCHANGED <<accepted, arriving, next>>,
         load' = load \/ load' = "done" \/ load = "stat"
  PROVE  AcceptedInv'
BY AcceptedNext DEF AcceptedInv

(* An empty queue is in order. *)
LEMMA SeenNothing ==
  ASSUME NEW bs, NEW n
  PROVE  Seen(<<>>, bs, n)
BY DEF Seen, Ascending

(* Every entry seen is a number below the next. *)
LEMMA SeenBefore ==
  ASSUME NEW q, NEW bs, NEW n, Seen(q, bs, n)
  PROVE  \A i \in 1 .. Len(q) : q[i] \in Nat /\ q[i] < n
<1>1. \A i \in 1 .. Len(q) : q[i] \in Entry /\ q[i] < n
  BY DEF Seen
<1> QED
  BY <1>1 DEF Entry

(* What is older than the batches is so without them. *)
LEMMA SeenAlone ==
  ASSUME NEW q, NEW bs, NEW n, Seen(q, bs, n)
  PROVE  Seen(q, <<>>, n)
BY DEF Seen

(* What is older than the batches is older than all but the first. *)
LEMMA SeenTail ==
  ASSUME NEW q, NEW bs, NEW n, Seen(q, bs, n), bs \in Seq(Seq(Entry)), bs # <<>>
  PROVE  Seen(q, Tail(bs), n)
<1>1. /\ Len(Tail(bs)) = Len(bs) - 1 /\ Len(bs) \in Nat
      /\ \A i \in 1 .. Len(bs) - 1 : Tail(bs)[i] = bs[i + 1]
  BY HeadTailProperties
<1> QED
  BY <1>1 DEF Seen

(* What was seen is a set of older entries. *)
LEMMA SeenOlder ==
  ASSUME NEW q, NEW bs, NEW n, Seen(q, bs, n)
  PROVE  Older(ToSet(q), bs, n)
<1>1. q \in Seq(Entry) /\ DOMAIN q = 1 .. Len(q)
  BY DEF Seen
<1>2. \A e \in ToSet(q) : \E i \in 1 .. Len(q) : e = q[i]
  BY <1>1 DEF ToSet
<1>3. \A i \in 1 .. Len(q) : q[i] \in Entry
  BY <1>1
<1> QED
  BY <1>2, <1>3 DEF Seen, Older

(* The same of all but the first batch. *)
LEMMA OlderTail ==
  ASSUME NEW S, NEW bs, NEW n, Older(S, bs, n), bs \in Seq(Seq(Entry)), bs # <<>>
  PROVE  Older(S, Tail(bs), n)
<1>1. /\ Len(Tail(bs)) = Len(bs) - 1 /\ Len(bs) \in Nat
      /\ \A i \in 1 .. Len(bs) - 1 : Tail(bs)[i] = bs[i + 1]
  BY HeadTailProperties
<1> QED
  BY <1>1 DEF Older

(* The first batch is older than the rest, which stay in order. *)
LEMMA InOrderTail ==
  ASSUME NEW bs, NEW n, InOrder(bs, n), Len(bs) > 0
  PROVE  /\ InOrder(Tail(bs), n) /\ Seen(Head(bs), Tail(bs), n)
<1>0. bs \in Seq(Seq(Entry))
  BY DEF InOrder
<1> DEFINE cs == Tail(bs)
<1>1. bs # <<>>
  BY <1>0
<1>2. /\ cs \in Seq(Seq(Entry)) /\ Len(cs) = Len(bs) - 1 /\ Len(bs) \in Nat \ {0}
      /\ Head(bs) = bs[1] /\ Head(bs) \in Seq(Entry)
  BY <1>0, <1>1, HeadTailProperties
<1>3. \A i \in 1 .. Len(cs) : i + 1 \in 1 .. Len(bs) /\ i + 1 > 1 /\ cs[i] = bs[i + 1]
  BY <1>0, <1>1, <1>2, HeadTailProperties
<1> HIDE DEF cs
<1>4. ASSUME NEW b \in 1 .. Len(cs)
      PROVE  Ascending(cs[b]) /\ \A j \in 1 .. Len(cs[b]) : cs[b][j] < n
  <2>1. PICK d \in 1 .. Len(bs) : cs[b] = bs[d]
    BY <1>3
  <2> QED
    BY <2>1 DEF InOrder
<1>5. ASSUME NEW b \in 1 .. Len(cs), NEW c \in 1 .. Len(cs), b < c,
             NEW i \in 1 .. Len(cs[b]), NEW j \in 1 .. Len(cs[c])
      PROVE  cs[b][i] < cs[c][j]
  <2>1. PICK d \in 1 .. Len(bs), e \in 1 .. Len(bs) :
          d < e /\ cs[b] = bs[d] /\ cs[c] = bs[e]
    <3>1. b + 1 < c + 1
      BY <1>2, <1>5
    <3> QED
      BY <1>3, <1>5, <3>1
  <2> QED
    BY <1>5, <2>1 DEF InOrder
<1>6. InOrder(cs, n)
  BY <1>2, <1>4, <1>5 DEF InOrder
<1>7. ASSUME NEW c \in 1 .. Len(cs), NEW j \in 1 .. Len(cs[c]), NEW i \in 1 .. Len(bs[1])
      PROVE  bs[1][i] < cs[c][j]
  <2>1. PICK e \in 1 .. Len(bs) : 1 < e /\ cs[c] = bs[e]
    BY <1>3
  <2>2. 1 \in 1 .. Len(bs)
    BY <1>2
  <2> QED
    BY <1>7, <2>1, <2>2 DEF InOrder
<1>8. Ascending(bs[1]) /\ \A i \in 1 .. Len(bs[1]) : bs[1][i] < n
  BY <1>2, SMTT(30) DEF InOrder
<1>9. Seen(Head(bs), cs, n)
  BY <1>2, <1>7, <1>8 DEF Seen
<1> QED
  BY <1>6, <1>9 DEF cs

(* A new batch: the next n numbers, ascending. *)
LEMMA BatchOf ==
  ASSUME next \in 1 .. MaxEntry + 1, NEW k \in 1 .. 2, next + k <= MaxEntry + 1,
         MaxEntry \in Nat
  PROVE  /\ Batch(k) \in Seq(Entry) /\ Len(Batch(k)) = k
         /\ \A i \in 1 .. k : Batch(k)[i] = next + i - 1
         /\ Seen(Batch(k), <<>>, next + k)
<1>1. Batch(k) = [i \in 1 .. k |-> next + i - 1]
  BY DEF Batch
<1>2. \A i \in 1 .. k : next + i - 1 \in Entry
  BY DEF Entry
<1>3. Batch(k) \in Seq(Entry) /\ Len(Batch(k)) = k
  BY <1>1, <1>2
<1>4. \A i \in 1 .. k : Batch(k)[i] = next + i - 1
  BY <1>1
<1> HIDE DEF Batch
<1>5. DOMAIN Batch(k) = 1 .. k
  BY <1>3
<1>6. Ascending(Batch(k))
  BY <1>4, <1>5 DEF Ascending
<1>7. \A i \in 1 .. Len(Batch(k)) : Batch(k)[i] < next + k
  BY <1>3, <1>4
<1> QED
  BY <1>3, <1>4, <1>6, <1>7 DEF Seen

(* What was seen is older than a new batch too. *)
LEMMA SeenLater ==
  ASSUME NEW q, NEW bs, Seen(q, bs, next), bs \in Seq(Seq(Entry)),
         next \in 1 .. MaxEntry + 1, NEW k \in 1 .. 2, next + k <= MaxEntry + 1,
         MaxEntry \in Nat
  PROVE  /\ Seen(q, bs, next + k)
         /\ Seen(q, Append(bs, Batch(k)), next + k)
<1>1. /\ Batch(k) \in Seq(Entry) /\ Len(Batch(k)) = k
      /\ \A i \in 1 .. k : Batch(k)[i] = next + i - 1
  BY BatchOf
<1>2. /\ Len(Append(bs, Batch(k))) = Len(bs) + 1 /\ Len(bs) \in Nat
      /\ \A i \in 1 .. Len(bs) : Append(bs, Batch(k))[i] = bs[i]
      /\ Append(bs, Batch(k))[Len(bs) + 1] = Batch(k)
  BY <1>1, AppendProperties
<1>3. /\ q \in Seq(Entry) /\ Ascending(q) /\ \A i \in 1 .. Len(q) : q[i] \in Nat /\ q[i] < next
  BY DEF Seen, Entry
<1>4. \A i \in 1 .. Len(q) : q[i] < next + k
  BY <1>3
<1>5. ASSUME NEW b \in 1 .. Len(bs) + 1, NEW j \in 1 .. Len(Append(bs, Batch(k))[b]),
             NEW i \in 1 .. Len(q)
      PROVE  q[i] < Append(bs, Batch(k))[b][j]
  <2>1. CASE b \in 1 .. Len(bs)
    BY <1>2, <1>5, <2>1 DEF Seen
  <2>2. CASE b = Len(bs) + 1
    <3>1. Append(bs, Batch(k))[b][j] = next + j - 1 /\ j \in 1 .. k
      BY <1>1, <1>2, <1>5, <2>2
    <3> QED
      BY <1>3, <3>1
  <2> QED
    BY <1>2, <2>1, <2>2
<1>6. Seen(q, bs, next + k)
  BY <1>4 DEF Seen
<1>7. Seen(q, Append(bs, Batch(k)), next + k)
  BY <1>2, <1>3, <1>4, <1>5 DEF Seen
<1> QED
  BY <1>6, <1>7

(* What is older is older than a new batch too. *)
LEMMA OlderLater ==
  ASSUME NEW S, NEW bs, Older(S, bs, next), bs \in Seq(Seq(Entry)),
         next \in 1 .. MaxEntry + 1, NEW k \in 1 .. 2, next + k <= MaxEntry + 1,
         MaxEntry \in Nat
  PROVE  /\ Older(S, bs, next + k)
         /\ Older(S, Append(bs, Batch(k)), next + k)
         /\ \A e \in S, j \in 1 .. k : e < Batch(k)[j]
<1>1. /\ Batch(k) \in Seq(Entry) /\ Len(Batch(k)) = k
      /\ \A i \in 1 .. k : Batch(k)[i] = next + i - 1
  BY BatchOf
<1>2. /\ Len(Append(bs, Batch(k))) = Len(bs) + 1 /\ Len(bs) \in Nat
      /\ \A i \in 1 .. Len(bs) : Append(bs, Batch(k))[i] = bs[i]
      /\ Append(bs, Batch(k))[Len(bs) + 1] = Batch(k)
  BY <1>1, AppendProperties
<1>3. \A e \in S : e \in Nat /\ e \in Entry /\ e < next
  BY DEF Older, Entry
<1>4. \A e \in S : e < next + k
  BY <1>3
<1>5. \A e \in S, j \in 1 .. k : e < Batch(k)[j]
  <2> SUFFICES ASSUME NEW e \in S, NEW j \in 1 .. k PROVE e < Batch(k)[j]
    OBVIOUS
  <2>1. Batch(k)[j] = next + j - 1
    BY <1>1
  <2> QED
    BY <1>3, <2>1
<1>6. ASSUME NEW b \in 1 .. Len(bs) + 1, NEW j \in 1 .. Len(Append(bs, Batch(k))[b]),
             NEW e \in S
      PROVE  e < Append(bs, Batch(k))[b][j]
  <2>1. CASE b \in 1 .. Len(bs)
    BY <1>2, <1>6, <2>1 DEF Older
  <2>2. CASE b = Len(bs) + 1
    BY <1>1, <1>2, <1>5, <1>6, <2>2
  <2> QED
    BY <1>2, <2>1, <2>2
<1>7. Older(S, bs, next + k)
  BY <1>3, <1>4 DEF Older
<1>8. Older(S, Append(bs, Batch(k)), next + k)
  BY <1>2, <1>3, <1>4, <1>6 DEF Older
<1> QED
  BY <1>5, <1>7, <1>8

(* A new batch comes after all that await the load. *)
LEMMA InOrderLater ==
  ASSUME NEW bs, InOrder(bs, next),
         next \in 1 .. MaxEntry + 1, NEW k \in 1 .. 2, next + k <= MaxEntry + 1,
         MaxEntry \in Nat
  PROVE  InOrder(Append(bs, Batch(k)), next + k)
<1> DEFINE cs == Append(bs, Batch(k))
<1>1. /\ Batch(k) \in Seq(Entry) /\ Len(Batch(k)) = k
      /\ \A i \in 1 .. k : Batch(k)[i] = next + i - 1
      /\ Ascending(Batch(k))
  BY BatchOf DEF Seen
<1>2. /\ cs \in Seq(Seq(Entry)) /\ Len(cs) = Len(bs) + 1 /\ Len(bs) \in Nat
      /\ \A i \in 1 .. Len(bs) : cs[i] = bs[i]
      /\ cs[Len(bs) + 1] = Batch(k)
  BY <1>1, AppendProperties DEF InOrder
<1>3. \A b \in 1 .. Len(bs) : \A j \in 1 .. Len(bs[b]) : bs[b][j] \in Nat /\ bs[b][j] < next
  BY DEF InOrder, Entry
<1> HIDE DEF cs
<1>4. ASSUME NEW b \in 1 .. Len(cs)
      PROVE  Ascending(cs[b]) /\ \A j \in 1 .. Len(cs[b]) : cs[b][j] < next + k
  <2>1. CASE b \in 1 .. Len(bs)
    <3>1. cs[b] = bs[b]
      BY <1>2, <2>1
    <3>2. Ascending(bs[b])
      BY <2>1 DEF InOrder
    <3>3. ASSUME NEW j \in 1 .. Len(bs[b]) PROVE bs[b][j] < next + k
      <4>1. PICK x \in Nat : x = bs[b][j] /\ x < next
        BY <1>3, <2>1, <3>3
      <4>2. x < next + k
        BY <4>1
      <4> QED
        BY <4>1, <4>2
    <3> QED
      BY <3>1, <3>2, <3>3
  <2>2. CASE b = Len(bs) + 1
    BY <1>1, <1>2, <2>2
  <2> QED
    BY <1>2, <2>1, <2>2
<1>5. ASSUME NEW b \in 1 .. Len(cs), NEW c \in 1 .. Len(cs), b < c,
             NEW i \in 1 .. Len(cs[b]), NEW j \in 1 .. Len(cs[c])
      PROVE  cs[b][i] < cs[c][j]
  <2>1. b \in 1 .. Len(bs) /\ cs[b] = bs[b]
    BY <1>2, <1>5
  <2>2. CASE c \in 1 .. Len(bs)
    BY <1>2, <1>5, <2>1, <2>2 DEF InOrder
  <2>3. CASE c = Len(bs) + 1
    <3>1. cs[c][j] = next + j - 1 /\ j \in 1 .. k
      BY <1>1, <1>2, <1>5, <2>3
    <3>2. cs[b][i] \in Nat /\ cs[b][i] < next
      BY <1>3, <1>5, <2>1
    <3> QED
      BY <3>1, <3>2
  <2> QED
    BY <1>2, <2>2, <2>3
<1> QED
  BY <1>2, <1>4, <1>5 DEF InOrder, cs

(* The newest part, and the first part, of what was seen was seen. *)
LEMMA SeenNewest ==
  ASSUME NEW q, NEW bs, NEW n, Seen(q, bs, n), NEW m \in 0 .. Len(q)
  PROVE  Seen(Newest(q, m), bs, n)
<1>1. q \in Seq(Entry) /\ Len(q) \in Nat
  BY DEF Seen
<1>2. /\ Newest(q, m) \in Seq(Entry) /\ Len(Newest(q, m)) = m
      /\ \A i \in 1 .. m : Newest(q, m)[i] = q[Len(q) - m + i]
  BY <1>1, NewestOf
<1>3. \A i \in 1 .. m : Len(q) - m + i \in 1 .. Len(q)
  BY <1>1
<1>4. \A i, j \in 1 .. m : i < j => Len(q) - m + i < Len(q) - m + j
  BY <1>1
<1> HIDE DEF Newest
<1>5. DOMAIN Newest(q, m) = 1 .. m /\ DOMAIN q = 1 .. Len(q)
  BY <1>1, <1>2
<1>6. Ascending(Newest(q, m))
  BY <1>2, <1>3, <1>4, <1>5 DEF Seen, Ascending
<1>7. \A i \in 1 .. m : Newest(q, m)[i] < n
  BY <1>2, <1>3 DEF Seen
<1>8. \A b \in 1 .. Len(bs) : \A j \in 1 .. Len(bs[b]) :
        \A i \in 1 .. m : Newest(q, m)[i] < bs[b][j]
  BY <1>2, <1>3 DEF Seen
<1> QED
  BY <1>2, <1>6, <1>7, <1>8 DEF Seen

(* The first lines of what was seen, as a crash leaves them. *)
LEMMA SeenFirst ==
  ASSUME NEW q, NEW bs, NEW n, Seen(q, bs, n), NEW m \in 0 .. Len(q)
  PROVE  Seen(SubSeq(q, 1, m), bs, n)
<1>1. q \in Seq(Entry) /\ Len(q) \in Nat
  BY DEF Seen
<1>2. /\ SubSeq(q, 1, m) \in Seq(Entry) /\ Len(SubSeq(q, 1, m)) = m
      /\ \A i \in 1 .. m : SubSeq(q, 1, m)[i] = q[i]
  BY <1>1
<1>3. DOMAIN SubSeq(q, 1, m) = 1 .. m /\ DOMAIN q = 1 .. Len(q) /\ 1 .. m \subseteq 1 .. Len(q)
  BY <1>1, <1>2
<1>4. Ascending(SubSeq(q, 1, m))
  BY <1>2, <1>3 DEF Seen, Ascending
<1>5. \A i \in 1 .. m : SubSeq(q, 1, m)[i] < n
  BY <1>2, <1>3 DEF Seen
<1>6. \A b \in 1 .. Len(bs) : \A j \in 1 .. Len(bs[b]) :
        \A i \in 1 .. m : SubSeq(q, 1, m)[i] < bs[b][j]
  BY <1>2, <1>3 DEF Seen
<1> QED
  BY <1>2, <1>4, <1>5, <1>6 DEF Seen

(* A younger batch behind what was seen. *)
LEMMA SeenJoined ==
  ASSUME NEW q, NEW p, NEW bs, NEW n, Seen(q, bs, n), Seen(p, bs, n),
         Before(q, p)
  PROVE  Seen(q \o p, bs, n)
<1>1. q \in Seq(Entry) /\ p \in Seq(Entry) /\ Len(q) \in Nat /\ Len(p) \in Nat
  BY DEF Seen
<1>2. /\ q \o p \in Seq(Entry) /\ Len(q \o p) = Len(q) + Len(p)
      /\ \A i \in 1 .. Len(q) + Len(p) :
           (q \o p)[i] = IF i <= Len(q) THEN q[i] ELSE p[i - Len(q)]
  BY <1>1, ConcatProperties
<1>3. PICK r \in Seq(Entry) : r = q \o p
  BY <1>2
<1>4. /\ DOMAIN r = 1 .. Len(q) + Len(p) /\ Len(r) = Len(q) + Len(p)
      /\ DOMAIN q = 1 .. Len(q) /\ DOMAIN p = 1 .. Len(p)
      /\ \A i \in DOMAIN r : \/ i \in 1 .. Len(q) /\ r[i] = q[i]
                             \/ i - Len(q) \in 1 .. Len(p) /\ r[i] = p[i - Len(q)]
  BY <1>1, <1>2, <1>3
<1>5. Ascending(r)
  <2> SUFFICES ASSUME NEW i \in DOMAIN r, NEW j \in DOMAIN r, i < j
               PROVE  r[i] < r[j]
    BY DEF Ascending
  <2>1. CASE i \in 1 .. Len(q) /\ j \in 1 .. Len(q)
    BY <1>1, <1>4, <2>1 DEF Seen, Ascending
  <2>2. CASE i \in 1 .. Len(q) /\ j \notin 1 .. Len(q)
    BY <1>1, <1>4, <2>2 DEF Before
  <2>3. CASE i \notin 1 .. Len(q)
    <3>1. i - Len(q) \in 1 .. Len(p) /\ j - Len(q) \in 1 .. Len(p) /\ i - Len(q) < j - Len(q)
      BY <1>1, <1>4, <2>3
    <3>2. r[i] = p[i - Len(q)] /\ r[j] = p[j - Len(q)]
      BY <1>1, <1>4, <2>3
    <3> QED
      BY <1>4, <3>1, <3>2 DEF Seen, Ascending
  <2> QED
    BY <2>1, <2>2, <2>3
<1>6. \A i \in 1 .. Len(r) : r[i] < n
  BY <1>4 DEF Seen
<1>7. \A b \in 1 .. Len(bs) : \A j \in 1 .. Len(bs[b]) :
        \A i \in 1 .. Len(r) : r[i] < bs[b][j]
  BY <1>4 DEF Seen
<1> QED
  BY <1>3, <1>5, <1>6, <1>7 DEF Seen

(* W is what is kept of a queue r: d entries, all older, are gone. *)
Cut(r, W, d) ==
  /\ ToSet(W) \subseteq ToSet(r)
  /\ \A g \in ToSet(r) \ ToSet(W), h \in ToSet(W) : g < h
  /\ Cardinality(ToSet(r) \ ToSet(W)) = d

(* The entries of two queues, one behind the other. *)
LEMMA JoinedSet ==
  ASSUME NEW q \in Seq(Entry), NEW p \in Seq(Entry)
  PROVE  ToSet(q \o p) = ToSet(q) \union ToSet(p)
<1>1. /\ q \o p \in Seq(Entry) /\ Len(q \o p) = Len(q) + Len(p)
      /\ \A i \in 1 .. Len(q) + Len(p) :
           (q \o p)[i] = IF i <= Len(q) THEN q[i] ELSE p[i - Len(q)]
      /\ Len(q) \in Nat /\ Len(p) \in Nat
  BY ConcatProperties
<1>2. PICK r \in Seq(Entry) : r = q \o p
  BY <1>1
<1>3. /\ DOMAIN r = 1 .. Len(q) + Len(p)
      /\ DOMAIN q = 1 .. Len(q) /\ DOMAIN p = 1 .. Len(p)
  BY <1>1, <1>2
<1>4. \A i \in DOMAIN r : \/ i \in DOMAIN q /\ r[i] = q[i]
                          \/ i - Len(q) \in DOMAIN p /\ r[i] = p[i - Len(q)]
  BY <1>1, <1>2, <1>3
<1>5. /\ \A i \in DOMAIN q : i \in DOMAIN r /\ r[i] = q[i]
      /\ \A j \in DOMAIN p : Len(q) + j \in DOMAIN r /\ r[Len(q) + j] = p[j]
  BY <1>1, <1>2, <1>3
<1>6. /\ \A i \in DOMAIN r : r[i] \in ToSet(r)
      /\ \A i \in DOMAIN q : q[i] \in ToSet(q)
      /\ \A i \in DOMAIN p : p[i] \in ToSet(p)
  BY DEF ToSet
<1>7. ASSUME NEW x \in ToSet(r) PROVE x \in ToSet(q) \union ToSet(p)
  <2>1. PICK i \in DOMAIN r : x = r[i]
    BY DEF ToSet
  <2> QED
    BY <1>4, <1>6, <2>1
<1>8. ASSUME NEW x \in ToSet(q) PROVE x \in ToSet(r)
  <2>1. PICK i \in DOMAIN q : x = q[i]
    BY DEF ToSet
  <2> QED
    BY <1>5, <1>6, <2>1
<1>9. ASSUME NEW x \in ToSet(p) PROVE x \in ToSet(r)
  <2>1. PICK j \in DOMAIN p : x = p[j]
    BY DEF ToSet
  <2> QED
    BY <1>5, <1>6, <2>1
<1> QED
  BY <1>2, <1>7, <1>8, <1>9

(* What Push leaves: the newest part of the queue and of the batch behind  *)
(* it, no more than the limit and no fewer than there is room for.         *)
LEMMA Pushed ==
  ASSUME NEW q, NEW p, NEW bs, NEW n, Seen(q, bs, n), Seen(p, bs, n),
         Before(q, p),
         NEW M \in Nat \ {0},
         NEW W, W = Within(q \o p, M)
  PROVE  /\ Seen(W, bs, n)
         /\ Len(W) <= M /\ Len(W) <= Len(q) + Len(p)
         /\ Len(W) < Len(q) + Len(p) => Len(W) = M
         /\ Cut(q \o p, W, Len(q) + Len(p) - Len(W))
<1> DEFINE r == q \o p
<1>1. q \in Seq(Entry) /\ p \in Seq(Entry) /\ Len(q) \in Nat /\ Len(p) \in Nat
  BY DEF Seen
<1>2. r \in Seq(Entry) /\ Len(r) = Len(q) + Len(p)
  BY <1>1, ConcatProperties
<1>3. Seen(r, bs, n)
  BY SeenJoined
<1> HIDE DEF r
<1>4. PICK l \in 0 .. Len(r) : l = Min({Len(r), M}) /\ l <= M /\ (l < Len(r) => l = M)
  <2>1. Len(r) \in Nat /\ M \in Nat
    BY <1>1, <1>2
  <2>2. Min({Len(r), M}) = IF Len(r) <= M THEN Len(r) ELSE M
    BY <2>1, MinOfTwo
  <2>3. Min({Len(r), M}) \in 0 .. Len(r)
    BY <2>1, <2>2
  <2> QED
    BY <2>1, <2>2, <2>3
<1>5. W = Newest(r, l)
  BY <1>4 DEF Within, r
<1>6. Seen(W, bs, n)
  BY <1>3, <1>5, SeenNewest
<1>7. Len(W) = l
  BY <1>2, <1>5, NewestOf
<1>8. /\ Len(W) <= M /\ Len(W) <= Len(q) + Len(p)
      /\ Len(W) < Len(q) + Len(p) => Len(W) = M
  BY <1>1, <1>2, <1>4, <1>7
<1>9. Cut(r, W, Len(r) - l)
  <2>1. Ascending(r)
    BY <1>3 DEF Seen
  <2> QED
    BY <1>2, <1>5, <2>1, NewestPart DEF Cut
<1> QED
  BY <1>2, <1>6, <1>7, <1>8, <1>9 DEF r

(* Persist: the newest part of the queue stays. *)
LEMMA Kept ==
  ASSUME NEW q, NEW bs, NEW n, Seen(q, bs, n), NEW W, W = Affordable(q)
  PROVE  /\ Seen(W, bs, n) /\ Len(W) <= Len(q) /\ Size(W) <= MaxBytes
         /\ Cut(q, W, Len(q) - Len(W))
<1>1. q \in Seq(Entry) /\ Len(q) \in Nat /\ Ascending(q)
  BY DEF Seen
<1>2. PICK k \in 0 .. Len(q) : W = Newest(q, k) /\ Size(W) <= MaxBytes
  BY <1>1, AffordableFits
<1>3. W \in Seq(Entry) /\ Len(W) = k
  BY <1>1, <1>2, NewestOf
<1>4. Cut(q, W, Len(q) - k)
  BY <1>1, <1>2, NewestPart DEF Cut
<1>5. Seen(W, bs, n)
  BY <1>2, SeenNewest
<1> QED
  BY <1>1, <1>2, <1>3, <1>4, <1>5

-----------------------------------------------------------------------------
(* The invariant holds at first: what an earlier process left is in order, *)
(* and the next number comes after it.                                     *)
LEMMA InitInv == Init => IInv
<1> SUFFICES ASSUME Init PROVE IInv
  OBVIOUS
<1>1. MaxSize \in Nat \ {0} /\ MaxEntry \in Nat /\ MaxCrashes \in Nat
  BY DeadLetterAssumption DEF DeadLetterAssumption
<1>2. /\ file = Absent => Lines(file) = <<>>
      /\ file # Absent => file \in Seq(Entry) /\ Ascending(file) /\ Lines(file) = file
  BY DeadLetterAssumption DEF DeadLetterAssumption, Init, Lines
<1>3. Lines(file) \in Seq(Entry) /\ Ascending(Lines(file))
  <2>1. <<>> \in Seq(Entry) /\ Ascending(<<>>)
    BY DEF Ascending
  <2> QED
    BY <1>2, <2>1
<1>4. PICK q \in Seq(Entry) : q = Lines(file)
  BY <1>3
<1> DEFINE T == {q[i] : i \in DOMAIN q} \union {0}
<1>5. T \subseteq 0 .. MaxEntry /\ T # {} /\ \A i \in 1 .. Len(q) : q[i] \in T
  <2>1. DOMAIN q = 1 .. Len(q) /\ \A i \in 1 .. Len(q) : q[i] \in Entry
    <3> HIDE DEF T
    <3> QED
      OBVIOUS
  <2>2. 0 \in 0 .. MaxEntry /\ 1 .. MaxEntry \subseteq 0 .. MaxEntry
    BY <1>1
  <2> QED
    BY <2>1, <2>2 DEF Entry
<1>6. next = Max(T) + 1
  BY <1>4 DEF Init
<1> HIDE DEF T
<1>7. \E x \in T : \A y \in T : x >= y
  BY <1>1, <1>5, GreatestNatural
<1>8. Max(T) \in T /\ \A y \in T : Max(T) >= y
  BY <1>7 DEF Max
<1>9. PICK m \in 0 .. MaxEntry : m = Max(T)
  BY <1>5, <1>8
<1>10. next \in 1 .. MaxEntry + 1 /\ \A i \in 1 .. Len(q) : q[i] < next
  <2>1. next = m + 1
    BY <1>6, <1>9
  <2>2. \A i \in 1 .. Len(q) : q[i] \in 0 .. MaxEntry /\ q[i] <= m
    BY <1>5, <1>8, <1>9
  <2> QED
    BY <1>1, <2>1, <2>2
<1>11. arriving = <<>> /\ queue = <<>> /\ content = <<>> /\ write = None
  BY DEF Init
<1>12. Seen(Lines(file), <<>>, next)
  BY <1>3, <1>4, <1>10 DEF Seen
<1>13. OrderInv
  <2>1. InOrder(<<>>, next)
    BY DEF InOrder
  <2>2. Seen(<<>>, <<>>, next)
    BY SeenNothing
  <2>3. (IF load = "stat" THEN arriving ELSE <<>>) = <<>>
    BY <1>11
  <2> QED
    BY <1>2, <1>11, <1>12, <2>1, <2>2, <2>3 DEF OrderInv
<1>14. LimitInv /\ AcceptedInv
  BY <1>1 DEF LimitInv, AcceptedInv, Older, Init
<1>15. KindInv
  <2>1. writeChain = <<>> /\ <<>> \in Seq(Seq(Entry)) /\ arriving = <<>>
    BY DEF Init
  <2>2. crashes \in 0 .. MaxCrashes /\ 0 \in 0 .. MaxUnlinks
    BY <1>1, DeadLetterAssumption DEF DeadLetterAssumption, Init
  <2>3. /\ kind = "memory" => file = Absent
        /\ kind \in {"memory", "file"} /\ unlinking = 0 /\ overtaken = FALSE
        /\ load = IF file = Absent THEN "done" ELSE "stat"
    BY DEF Init, LoadOf
  <2> QED
    BY <1>10, <2>1, <2>2, <2>3 DEF KindInv
<1>16. FileInv
  BY DEF FileInv, Init, LoadOf, Lines
<1> QED
  BY <1>13, <1>14, <1>15, <1>16 DEF IInv

-----------------------------------------------------------------------------
(* The operators of DropOldestQueue are those of this module. *)
LEMMA SameSet ==
  ASSUME NEW s PROVE Promise!ToSet(s) = ToSet(s)
BY DEF ToSet, Promise!ToSet

LEMMA SameCount ==
  ASSUME NEW S PROVE Promise!Cardinality(S) = Cardinality(S)
BY DEF Cardinality, Promise!Cardinality

(* What is cut down to its newest part is kept as DropOldestQueue keeps it. *)
LEMMA CutIsKept ==
  ASSUME NEW r, NEW coming, NEW d, Cut(r, queue', d), Ascending(queue'),
         ToSet(r) = ToSet(queue) \union coming,
         droppedEntries' = droppedEntries + d
  PROVE  Promise!Keep(coming)
<1> DEFINE all == Promise!ToSet(queue) \union coming
           gone == all \ Promise!ToSet(queue')
<1>1. /\ Promise!ToSet(queue') = ToSet(queue') /\ all = ToSet(r)
      /\ gone = ToSet(r) \ ToSet(queue')
      /\ Promise!Cardinality(gone) = Cardinality(ToSet(r) \ ToSet(queue'))
  BY SameSet, SameCount
<1>2. /\ Promise!ToSet(queue') \subseteq all
      /\ \A g \in gone, h \in Promise!ToSet(queue') : g < h
      /\ droppedEntries' = droppedEntries + Promise!Cardinality(gone)
  BY <1>1 DEF Cut
<1>3. \A i, j \in DOMAIN queue' : i < j => (queue')[i] < (queue')[j]
  BY DEF Ascending
<1> QED
  BY <1>2, <1>3 DEF Promise!Keep

(* Push keeps the order and the limit, and accepts as DropOldestQueue does. *)
LEMMA PushKeeps ==
  ASSUME LimitInv, NEW p, NEW bs, NEW n, Push(p), Seen(queue, bs, n), Seen(p, bs, n),
         Before(queue, p), Older(accepted, bs, n),
         \A e \in accepted, j \in 1 .. Len(p) : e < p[j]
  PROVE  /\ Seen(queue', bs, n) /\ Older(accepted', bs, n) /\ LimitInv'
         /\ Promise!Accept
<1>1. MaxSize \in Nat \ {0}
  BY DeadLetterAssumption DEF DeadLetterAssumption
<1>2. /\ queue' = Within(queue \o p, MaxSize)
      /\ droppedEntries' = droppedEntries + Len(queue) + Len(p) - Len(queue')
      /\ accepted' = accepted \union ToSet(p)
  BY DEF Push
<1> DEFINE W == Within(queue \o p, MaxSize)
<1> HIDE DEF W
<1>3. /\ Seen(W, bs, n)
      /\ Len(W) <= MaxSize /\ Len(W) <= Len(queue) + Len(p)
      /\ Len(W) < Len(queue) + Len(p) => Len(W) = MaxSize
      /\ Cut(queue \o p, W, Len(queue) + Len(p) - Len(W))
  <2>1. ASSUME NEW M \in Nat \ {0}, NEW V, V = Within(queue \o p, M)
        PROVE  /\ Seen(V, bs, n)
               /\ Len(V) <= M /\ Len(V) <= Len(queue) + Len(p)
               /\ Len(V) < Len(queue) + Len(p) => Len(V) = M
               /\ Cut(queue \o p, V, Len(queue) + Len(p) - Len(V))
    BY <2>1, Pushed
  <2> QED
    BY <1>1, <2>1 DEF W
<1>4. queue' = W
  BY <1>2 DEF W
<1>5. /\ Len(queue') \in Nat /\ Len(queue) \in Nat /\ Len(p) \in Nat
      /\ queue \in Seq(Entry) /\ p \in Seq(Entry) /\ Ascending(queue')
  BY <1>3, <1>4 DEF Seen
<1>6. PICK d \in Nat : /\ d = Len(queue) + Len(p) - Len(queue')
                       /\ droppedEntries' = droppedEntries + d
                       /\ d > 0 => Len(queue') = MaxSize
  <2>1. Len(queue) + Len(p) - Len(queue') \in Nat
    BY <1>3, <1>4, <1>5
  <2>2. PICK d \in Nat : d = Len(queue) + Len(p) - Len(queue')
    BY <2>1
  <2>3. droppedEntries' = droppedEntries + d
    <3>1. droppedEntries \in Nat
      BY DEF LimitInv
    <3> QED
      BY <1>2, <1>5, <2>2, <3>1
  <2>4. d > 0 => Len(queue') = MaxSize
    BY <1>3, <1>4, <1>5, <2>2
  <2> QED
    BY <2>2, <2>3, <2>4
<1>7. LimitInv'
  BY <1>3, <1>4, <1>6 DEF LimitInv
<1>8. accepted' \ accepted = ToSet(p)
  <2> SUFFICES ASSUME NEW e \in ToSet(p), e \in accepted PROVE FALSE
    BY <1>2
  <2>1. PICK j \in 1 .. Len(p) : e = p[j]
    BY <1>5 DEF ToSet
  <2>2. e < e /\ e \in Nat
    BY <2>1 DEF Older, Entry
  <2> QED
    BY <2>2
<1>9. Promise!Keep(ToSet(p))
  <2>1. ToSet(queue \o p) = ToSet(queue) \union ToSet(p)
    BY <1>5, JoinedSet
  <2>2. Cut(queue \o p, queue', d)
    BY <1>3, <1>4, <1>6
  <2> QED
    BY <1>5, <1>6, <2>1, <2>2, CutIsKept
<1>10. \A e \in ToSet(p), a \in accepted : a < e
  BY <1>5 DEF ToSet
<1>11. droppedEntries' > droppedEntries => Len(queue') = MaxSize
  BY <1>6 DEF LimitInv
<1>12. Promise!Accept
  BY <1>2, <1>7, <1>8, <1>9, <1>10, <1>11 DEF Promise!Accept, LimitInv
<1>13. Older(accepted', bs, n)
  <2>1. Older(ToSet(p), bs, n)
    BY SeenOlder
  <2> QED
    BY <1>2, <2>1 DEF Older
<1> QED
  BY <1>3, <1>4, <1>7, <1>12, <1>13

(* addBatch of the queue in memory. *)
LEMMA AddToMemoryKeeps ==
  ASSUME IInv, NEW k \in 1 .. 2, AddToMemory(k)
  PROVE  IInv' /\ Promise!Accept
<1>1. next \in 1 .. MaxEntry + 1 /\ next + k <= MaxEntry + 1 /\ MaxEntry \in Nat
  BY DeadLetterAssumption DEF DeadLetterAssumption, IInv, KindInv, AddToMemory
<1>2. /\ kind = "memory" /\ arriving = <<>> /\ load = "done" /\ file = Absent
      /\ arriving' = <<>> /\ content' = content /\ file' = file /\ load' = load
      /\ next' = next + k /\ write' = write /\ Push(Batch(k))
  BY DEF IInv, KindInv, AddToMemory, calls, disk
<1>3. /\ InOrder(<<>>, next) /\ Seen(queue, <<>>, next) /\ Seen(content, <<>>, next)
      /\ Seen(Lines(file), <<>>, next)
      /\ write # None => /\ Seen(write.lines, <<>>, next)
                         /\ Size(write.lines) <= MaxBytes
                         /\ write \in [lines : Seq(Entry), open : BOOLEAN, linked : BOOLEAN]
  BY <1>2 DEF IInv, OrderInv
<1>4. <<>> \in Seq(Seq(Entry))
  OBVIOUS
<1>5. /\ Seen(queue, <<>>, next + k) /\ Seen(content, <<>>, next + k)
      /\ Seen(Lines(file), <<>>, next + k)
      /\ write # None => Seen(write.lines, <<>>, next + k)
  BY <1>1, <1>3, <1>4, SeenLater
<1>6. /\ Seen(Batch(k), <<>>, next + k)
      /\ Len(Batch(k)) = k /\ \A i \in 1 .. k : Batch(k)[i] = next + i - 1
  BY <1>1, BatchOf
<1>7. Before(queue, Batch(k))
  <2>1. \A i \in 1 .. Len(queue) : queue[i] \in Nat /\ queue[i] < next
    BY <1>3, SeenBefore
  <2>2. \A j \in 1 .. Len(Batch(k)) : Batch(k)[j] \in Nat /\ Batch(k)[j] >= next
    BY <1>1, <1>6
  <2> QED
    BY <1>1, <2>1, <2>2 DEF Before
<1>a. /\ Older(accepted, <<>>, next + k)
      /\ \A e \in accepted, j \in 1 .. k : e < Batch(k)[j]
  <2>1. Older(accepted, <<>>, next)
    BY <1>2 DEF IInv, AcceptedInv
  <2> QED
    BY <1>1, <1>4, <2>1, OlderLater
<1>8. /\ Seen(queue', <<>>, next + k) /\ Older(accepted', <<>>, next + k) /\ LimitInv'
      /\ Promise!Accept
  BY <1>2, <1>5, <1>6, <1>7, <1>a, PushKeeps DEF IInv
<1>9. InOrder(<<>>, next + k)
  BY DEF InOrder
<1>10. OrderInv'
  BY <1>2, <1>3, <1>5, <1>8, <1>9, OrderNext
<1>11. AcceptedInv'
  BY <1>2, <1>8, AcceptedNext
<1>12. KindInv'
  BY <1>1, <1>2 DEF IInv, KindInv, AddToMemory, calls, disk
<1>13. FileInv'
  BY <1>2 DEF IInv, KindInv, FileInv, AddToMemory, calls, disk
<1> QED
  BY <1>8, <1>10, <1>11, <1>12, <1>13 DEF IInv

(* addBatch of the queue in a file, up to its await. *)
LEMMA AddToFileKeeps ==
  ASSUME IInv, NEW k \in 1 .. 2, AddToFile(k)
  PROVE  IInv' /\ UNCHANGED <<queue, droppedEntries, accepted>>
<1>1. next \in 1 .. MaxEntry + 1 /\ next + k <= MaxEntry + 1 /\ MaxEntry \in Nat
  BY DeadLetterAssumption DEF DeadLetterAssumption, IInv, KindInv, AddToFile
<1>2. /\ kind = "file" /\ arriving' = Append(arriving, Batch(k))
      /\ content' = content /\ file' = file /\ load' = load /\ queue' = queue
      /\ next' = next + k /\ write' = write
  BY DEF AddToFile, calls, disk
<1>3. /\ InOrder(arriving, next) /\ Seen(queue, arriving, next) /\ Seen(content, arriving, next)
      /\ Seen(Lines(file), IF load = "stat" THEN arriving ELSE <<>>, next)
      /\ write # None => /\ Seen(write.lines, <<>>, next)
                         /\ Size(write.lines) <= MaxBytes
                         /\ write \in [lines : Seq(Entry), open : BOOLEAN, linked : BOOLEAN]
  BY DEF IInv, OrderInv
<1>4. <<>> \in Seq(Seq(Entry)) /\ arriving \in Seq(Seq(Entry))
  BY <1>3 DEF InOrder
<1>5. /\ Seen(queue, arriving', next') /\ Seen(content, arriving', next')
      /\ write # None => Seen(write.lines, <<>>, next')
  BY <1>1, <1>2, <1>3, <1>4, SeenLater
<1>6. Seen(Lines(file), IF load = "stat" THEN arriving' ELSE <<>>, next')
  BY <1>1, <1>2, <1>3, <1>4, SeenLater
<1>7. InOrder(arriving', next')
  BY <1>1, <1>2, <1>3, InOrderLater
<1>8. OrderInv'
  BY <1>2, <1>3, <1>5, <1>6, <1>7, OrderNext DEF IInv, OrderInv
<1>9. LimitInv' /\ AcceptedInv'
  <2>1. Older(accepted', arriving', next')
    BY <1>1, <1>2, <1>4, OlderLater DEF IInv, AcceptedInv, AddToFile
  <2> QED
    BY <2>1, AcceptedNext DEF IInv, LimitInv, AcceptedInv, AddToFile
<1>10. KindInv'
  BY <1>1, <1>2 DEF IInv, KindInv, AddToFile, disk
<1>11. FileInv'
  BY <1>2 DEF IInv, FileInv, AddToFile, disk
<1> QED
  BY <1>8, <1>9, <1>10, <1>11 DEF IInv, AddToFile

(* The order of everything, as the next steps need it. *)
LEMMA OrderOld ==
  ASSUME IInv
  PROVE  /\ InOrder(arriving, next) /\ arriving \in Seq(Seq(Entry))
         /\ Seen(queue, arriving, next) /\ Seen(content, arriving, next)
         /\ Seen(Lines(file), IF load = "stat" THEN arriving ELSE <<>>, next)
         /\ Seen(Lines(file), <<>>, next)
         /\ write # None => /\ Seen(write.lines, <<>>, next)
                            /\ Size(write.lines) <= MaxBytes
                            /\ write \in [lines : Seq(Entry), open : BOOLEAN,
                                          linked : BOOLEAN]
         /\ file # Absent => file \in Seq(Entry)
<1>1. OrderInv
  BY DEF IInv
<1>2. Seen(Lines(file), IF load = "stat" THEN arriving ELSE <<>>, next)
  BY <1>1 DEF OrderInv
<1>3. Seen(Lines(file), <<>>, next)
  BY <1>2, SeenAlone
<1>4. arriving \in Seq(Seq(Entry))
  BY <1>1 DEF OrderInv, InOrder
<1> QED
  BY <1>1, <1>3, <1>4 DEF OrderInv

(* addBatch after the load: one more write will follow. *)
LEMMA AdmitKeeps ==
  ASSUME IInv, Admit
  PROVE  IInv' /\ Promise!Accept
<1>1. /\ load = "done" /\ Push(Head(arriving)) /\ arriving' = Tail(arriving)
      /\ content' = content /\ file' = file /\ load' = load
      /\ next' = next /\ write' = write
      /\ writeChain' = Append(writeChain, Head(arriving))
  BY DEF Admit, disk
<1>2. kind = "file"
  BY DEF IInv, KindInv, Admit
<1>3. Len(arriving) > 0 /\ Len(arriving) \in Nat /\ arriving # <<>>
  <2>1. arriving # <<>> /\ arriving \in Seq(Seq(Entry))
    BY OrderOld DEF Admit
  <2>2. Len(arriving) \in Nat /\ Len(arriving) # 0
    BY <2>1, EmptySeq
  <2> QED
    BY <2>1, <2>2
<1>4. InOrder(Tail(arriving), next) /\ Seen(Head(arriving), Tail(arriving), next)
  BY <1>3, OrderOld, InOrderTail
<1>5. Seen(queue, Tail(arriving), next) /\ Seen(content, Tail(arriving), next)
  BY <1>3, OrderOld, SeenTail
<1>6. Before(queue, Head(arriving))
  <2>1. Seen(queue, arriving, next) /\ Head(arriving) = arriving[1]
    BY <1>3, OrderOld, HeadTailProperties
  <2>2. 1 \in 1 .. Len(arriving)
    BY <1>3
  <2> QED
    BY <2>1, <2>2 DEF Seen, Before
<1>a. /\ Older(accepted, Tail(arriving), next)
      /\ \A e \in accepted, j \in 1 .. Len(Head(arriving)) : e < Head(arriving)[j]
  <2>1. Older(accepted, arriving, next) /\ Head(arriving) = arriving[1]
    BY <1>3, OrderOld, HeadTailProperties DEF IInv, AcceptedInv
  <2>2. 1 \in 1 .. Len(arriving)
    BY <1>3
  <2>3. Older(accepted, Tail(arriving), next)
    BY <1>3, <2>1, OrderOld, OlderTail
  <2> QED
    BY <2>1, <2>2, <2>3 DEF Older
<1>7. /\ Seen(queue', arriving', next) /\ Older(accepted', arriving', next) /\ LimitInv'
      /\ Promise!Accept
  BY <1>1, <1>4, <1>5, <1>6, <1>a, PushKeeps DEF IInv
<1>8. OrderInv'
  <2>1. Seen(Lines(file'), IF load' = "stat" THEN arriving' ELSE <<>>, next')
    BY <1>1, OrderOld
  <2> QED
    BY <1>1, <1>4, <1>5, <1>7, <2>1, OrderOld, OrderNext
<1>10. AcceptedInv'
  BY <1>1, <1>7, AcceptedNext
<1>11. Head(arriving) \in Seq(Entry) /\ writeChain \in Seq(Seq(Entry))
  BY <1>3, OrderOld, HeadTailProperties DEF IInv, KindInv
<1>12. /\ writeChain' \in Seq(Seq(Entry)) /\ Len(writeChain') = Len(writeChain) + 1
       /\ Len(writeChain) \in Nat /\ writeChain' # <<>>
  <2>1. /\ writeChain' \in Seq(Seq(Entry)) /\ Len(writeChain') = Len(writeChain) + 1
        /\ Len(writeChain) \in Nat
    BY <1>1, <1>11, AppendProperties
  <2>2. Len(writeChain') # 0
    BY <2>1
  <2> QED
    BY <2>1, <2>2
<1>13. KindInv'
  BY <1>2, <1>12 DEF IInv, KindInv, Admit, disk
<1>14. FileInv'
  <2>1. write # None => Len(writeChain') # 1
    <3>1. write # None => writeChain # <<>>
      BY DEF IInv, FileInv
    <3>2. writeChain # <<>> => Len(writeChain) # 0
      BY <1>11, EmptySeq
    <3> QED
      BY <1>12, <3>1, <3>2
  <2>2. /\ overtaken' = overtaken
        /\ write # None /\ ~overtaken => (write.open => write.linked)
    BY DEF IInv, FileInv, Admit
  <2> QED
    BY <1>1, <1>12, <2>1, <2>2 DEF FileInv
<1> QED
  BY <1>7, <1>8, <1>10, <1>13, <1>14 DEF IInv

(* persistQueueToDisk takes what is affordable. *)
LEMMA PersistKeeps ==
  ASSUME IInv, Persist
  PROVE  IInv' /\ Promise!Trim
<1>1. /\ queue' = Affordable(queue) /\ writeChain # <<>> /\ writeChain' = writeChain
      /\ write' = [lines |-> queue', open |-> FALSE, linked |-> FALSE]
      /\ arriving' = arriving /\ content' = content /\ file' = file /\ load' = load
      /\ next' = next /\ accepted' = accepted
      /\ droppedEntries' = droppedEntries + Len(queue) - Len(queue')
  BY DEF Persist, calls
<1> DEFINE W == Affordable(queue)
<1> HIDE DEF W
<1>2. queue' = W
  BY <1>1 DEF W
<1>3. /\ Seen(W, arriving, next) /\ Len(W) <= Len(queue) /\ Size(W) <= MaxBytes
      /\ Cut(queue, W, Len(queue) - Len(W))
  <2>1. W = Affordable(queue) /\ Seen(queue, arriving, next)
    BY OrderOld DEF W
  <2> QED
    BY <2>1, Kept
<1>4. Len(W) \in Nat /\ Len(queue) \in Nat /\ W \in Seq(Entry) /\ Ascending(W)
  BY <1>3, OrderOld DEF Seen
<1>5. PICK d \in Nat : d = Len(queue) - Len(W) /\ droppedEntries' = droppedEntries + d
  <2>1. Len(queue) - Len(W) \in Nat
    BY <1>3, <1>4
  <2> QED
    BY <1>1, <1>2, <1>4, <2>1 DEF IInv, LimitInv
<1>6. Promise!Trim
  <2>1. ToSet(queue) = ToSet(queue) \union {}
    OBVIOUS
  <2>2. Promise!Keep({})
    BY <1>2, <1>3, <1>4, <1>5, <2>1, CutIsKept
  <2> QED
    BY <1>1, <2>2 DEF Promise!Trim
<1>7. OrderInv'
  <2>1. /\ write'.lines = W
        /\ write' \in [lines : Seq(Entry), open : BOOLEAN, linked : BOOLEAN]
    BY <1>1, <1>2, <1>4
  <2>2. Seen(W, <<>>, next)
    BY <1>3, SeenAlone
  <2>3. Seen(Lines(file'), IF load' = "stat" THEN arriving' ELSE <<>>, next')
    BY <1>1, OrderOld
  <2>4. Seen(write'.lines, <<>>, next') /\ Size(write'.lines) <= MaxBytes
    BY <1>1, <1>3, <2>1, <2>2
  <2>5. Seen(queue', arriving', next')
    BY <1>1, <1>2, <1>3
  <2>6. /\ InOrder(arriving', next') /\ Seen(content', arriving', next')
        /\ file' # Absent => file' \in Seq(Entry)
    BY <1>1, OrderOld
  <2> QED
    BY <2>1, <2>3, <2>4, <2>5, <2>6, OrderNext
<1>8. LimitInv' /\ AcceptedInv'
  <2>1. Len(queue) <= MaxSize /\ MaxSize \in Nat /\ droppedEntries \in Nat
    BY DeadLetterAssumption DEF DeadLetterAssumption, IInv, LimitInv
  <2>2. Len(queue') <= MaxSize /\ droppedEntries' \in Nat
    BY <1>2, <1>3, <1>4, <1>5, <2>1
  <2> QED
    BY <1>1, <2>2, AcceptedSame DEF IInv, LimitInv
<1>9. KindInv'
  BY <1>1 DEF IInv, KindInv, Persist
<1>10. FileInv'
  <2>1. load = "done"
    BY <1>1 DEF IInv, FileInv
  <2>2. write'.lines = queue' /\ ~write'.open
    BY <1>1
  <2> QED
    BY <1>1, <2>1, <2>2 DEF FileInv
<1> QED
  BY <1>6, <1>7, <1>8, <1>9, <1>10 DEF IInv

(* writeFile truncates the file. *)
LEMMA OpenKeeps ==
  ASSUME IInv, Open
  PROVE  IInv' /\ UNCHANGED <<queue, droppedEntries, accepted>>
<1>1. /\ write # None /\ file' = <<>>
      /\ write' = [write EXCEPT !.open = TRUE, !.linked = TRUE]
      /\ arriving' = arriving /\ content' = content /\ load' = load /\ queue' = queue
      /\ next' = next /\ writeChain' = writeChain /\ overtaken' = overtaken
  BY DEF Open, calls
<1>2. /\ write'.lines = write.lines /\ write'.linked
      /\ write' \in [lines : Seq(Entry), open : BOOLEAN, linked : BOOLEAN]
  BY <1>1, OrderOld
<1>3. /\ writeChain # <<>> /\ load = "done" /\ kind = "file"
      /\ ~overtaken => (Len(writeChain) = 1 => write.lines = queue)
  BY <1>1 DEF IInv, FileInv, KindInv
<1>4. OrderInv'
  <2>1. Lines(file') = <<>>
    BY <1>1 DEF Lines
  <2>2. Seen(Lines(file'), IF load' = "stat" THEN arriving' ELSE <<>>, next')
    BY <2>1, SeenNothing
  <2>3. file' \in Seq(Entry)
    BY <1>1
  <2>4. Seen(write'.lines, <<>>, next') /\ Size(write'.lines) <= MaxBytes
    BY <1>1, <1>2, OrderOld
  <2>5. InOrder(arriving', next') /\ Seen(queue', arriving', next') /\ Seen(content', arriving', next')
    BY <1>1, OrderOld
  <2> QED
    BY <1>2, <2>2, <2>3, <2>4, <2>5, OrderNext
<1>5. LimitInv' /\ AcceptedInv'
  BY <1>1, AcceptedSame DEF IInv, LimitInv, Open, calls
<1>6. KindInv'
  BY <1>3 DEF IInv, KindInv, Open, calls
<1>7. FileInv'
  BY <1>1, <1>2, <1>3 DEF FileInv
<1> QED
  BY <1>4, <1>5, <1>6, <1>7 DEF IInv, Open

(* The write ends: the last of the chain has written the queue. *)
LEMMA WrittenKeeps ==
  ASSUME IInv, Written
  PROVE  IInv' /\ UNCHANGED <<queue, droppedEntries, accepted>>
<1>1. /\ write # None /\ write.open /\ write' = None
      /\ file' = IF write.linked THEN write.lines ELSE file
      /\ arriving' = arriving /\ content' = content /\ load' = load /\ queue' = queue
      /\ next' = next /\ writeChain' = Tail(writeChain)
      /\ overtaken' = (overtaken /\ (~write.linked \/ write.lines # queue))
  BY DEF Written
<1>2. /\ writeChain # <<>> /\ load = "done" /\ kind = "file"
      /\ ~overtaken => write.linked /\ (Len(writeChain) = 1 => write.lines = queue)
  BY <1>1 DEF IInv, FileInv, KindInv
<1>3. /\ Seen(write.lines, <<>>, next) /\ write.lines \in Seq(Entry)
      /\ Lines(write.lines) = write.lines /\ write.linked \in BOOLEAN
  BY <1>1, OrderOld, DeadLetterAssumption DEF DeadLetterAssumption, Lines
<1>4. OrderInv'
  <2>1. Seen(Lines(file'), <<>>, next)
    BY <1>1, <1>3, OrderOld
  <2>2. (IF load' = "stat" THEN arriving' ELSE <<>>) = <<>>
    BY <1>1, <1>2
  <2>3. file' # Absent => file' \in Seq(Entry)
    BY <1>1, <1>3, OrderOld
  <2>4. InOrder(arriving', next') /\ Seen(queue', arriving', next') /\ Seen(content', arriving', next')
    BY <1>1, OrderOld
  <2> QED
    BY <1>1, <2>1, <2>2, <2>3, <2>4, OrderNext
<1>5. LimitInv' /\ AcceptedInv'
  BY <1>1, AcceptedSame DEF IInv, LimitInv, Written
<1>6. writeChain \in Seq(Seq(Entry)) /\ overtaken \in BOOLEAN
  BY DEF IInv, KindInv
<1>7. writeChain' \in Seq(Seq(Entry)) /\ (writeChain' = <<>> => Len(writeChain) = 1)
  <2>1. /\ Tail(writeChain) \in Seq(Seq(Entry)) /\ Len(Tail(writeChain)) = Len(writeChain) - 1
        /\ Len(writeChain) \in Nat
    BY <1>2, <1>6, HeadTailProperties
  <2>2. Tail(writeChain) = <<>> => Len(Tail(writeChain)) = 0
    BY <2>1, EmptySeq
  <2>3. Tail(writeChain) = <<>> => Len(writeChain) = 1
    BY <2>1, <2>2
  <2> QED
    BY <1>1, <2>1, <2>3
<1>8. KindInv'
  BY <1>1, <1>2, <1>6, <1>7 DEF IInv, KindInv, Written
<1>9. FileInv'
  <2>1. writeChain' = <<>> /\ ~overtaken' => Lines(file') = queue'
    <3>1. CASE overtaken
      <4>1. ~overtaken' => write.linked /\ write.lines = queue
        BY <1>1, <3>1
      <4> QED
        BY <1>1, <1>3, <4>1
    <3>2. CASE ~overtaken
      <4>1. writeChain' = <<>> => write.linked /\ write.lines = queue
        BY <1>2, <1>7, <3>2
      <4> QED
        BY <1>1, <1>3, <4>1
    <3> QED
      BY <3>1, <3>2
  <2> QED
    BY <1>1, <1>2, <2>1 DEF FileInv
<1> QED
  BY <1>4, <1>5, <1>8, <1>9 DEF IInv, Written

(* The write fails after any of its lines. *)
LEMMA WriteFailsKeeps ==
  ASSUME IInv, WriteFails
  PROVE  IInv' /\ UNCHANGED <<queue, droppedEntries, accepted>>
<1>1. /\ write # None /\ write' = None /\ overtaken' = TRUE
      /\ arriving' = arriving /\ content' = content /\ load' = load /\ queue' = queue
      /\ next' = next /\ writeChain' = Tail(writeChain)
  BY DEF WriteFails
<1>2. PICK n \in 0 .. Len(write.lines) :
        file' = IF write.linked THEN SubSeq(write.lines, 1, n) ELSE file
  BY DEF WriteFails
<1>3. writeChain # <<>> /\ load = "done" /\ kind = "file"
  BY <1>1 DEF IInv, FileInv, KindInv
<1>4. /\ Seen(SubSeq(write.lines, 1, n), <<>>, next)
      /\ SubSeq(write.lines, 1, n) \in Seq(Entry)
      /\ Lines(SubSeq(write.lines, 1, n)) = SubSeq(write.lines, 1, n)
  <2>1. Seen(SubSeq(write.lines, 1, n), <<>>, next)
    BY <1>1, <1>2, OrderOld, SeenFirst
  <2>2. SubSeq(write.lines, 1, n) \in Seq(Entry)
    BY <2>1 DEF Seen
  <2>3. Lines(SubSeq(write.lines, 1, n)) = SubSeq(write.lines, 1, n)
    BY <2>2, DeadLetterAssumption, SMTT(30) DEF DeadLetterAssumption, Lines
  <2> QED
    BY <2>1, <2>2, <2>3
<1>5. OrderInv'
  <2>1. Seen(Lines(file'), <<>>, next)
    BY <1>2, <1>4, OrderOld
  <2>2. (IF load' = "stat" THEN arriving' ELSE <<>>) = <<>>
    BY <1>1, <1>3
  <2>3. file' # Absent => file' \in Seq(Entry)
    BY <1>2, <1>4, OrderOld
  <2>4. InOrder(arriving', next') /\ Seen(queue', arriving', next') /\ Seen(content', arriving', next')
    BY <1>1, OrderOld
  <2> QED
    BY <1>1, <2>1, <2>2, <2>3, <2>4, OrderNext
<1>6. LimitInv' /\ AcceptedInv'
  BY <1>1, AcceptedSame DEF IInv, LimitInv, WriteFails
<1>7. Tail(writeChain) \in Seq(Seq(Entry))
  BY <1>3, HeadTailProperties DEF IInv, KindInv
<1>8. KindInv'
  BY <1>1, <1>3, <1>7 DEF IInv, KindInv, WriteFails
<1>9. FileInv'
  BY <1>1, <1>3 DEF FileInv
<1> QED
  BY <1>5, <1>6, <1>8, <1>9 DEF IInv, WriteFails

(* clear() and flush(). *)
LEMMA ClearKeeps ==
  ASSUME IInv, Clear
  PROVE  IInv' /\ Promise!TakeAll
<1>1. /\ queue' = <<>>
      /\ \/ file = Absent /\ unlinking' = unlinking
         \/ file # Absent /\ unlinking < MaxUnlinks /\ unlinking' = unlinking + 1
      /\ overtaken' = (overtaken \/ load # "done" \/ write # None)
      /\ arriving' = arriving /\ content' = content /\ load' = load /\ kind' = kind
      /\ file' = file /\ write' = write /\ writeChain' = writeChain
      /\ next' = next /\ accepted' = accepted /\ droppedEntries' = droppedEntries
      /\ crashes' = crashes
  BY DEF Clear, calls
<1>2. OrderInv'
  <2>1. Seen(queue', arriving', next')
    BY <1>1, SeenNothing
  <2>2. Seen(Lines(file'), IF load' = "stat" THEN arriving' ELSE <<>>, next')
    BY <1>1, OrderOld
  <2> QED
    BY <1>1, <2>1, <2>2, OrderOld, OrderNext
<1>3. LimitInv' /\ AcceptedInv'
  <2>1. Len(queue') = 0
    BY <1>1
  <2>2. MaxSize \in Nat
    BY DeadLetterAssumption DEF DeadLetterAssumption
  <2>3. AcceptedInv'
    BY <1>1, AcceptedSame DEF IInv
  <2> QED
    BY <1>1, <2>1, <2>2, <2>3 DEF IInv, LimitInv
<1>4. unlinking \in 0 .. MaxUnlinks /\ MaxUnlinks \in Nat
  BY DeadLetterAssumption DEF DeadLetterAssumption, IInv, KindInv
<1>5. KindInv'
  <2>1. unlinking' \in 0 .. MaxUnlinks
    BY <1>1, <1>4
  <2> QED
    BY <1>1, <2>1 DEF IInv, KindInv
<1>6. FileInv'
  <2>1. file' = Absent \/ unlinking' = 0 => Lines(file') = queue'
    BY <1>1, <1>4 DEF Lines
  <2>2. load # "done" => overtaken'
    BY <1>1
  <2>3. FileInv
    BY DEF IInv
  <2> QED
    BY <1>1, <2>1, <2>2, <2>3 DEF FileInv
<1>7. Promise!TakeAll
  BY <1>1 DEF Promise!TakeAll
<1> QED
  BY <1>2, <1>3, <1>5, <1>6, <1>7 DEF IInv

(* unlink() ends. *)
LEMMA UnlinkKeeps ==
  ASSUME IInv, Unlink
  PROVE  IInv' /\ UNCHANGED <<queue, droppedEntries, accepted>>
<1>1. /\ unlinking > 0 /\ unlinking' = unlinking - 1 /\ file' = Absent /\ file # Absent
      /\ write' = IF write = None THEN None ELSE [write EXCEPT !.linked = FALSE]
      /\ overtaken' = (overtaken \/ queue # <<>> \/ write # None)
      /\ arriving' = arriving /\ content' = content /\ load' = load /\ queue' = queue
      /\ next' = next /\ writeChain' = writeChain /\ kind' = kind
  BY DEF Unlink, calls
<1>2. Lines(file') = <<>>
  BY <1>1 DEF Lines
<1>3. write' # None =>
        /\ write # None
        /\ Seen(write'.lines, <<>>, next') /\ Size(write'.lines) <= MaxBytes
        /\ write' \in [lines : Seq(Entry), open : BOOLEAN, linked : BOOLEAN]
  <2>1. CASE write = None
    BY <1>1, <2>1
  <2>2. CASE write # None
    <3>1. /\ write'.lines = write.lines
          /\ write' \in [lines : Seq(Entry), open : BOOLEAN, linked : BOOLEAN]
      BY <1>1, <2>2, OrderOld
    <3> QED
      BY <1>1, <2>2, <3>1, OrderOld
  <2> QED
    BY <2>1, <2>2
<1>4. OrderInv'
  <2>1. Seen(Lines(file'), IF load' = "stat" THEN arriving' ELSE <<>>, next')
    BY <1>2, SeenNothing
  <2>2. InOrder(arriving', next') /\ Seen(queue', arriving', next') /\ Seen(content', arriving', next')
    BY <1>1, OrderOld
  <2> QED
    BY <1>1, <1>3, <2>1, <2>2, OrderNext
<1>5. LimitInv' /\ AcceptedInv'
  BY <1>1, AcceptedSame DEF IInv, LimitInv, Unlink, calls
<1>6. KindInv'
  <2>1. unlinking' \in 0 .. MaxUnlinks
    BY <1>1, DeadLetterAssumption DEF DeadLetterAssumption, IInv, KindInv
  <2> QED
    BY <1>1, <2>1 DEF IInv, KindInv, Unlink, calls
<1>7. FileInv'
  <2>1. FileInv /\ (load # "done" => overtaken)
    BY <1>1 DEF IInv, FileInv
  <2> QED
    BY <1>1, <1>2, <1>3, <2>1 DEF FileInv
<1> QED
  BY <1>4, <1>5, <1>6, <1>7 DEF IInv, Unlink

(* unlink() fails: nothing but its call is gone. *)
LEMMA UnlinkFailsKeeps ==
  ASSUME IInv, UnlinkFails
  PROVE  IInv' /\ UNCHANGED <<queue, droppedEntries, accepted>>
<1>1. /\ unlinking > 0 /\ unlinking' = unlinking - 1
      /\ overtaken' = (overtaken \/ file # Absent)
      /\ arriving' = arriving /\ content' = content /\ load' = load /\ queue' = queue
      /\ next' = next /\ writeChain' = writeChain /\ kind' = kind /\ file' = file
      /\ write' = write /\ accepted' = accepted
  BY DEF UnlinkFails, calls
<1>2. OrderInv'
  <2>1. Seen(Lines(file'), IF load' = "stat" THEN arriving' ELSE <<>>, next')
    BY <1>1, OrderOld
  <2> QED
    BY <1>1, <2>1, OrderOld, OrderNext
<1>3. LimitInv' /\ AcceptedInv'
  BY <1>1, AcceptedSame DEF IInv, LimitInv, UnlinkFails
<1>4. KindInv'
  <2>1. unlinking' \in 0 .. MaxUnlinks
    BY <1>1, DeadLetterAssumption DEF DeadLetterAssumption, IInv, KindInv
  <2> QED
    BY <1>1, <2>1 DEF IInv, KindInv, UnlinkFails, calls
<1>5. FileInv'
  <2>1. FileInv /\ (load # "done" => overtaken)
    BY <1>1 DEF IInv, FileInv
  <2>2. ~overtaken' => ~overtaken /\ file = Absent
    BY <1>1
  <2> QED
    BY <1>1, <2>1, <2>2 DEF FileInv
<1> QED
  BY <1>2, <1>3, <1>4, <1>5 DEF IInv, UnlinkFails

(* loadFromDisk reads the file or leaves it alone. *)
LEMMA ReadKeeps ==
  ASSUME IInv, Read
  PROVE  IInv' /\ UNCHANGED <<queue, droppedEntries, accepted>>
<1>1. /\ load = "stat" /\ queue' = queue /\ arriving' = arriving /\ file' = file
      /\ write' = write /\ writeChain' = writeChain /\ next' = next /\ kind' = kind
      /\ unlinking' = unlinking /\ accepted' = accepted
      /\ \/ /\ load' = "done" /\ content' = content
            /\ overtaken' = (overtaken \/ file # Absent)
         \/ /\ load' = "read" /\ content' = file /\ overtaken' = overtaken
            /\ file # Absent
  BY DEF Read, calls, disk
<1>2. queue = <<>> /\ writeChain = <<>> /\ write = None /\ (unlinking > 0 => overtaken)
  BY <1>1 DEF IInv, FileInv
<1>3. Seen(Lines(file), arriving, next)
  BY <1>1, OrderOld
<1>4. file # Absent => Lines(file) = file
  BY DEF Lines
<1>5. OrderInv'
  <2>1. Seen(content', arriving', next')
    BY <1>1, <1>3, <1>4, OrderOld
  <2>2. Seen(Lines(file'), IF load' = "stat" THEN arriving' ELSE <<>>, next')
    BY <1>1, OrderOld
  <2> QED
    BY <1>1, <1>2, <2>1, <2>2, OrderOld, OrderNext
<1>6. LimitInv' /\ AcceptedInv'
  BY <1>1, AcceptedSame DEF IInv, LimitInv, Read, calls, disk
<1>7. KindInv'
  BY <1>1 DEF IInv, KindInv, Read
<1>8. FileInv'
  <2>1. CASE load' = "done" /\ overtaken' = (overtaken \/ file # Absent)
    BY <1>1, <1>2, <2>1 DEF FileInv, Lines
  <2>2. CASE load' = "read" /\ content' = file /\ overtaken' = overtaken /\ file # Absent
    BY <1>1, <1>2, <1>4, <2>2 DEF FileInv, Lines
  <2> QED
    BY <1>1, <2>1, <2>2
<1> QED
  BY <1>5, <1>6, <1>7, <1>8 DEF IInv, Read

(* loadFromDisk fails: the queue starts empty. *)
LEMMA LoadFailsKeeps ==
  ASSUME IInv, LoadFails
  PROVE  IInv' /\ UNCHANGED <<queue, droppedEntries, accepted>>
<1>1. /\ load # "done" /\ load' = "done" /\ content' = <<>>
      /\ overtaken' = (overtaken \/ file # Absent)
      /\ queue' = queue /\ arriving' = arriving /\ file' = file /\ write' = write
      /\ writeChain' = writeChain /\ next' = next /\ kind' = kind
      /\ unlinking' = unlinking /\ accepted' = accepted
  BY DEF LoadFails, calls, disk
<1>2. queue = <<>> /\ writeChain = <<>> /\ write = None
  BY <1>1 DEF IInv, FileInv
<1>3. OrderInv'
  <2>1. Seen(content', arriving', next')
    BY <1>1, SeenNothing
  <2>2. Seen(Lines(file'), IF load' = "stat" THEN arriving' ELSE <<>>, next')
    BY <1>1, OrderOld
  <2> QED
    BY <1>1, <1>2, <2>1, <2>2, OrderOld, OrderNext
<1>4. LimitInv' /\ AcceptedInv'
  BY <1>1, AcceptedSame DEF IInv, LimitInv, LoadFails
<1>5. KindInv'
  BY <1>1 DEF IInv, KindInv, LoadFails
<1>6. FileInv'
  <2>1. ~overtaken' => Lines(file') = queue'
    BY <1>1, <1>2 DEF Lines
  <2> QED
    BY <1>1, <1>2, <2>1 DEF FileInv
<1> QED
  BY <1>3, <1>4, <1>5, <1>6 DEF IInv, LoadFails

(* loadFromDisk replaces the queue by what it read. *)
LEMMA LoadedKeeps ==
  ASSUME IInv, Loaded
  PROVE  IInv' /\ Promise!Accept
<1>1. /\ load = "read" /\ load' = "done" /\ content' = <<>>
      /\ queue' = Within(content, MaxSize)
      /\ droppedEntries' = droppedEntries + Len(content) - Len(queue')
      /\ accepted' = accepted \union ToSet(content)
      /\ overtaken' = (overtaken \/ Len(content) > MaxSize)
      /\ arriving' = arriving /\ file' = file /\ write' = write
      /\ writeChain' = writeChain /\ next' = next /\ kind' = kind
  BY DEF Loaded, calls, disk
<1>2. /\ queue = <<>> /\ writeChain = <<>> /\ write = None
      /\ ~overtaken => Lines(file) = content
      /\ kind = "file"
  BY <1>1 DEF IInv, FileInv, KindInv
<1>3. content \in Seq(Entry) /\ Len(content) \in Nat /\ Len(queue) = 0
  BY <1>2, OrderOld DEF Seen
<1>4. Push(content)
  <2>1. queue \o content = content
    BY <1>2, <1>3, ConcatEmptySeq
  <2> QED
    BY <1>1, <1>3, <2>1 DEF Push, LimitInv, IInv
<1>5. Before(queue, content)
  BY <1>3 DEF Before
<1>6. /\ Seen(queue', arriving, next) /\ Older(accepted', arriving, next) /\ LimitInv'
      /\ Promise!Accept
  <2>1. accepted = {} /\ Older(accepted, arriving, next)
    BY <1>1 DEF IInv, AcceptedInv
  <2> QED
    BY <1>4, <1>5, <2>1, OrderOld, PushKeeps DEF IInv
<1>7. OrderInv'
  <2>1. Seen(content', arriving', next')
    BY <1>1, SeenNothing
  <2>2. Seen(Lines(file'), IF load' = "stat" THEN arriving' ELSE <<>>, next')
    BY <1>1, OrderOld
  <2> QED
    BY <1>1, <1>2, <1>6, <2>1, <2>2, OrderOld, OrderNext
<1>8. AcceptedInv'
  BY <1>1, <1>6, AcceptedNext
<1>9. KindInv'
  BY <1>1, <1>2 DEF IInv, KindInv, Loaded, disk
<1>10. Len(content) <= MaxSize => queue' = content
  <2>1. SUFFICES ASSUME Len(content) <= MaxSize PROVE Within(content, MaxSize) = content
    BY <1>1
  <2>2. Min({Len(content), MaxSize}) = Len(content)
    BY <1>3, <2>1, MinOfTwo, DeadLetterAssumption DEF DeadLetterAssumption
  <2>3. Len(content) - Len(content) + 1 = 1
    BY <1>3
  <2>4. SubSeq(content, 1, Len(content)) = content
    BY <1>3
  <2> QED
    BY <2>2, <2>3, <2>4 DEF Within, Newest
<1>11. FileInv'
  <2>1. ~overtaken' => Lines(file') = queue'
    <3>1. MaxSize \in Nat
      BY DeadLetterAssumption DEF DeadLetterAssumption
    <3>2. ~overtaken' => ~overtaken /\ ~(Len(content) > MaxSize)
      BY <1>1
    <3>3. ~(Len(content) > MaxSize) => Len(content) <= MaxSize
      BY <1>3, <3>1
    <3> QED
      BY <1>1, <1>2, <1>10, <3>2, <3>3
  <2> QED
    BY <1>1, <1>2, <2>1 DEF FileInv
<1> QED
  BY <1>1, <1>6, <1>7, <1>8, <1>9, <1>11 DEF IInv

(* A crash leaves the file, or the lines a write had got to. *)
LEMMA CrashKeeps ==
  ASSUME IInv, Crash
  PROVE  IInv' /\ Promise!Restart
<1>1. /\ queue' = <<>> /\ accepted' = {} /\ droppedEntries' = 0
      /\ load' = LoadOf(file') /\ content' = <<>> /\ arriving' = <<>>
      /\ writeChain' = <<>> /\ write' = None /\ unlinking' = 0
      /\ overtaken' = FALSE /\ next' = next /\ kind' = kind /\ kind = "file"
      /\ crashes' = crashes + 1 /\ crashes < MaxCrashes
  BY DEF Crash
<1>2. PICK n \in 0 .. MaxEntry :
        /\ IF write = None THEN n = 0 ELSE n <= Len(write.lines)
        /\ file' = IF write # None /\ write.linked
                     THEN SubSeq(write.lines, 1, n) ELSE file
  BY DEF Crash
<1>3. Seen(Lines(file'), <<>>, next) /\ (file' # Absent => file' \in Seq(Entry))
  <2>1. CASE write # None /\ write.linked
    <3>1. Len(write.lines) \in Nat
      BY <2>1, OrderOld DEF Seen
    <3>2. n \in 0 .. Len(write.lines)
      BY <1>2, <2>1, <3>1
    <3>3. Seen(SubSeq(write.lines, 1, n), <<>>, next)
      BY <2>1, <3>2, OrderOld, SeenFirst
    <3>4. SubSeq(write.lines, 1, n) \in Seq(Entry)
      BY <3>3 DEF Seen
    <3>5. Lines(SubSeq(write.lines, 1, n)) = SubSeq(write.lines, 1, n)
      BY <3>4, DeadLetterAssumption, SMTT(30) DEF DeadLetterAssumption, Lines
    <3> QED
      BY <1>2, <2>1, <3>3, <3>4, <3>5
  <2>2. CASE ~(write # None /\ write.linked)
    BY <1>2, <2>2, OrderOld
  <2> QED
    BY <2>1, <2>2
<1>4. OrderInv'
  <2>1. InOrder(<<>>, next)
    BY DEF InOrder
  <2>2. (IF load' = "stat" THEN arriving' ELSE <<>>) = <<>>
    BY <1>1
  <2>3. Seen(queue', arriving', next') /\ Seen(content', arriving', next')
    BY <1>1, SeenNothing
  <2> QED
    BY <1>1, <1>3, <2>1, <2>2, <2>3, OrderNext
<1>5. LimitInv' /\ AcceptedInv'
  <2>1. Len(queue') = 0 /\ MaxSize \in Nat
    BY <1>1, DeadLetterAssumption DEF DeadLetterAssumption
  <2> QED
    BY <1>1, <2>1 DEF LimitInv, AcceptedInv, Older
<1>6. KindInv'
  <2>1. crashes' \in 0 .. MaxCrashes /\ 0 \in 0 .. MaxUnlinks
    BY <1>1, DeadLetterAssumption DEF DeadLetterAssumption, IInv, KindInv
  <2>2. <<>> \in Seq(Seq(Entry)) /\ kind' \notin {"memory"} /\ load' \in {"stat", "read", "done"}
    BY <1>1 DEF LoadOf
  <2>3. next' \in 1 .. MaxEntry + 1 /\ kind' \in {"memory", "file"}
    BY <1>1 DEF IInv, KindInv
  <2> QED
    BY <1>1, <2>1, <2>2, <2>3 DEF KindInv
<1>7. FileInv'
  <2>1. load' = "done" => Lines(file') = <<>>
    BY <1>1 DEF LoadOf, Lines
  <2>2. load' # "read"
    BY <1>1 DEF LoadOf
  <2> QED
    BY <1>1, <2>1, <2>2 DEF FileInv
<1>8. Promise!Restart
  BY <1>1 DEF Promise!Restart
<1> QED
  BY <1>4, <1>5, <1>6, <1>7, <1>8 DEF IInv

(* A step that changes nothing. *)
LEMMA StutterKeeps ==
  ASSUME IInv, UNCHANGED vars
  PROVE  IInv' /\ UNCHANGED <<queue, droppedEntries, accepted>>
<1>1. /\ kind' = kind /\ queue' = queue /\ droppedEntries' = droppedEntries
      /\ load' = load /\ content' = content /\ arriving' = arriving
      /\ writeChain' = writeChain /\ write' = write /\ unlinking' = unlinking
      /\ file' = file /\ next' = next /\ crashes' = crashes
      /\ accepted' = accepted /\ overtaken' = overtaken
  BY DEF vars, calls, disk
<1>2. OrderInv'
  <2>1. Seen(Lines(file'), IF load' = "stat" THEN arriving' ELSE <<>>, next')
    BY <1>1, OrderOld
  <2> QED
    BY <1>1, <2>1, OrderOld, OrderNext
<1>3. LimitInv' /\ AcceptedInv' /\ KindInv' /\ FileInv'
  BY <1>1, AcceptedSame DEF IInv, LimitInv, KindInv, FileInv
<1> QED
  BY <1>1, <1>2, <1>3 DEF IInv

-----------------------------------------------------------------------------
(* The invariant is inductive. *)
LEMMA StepInv == IInv /\ [Next]_vars => IInv'
<1> SUFFICES ASSUME IInv, [Next]_vars PROVE IInv'
  OBVIOUS
<1>1. ASSUME NEW n \in 1 .. 2, AddToMemory(n) PROVE IInv'
  BY <1>1, AddToMemoryKeeps
<1>2. ASSUME NEW n \in 1 .. 2, AddToFile(n) PROVE IInv'
  BY <1>2, AddToFileKeeps
<1>3. CASE Admit
  BY <1>3, AdmitKeeps
<1>4. CASE Persist
  BY <1>4, PersistKeeps
<1>5. CASE Open
  BY <1>5, OpenKeeps
<1>6. CASE Written
  BY <1>6, WrittenKeeps
<1>7. CASE WriteFails
  BY <1>7, WriteFailsKeeps
<1>8. CASE Clear
  BY <1>8, ClearKeeps
<1>9. CASE Unlink
  BY <1>9, UnlinkKeeps
<1>10. CASE Read
  BY <1>10, ReadKeeps
<1>11. CASE Loaded
  BY <1>11, LoadedKeeps
<1>12. CASE Crash
  BY <1>12, CrashKeeps
<1>13. CASE UNCHANGED vars
  BY <1>13, StutterKeeps
<1>14. CASE UnlinkFails
  BY <1>14, UnlinkFailsKeeps
<1>15. CASE LoadFails
  BY <1>15, LoadFailsKeeps
<1> QED
  BY <1>1, <1>2, <1>3, <1>4, <1>5, <1>6, <1>7, <1>8, <1>9, <1>10, <1>11, <1>12,
     <1>13, <1>14, <1>15 DEF Next

(* So every reachable state satisfies it. *)
LEMMA Invariance == Spec => []IInv
BY InitInv, StepInv, PTL DEF Spec

(* The queue is bounded and made of entries, the lines of a write fit the  *)
(* budget of the file, and every counter and flag keeps its type           *)
(* (addBatch, persistQueueToDisk).                                         *)
THEOREM QueueTyped == Spec => []TypeOK
<1>1. IInv => TypeOK
  <2> SUFFICES ASSUME IInv PROVE TypeOK
    OBVIOUS
  <2>1. queue \in Seq(Entry) /\ content \in Seq(Entry)
    BY OrderOld DEF Seen
  <2>2. file = Absent \/ file \in Seq(Entry)
    BY OrderOld
  <2>3. write = None \/ Size(write.lines) <= MaxBytes
    BY OrderOld
  <2>4. arriving \in Seq(Seq(Entry))
    BY OrderOld
  <2>5. accepted \subseteq Entry
    BY DEF IInv, AcceptedInv, Older
  <2> QED
    BY <2>1, <2>2, <2>3, <2>4, <2>5 DEF TypeOK, IInv, LimitInv, KindInv
<1> QED
  BY <1>1, Invariance, PTL

(* When no call is pending the file is the queue, so that a restart finds  *)
(* every acknowledged entry that was not dropped - but, up to the next     *)
(* write, after a write, an unlink or a load that failed, a clear() that   *)
(* overlapped a write or the load, and a load under smaller limits         *)
(* (addBatch, persistQueueToDisk, clear, loadFromDisk).                    *)
THEOREM FileMatchesQueue == Spec => []FileIsQueue
<1>1. IInv => FileIsQueue
  BY DEF IInv, FileInv, FileIsQueue
<1> QED
  BY <1>1, Invariance, PTL

-----------------------------------------------------------------------------
(***************************************************************************)
(* The refinement of DropOldestQueue.                                      *)
(***************************************************************************)

(* Every step is one of the abstract queue, or changes nothing of it. *)
LEMMA Refines ==
  ASSUME IInv, [Next]_vars
  PROVE  [Promise!Accept \/ Promise!Trim \/ Promise!TakeAll
            \/ Promise!Restart]_(Promise!vars)
<1>s. UNCHANGED <<queue, droppedEntries, accepted>> => UNCHANGED Promise!vars
  BY DEF Promise!vars
<1>1. ASSUME \/ \E n \in 1 .. 2 : AddToMemory(n)
             \/ Admit \/ Loaded
      PROVE  Promise!Accept
  BY <1>1, AddToMemoryKeeps, AdmitKeeps, LoadedKeeps
<1>2. CASE Persist
  BY <1>2, PersistKeeps
<1>3. CASE Clear
  BY <1>3, ClearKeeps
<1>4. CASE Crash
  BY <1>4, CrashKeeps
<1>5. ASSUME \/ \E n \in 1 .. 2 : AddToFile(n)
             \/ Open \/ Written \/ WriteFails \/ Unlink \/ UnlinkFails
             \/ Read \/ LoadFails \/ UNCHANGED vars
      PROVE  UNCHANGED Promise!vars
  BY <1>5, <1>s, AddToFileKeeps, OpenKeeps, WrittenKeeps, WriteFailsKeeps, UnlinkKeeps,
     UnlinkFailsKeeps, ReadKeeps, LoadFailsKeeps, StutterKeeps
<1> QED
  BY <1>1, <1>2, <1>3, <1>4, <1>5 DEF Next

(* Either queue keeps the newest entries in their order, makes room only   *)
(* when it is full and by the oldest, and counts every one it forgot,      *)
(* through loads, halvings, clears and restarts: it is the abstract        *)
(* DropOldestQueue (addBatch, persistQueueToDisk, loadFromDisk, clear).    *)
THEOREM ImplementsDropOldest == Spec => KeepsNewest
<1>1. Init => Promise!Empty
  BY DEF Init, Promise!Empty
<1>2. IInv /\ [Next]_vars
        => [Promise!Accept \/ Promise!Trim \/ Promise!TakeAll
              \/ Promise!Restart]_(Promise!vars)
  BY Refines
<1> QED
  BY <1>1, <1>2, Invariance, PTL DEF Spec, KeepsNewest, Promise!Spec
=============================================================================
