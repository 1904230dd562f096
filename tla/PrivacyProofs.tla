--------------------------- MODULE PrivacyProofs ----------------------------
(***************************************************************************)
(* That nothing sensitive is shown, for any rules, records and budgets: a  *)
(* question that is answered with "not sensitive" was answered by the      *)
(* engines' own word (Matches), or by the search for a required character  *)
(* that no match of the pattern can do without.                            *)
(***************************************************************************)
EXTENDS Privacy, SumTheorems

-----------------------------------------------------------------------------
(* The functions that are defined by recursion over a length: that there   *)
(* is one that satisfies its definition, so that its values are what the   *)
(* definition says.  In each lemma Has are the lengths up to which there   *)
(* is such a function, and a longer one is put together from a shorter.    *)

LEMMA ToTheEnd ==
  ASSUME NEW N \in Nat, NEW Has, Has \subseteq 0 .. N,
         ASSUME NEW m \in 0 .. N, m = 0 \/ m - 1 \in Has
         PROVE  m \in Has
  PROVE  N \in Has
<1> DEFINE Bad == (0 .. N) \ Has
<1>1. SUFFICES ASSUME N \notin Has
               PROVE  FALSE
  OBVIOUS
<1>2. PICK m \in Bad : \A k \in Bad : m <= k
  <2>1. Bad \subseteq Nat /\ Bad # {}
    BY <1>1
  <2> HIDE DEF Bad
  <2> QED
    BY <2>1, LeastNatural
<1>3. m = 0 \/ m - 1 \in Has
  BY <1>2
<1> QED
  BY <1>2, <1>3

(* filter() *)
LEMMA FilteredDef ==
  ASSUME NEW items, Len(items) \in Nat, NEW S
  PROVE  \A n \in 0 .. Len(items) :
           Filtered(items, S)[n] =
             IF n = 0 THEN <<>>
             ELSE IF items[n] \in S THEN Append(Filtered(items, S)[n - 1], items[n])
             ELSE Filtered(items, S)[n - 1]
<1> DEFINE f == Filtered(items, S)
           Step(g, n) ==
             IF n = 0 THEN <<>>
             ELSE IF items[n] \in S THEN Append(g[n - 1], items[n])
             ELSE g[n - 1]
           Upto(g, m) == g = [n \in 0 .. m |-> Step(g, n)]
           Has == {m \in 0 .. Len(items) : \E g : Upto(g, m)}
<1>1. ASSUME NEW m \in 0 .. Len(items), m = 0 \/ m - 1 \in Has
      PROVE  m \in Has
  <2>1. PICK g : m = 0 \/ Upto(g, m - 1)
    <3> HIDE DEF Upto
    <3> QED
      BY <1>1
  <2> HIDE DEF Has
  <2> DEFINE h == [n \in 0 .. m |-> IF n < m THEN g[n] ELSE Step(g, m)]
  <2>2. \A n \in 0 .. m : Step(h, n) = Step(g, n)
    <3> TAKE n \in 0 .. m
    <3>1. n # 0 => h[n - 1] = g[n - 1]
      <4> HIDE DEF Step
      <4> QED
        BY <1>1
    <3> HIDE DEF h
    <3> QED
      BY <3>1
  <2>3. \A n \in 0 .. m : h[n] = Step(g, n)
    <3> HIDE DEF Step
    <3>1. \A n \in 0 .. m : n < m => g[n] = Step(g, n)
      BY <1>1, <2>1
    <3> QED
      BY <1>1, <3>1
  <2>4. Upto(h, m)
    <3> HIDE DEF Step
    <3> QED
      BY <2>2, <2>3
  <2> HIDE DEF Upto, h
  <2> QED
    BY <1>1, <2>4 DEF Has
<1>2. Upto(f, Len(items))
  <2>1. \E g : Upto(g, Len(items))
    <3> HIDE DEF Upto
    <3> QED
      BY <1>1, ToTheEnd
  <2>2. f = CHOOSE g : Upto(g, Len(items))
    BY DEF Filtered
  <2> HIDE DEF Upto, f
  <2> QED
    BY <2>1, <2>2
<1> QED
  <2>1. \A n \in 0 .. Len(items) : f[n] = Step(f, n)
    <3> HIDE DEF f, Step
    <3> QED
      BY <1>2
  <2> QED
    BY <2>1

(* The rounds of a repetition. *)
LEMMA RoundsDef ==
  ASSUME NEW step, NEW i, NEW most \in Nat
  PROVE  /\ Rounds(step, i, most)[0] = {i}
         /\ \A n \in 1 .. most :
              \A x : x \in Rounds(step, i, most)[n] <=>
                      \E j \in Rounds(step, i, most)[n - 1] : x \in step[j]
<1> DEFINE f == Rounds(step, i, most)
           Step(g, n) ==
             IF n = 0 THEN {i} ELSE UNION {step[j] : j \in g[n - 1]}
           Upto(g, m) == g = [n \in 0 .. m |-> Step(g, n)]
           Has == {m \in 0 .. most : \E g : Upto(g, m)}
<1>1. ASSUME NEW m \in 0 .. most, m = 0 \/ m - 1 \in Has
      PROVE  m \in Has
  <2>1. PICK g : m = 0 \/ Upto(g, m - 1)
    <3> HIDE DEF Upto
    <3> QED
      BY <1>1
  <2> HIDE DEF Has
  <2> DEFINE h == [n \in 0 .. m |-> IF n < m THEN g[n] ELSE Step(g, m)]
  <2>2. \A n \in 0 .. m : Step(h, n) = Step(g, n)
    <3> TAKE n \in 0 .. m
    <3>1. n # 0 => h[n - 1] = g[n - 1]
      <4> HIDE DEF Step
      <4> QED
        BY <1>1
    <3> HIDE DEF h
    <3> QED
      BY <3>1
  <2>3. \A n \in 0 .. m : h[n] = Step(g, n)
    <3> HIDE DEF Step
    <3>1. \A n \in 0 .. m : n < m => g[n] = Step(g, n)
      BY <1>1, <2>1
    <3> QED
      BY <1>1, <3>1
  <2>4. Upto(h, m)
    <3> HIDE DEF Step
    <3> QED
      BY <2>2, <2>3
  <2> HIDE DEF Upto, h
  <2> QED
    BY <1>1, <2>4 DEF Has
<1>2. Upto(f, most)
  <2>1. \E g : Upto(g, most)
    <3> HIDE DEF Upto
    <3> QED
      BY <1>1, ToTheEnd
  <2>2. f = CHOOSE g : Upto(g, most)
    BY DEF Rounds
  <2> HIDE DEF Upto, f
  <2> QED
    BY <2>1, <2>2
<1> QED
  <2>1. \A n \in 0 .. most : f[n] = Step(f, n)
    <3> HIDE DEF f, Step
    <3> QED
      BY <1>2
  <2>2. 0 \in 0 .. most /\ \A n \in 1 .. most : n \in 0 .. most /\ n # 0
    OBVIOUS
  <2> HIDE DEF f
  <2>3. f[0] = {i}
    BY <2>1, <2>2
  <2>4. ASSUME NEW n \in 1 .. most
        PROVE  f[n] = UNION {step[j] : j \in f[n - 1]}
    BY <2>1, <2>2
  <2>5. \A n \in 1 .. most : \A x : x \in f[n] <=> \E j \in f[n - 1] : x \in step[j]
    BY <2>4
  <2> QED
    BY <2>3, <2>5 DEF f

(* The search for required characters: a class at which it does not stop,  *)
(* or stopped before, changes nothing.                                     *)
LEMMA SearchedDef ==
  ASSUME NEW classes, Len(classes) \in Nat, NEW text, NEW c
  PROVE  /\ ~Searched(classes, text, c)[0].hit
         /\ \A n \in 1 .. Len(classes) :
              \/ Searched(classes, text, c)[n] = Searched(classes, text, c)[n - 1]
              \/ Searched(classes, text, c)[n].hit
                   <=> classes[n] \intersect ToSet(text) = {}
<1> DEFINE f == Searched(classes, text, c)
           Step(g, n) ==
             LET before == g[n - 1]
             IN  IF n = 0 THEN Outcome(FALSE, c)
                 ELSE IF before.hit \/ before.call.failed THEN before
                 ELSE Outcome(classes[n] \intersect ToSet(text) = {},
                              Spent(before.call, (Len(text) + 1) * Cardinality(classes[n])))
           Upto(g, m) == g = [n \in 0 .. m |-> Step(g, n)]
           Has == {m \in 0 .. Len(classes) : \E g : Upto(g, m)}
<1>1. ASSUME NEW m \in 0 .. Len(classes), m = 0 \/ m - 1 \in Has
      PROVE  m \in Has
  <2>1. PICK g : m = 0 \/ Upto(g, m - 1)
    <3> HIDE DEF Upto
    <3> QED
      BY <1>1
  <2> HIDE DEF Has
  <2> DEFINE h == [n \in 0 .. m |-> IF n < m THEN g[n] ELSE Step(g, m)]
  <2>2. \A n \in 0 .. m : Step(h, n) = Step(g, n)
    <3> TAKE n \in 0 .. m
    <3>1. n # 0 => h[n - 1] = g[n - 1]
      <4> HIDE DEF Step
      <4> QED
        BY <1>1
    <3> HIDE DEF h
    <3> QED
      BY <3>1
  <2>3. \A n \in 0 .. m : h[n] = Step(g, n)
    <3> HIDE DEF Step
    <3>1. \A n \in 0 .. m : n < m => g[n] = Step(g, n)
      BY <1>1, <2>1
    <3> QED
      BY <1>1, <3>1
  <2>4. Upto(h, m)
    <3> HIDE DEF Step
    <3> QED
      BY <2>2, <2>3
  <2> HIDE DEF Upto, h
  <2> QED
    BY <1>1, <2>4 DEF Has
<1>2. Upto(f, Len(classes))
  <2>1. \E g : Upto(g, Len(classes))
    <3> HIDE DEF Upto
    <3> QED
      BY <1>1, ToTheEnd
  <2>2. f = CHOOSE g : Upto(g, Len(classes))
    BY DEF Searched
  <2> HIDE DEF Upto, f
  <2> QED
    BY <2>1, <2>2
<1> QED
  <2>1. \A n \in 0 .. Len(classes) : f[n] = Step(f, n)
    <3> HIDE DEF f, Step
    <3> QED
      BY <1>2
  <2>2. 0 \in 0 .. Len(classes) /\ \A n \in 1 .. Len(classes) : n \in 0 .. Len(classes) /\ n # 0
    OBVIOUS
  <2> HIDE DEF f
  <2>3. ~f[0].hit
    <3>1. f[0] = Outcome(FALSE, c)
      BY <2>1, <2>2
    <3>2. Outcome(FALSE, c).hit = FALSE
      BY DEF Outcome
    <3> QED
      BY <3>1, <3>2
  <2>4. ASSUME NEW n \in 1 .. Len(classes)
        PROVE  f[n] = f[n - 1] \/ (f[n].hit <=> classes[n] \intersect ToSet(text) = {})
    <3>1. f[n] = Step(f, n)
      BY <2>1, <2>2
    <3>2. n # 0
      BY <2>2
    <3>3. CASE f[n - 1].hit \/ f[n - 1].call.failed
      BY <3>1, <3>2, <3>3
    <3>4. CASE ~(f[n - 1].hit \/ f[n - 1].call.failed)
      <4> DEFINE spent == Spent(f[n - 1].call, (Len(text) + 1) * Cardinality(classes[n]))
      <4>1. f[n] = Outcome(classes[n] \intersect ToSet(text) = {}, spent)
        BY <3>1, <3>2, <3>4
      <4> HIDE DEF spent
      <4>2. f[n].hit = (classes[n] \intersect ToSet(text) = {})
        BY <4>1 DEF Outcome
      <4> QED
        BY <4>2
    <3> QED
      BY <3>3, <3>4
  <2> QED
    BY <2>3, <2>4 DEF f

(* The loop of any(). *)
LEMMA TestedDef ==
  ASSUME NEW role, NEW rules, Len(rules) \in Nat, NEW text, NEW c
  PROVE  \A n \in 1 .. Len(rules) :
           Tested(role, rules, text, c)[n] =
             IF Tested(role, rules, text, c)[n - 1].hit THEN Tested(role, rules, text, c)[n - 1]
             ELSE TestRule(role, rules[n], text, Tested(role, rules, text, c)[n - 1].call)
<1> DEFINE f == Tested(role, rules, text, c)
           Step(g, n) ==
             LET before == g[n - 1]
             IN  IF n = 0 THEN Outcome(FALSE, c)
                 ELSE IF before.hit THEN before
                 ELSE TestRule(role, rules[n], text, before.call)
           Upto(g, m) == g = [n \in 0 .. m |-> Step(g, n)]
           Has == {m \in 0 .. Len(rules) : \E g : Upto(g, m)}
<1>1. ASSUME NEW m \in 0 .. Len(rules), m = 0 \/ m - 1 \in Has
      PROVE  m \in Has
  <2>1. PICK g : m = 0 \/ Upto(g, m - 1)
    <3> HIDE DEF Upto
    <3> QED
      BY <1>1
  <2> HIDE DEF Has
  <2> DEFINE h == [n \in 0 .. m |-> IF n < m THEN g[n] ELSE Step(g, m)]
  <2>2. \A n \in 0 .. m : Step(h, n) = Step(g, n)
    <3> TAKE n \in 0 .. m
    <3>1. n # 0 => h[n - 1] = g[n - 1]
      <4> HIDE DEF Step
      <4> QED
        BY <1>1
    <3> HIDE DEF h
    <3> QED
      BY <3>1
  <2>3. \A n \in 0 .. m : h[n] = Step(g, n)
    <3> HIDE DEF Step
    <3>1. \A n \in 0 .. m : n < m => g[n] = Step(g, n)
      BY <1>1, <2>1
    <3> QED
      BY <1>1, <3>1
  <2>4. Upto(h, m)
    <3> HIDE DEF Step
    <3> QED
      BY <2>2, <2>3
  <2> HIDE DEF Upto, h
  <2> QED
    BY <1>1, <2>4 DEF Has
<1>2. Upto(f, Len(rules))
  <2>1. \E g : Upto(g, Len(rules))
    <3> HIDE DEF Upto
    <3> QED
      BY <1>1, ToTheEnd
  <2>2. f = CHOOSE g : Upto(g, Len(rules))
    BY DEF Tested
  <2> HIDE DEF Upto, f
  <2> QED
    BY <2>1, <2>2
<1> QED
  <2>1. \A n \in 0 .. Len(rules) : f[n] = Step(f, n)
    <3> HIDE DEF f, Step
    <3> QED
      BY <1>2
  <2>2. ASSUME NEW n \in 1 .. Len(rules)
        PROVE  f[n] = IF f[n - 1].hit THEN f[n - 1]
                      ELSE TestRule(role, rules[n], text, f[n - 1].call)
    <3>1. n \in 0 .. Len(rules) /\ n # 0
      OBVIOUS
    <3> HIDE DEF f
    <3> QED
      BY <2>1, <3>1
  <2> QED
    BY <2>2
(* The nodes of a pattern. *)
LEMMA PatternParts ==
  ASSUME NEW p \in Patterns, NEW k \in 1 .. Len(p)
  PROVE  /\ p[k] \in Nodes
         /\ PartsOf(p[k]) \subseteq 1 .. k - 1
         /\ p[k].kind \in {"class", "assertion", "sequence", "alternative", "repeat"}
<1>1. p \in Seq(Nodes) /\ DOMAIN p = 1 .. Len(p)
  BY LenProperties DEF Patterns
<1>2. p[k] \in Nodes
  BY <1>1, ElementOfSeq
<1> QED
  BY <1>1, <1>2 DEF Patterns, Nodes

(* The required classes of the nodes, for which those of their parts are    *)
(* all that counts.                                                        *)
LEMMA RequiredDef ==
  ASSUME NEW p \in Patterns
  PROVE  \A k \in 1 .. Len(p) :
           Required(p)[k] = RequiredOf(p[k], Required(p))
<1> DEFINE f == Required(p)
           Step(g, k) == RequiredOf(p[k], g)
           Upto(g, m) == g = [k \in 1 .. m |-> Step(g, k)]
           Has == {m \in 0 .. Len(p) : \E g : Upto(g, m)}
<1>1. Len(p) \in Nat
  BY LenProperties DEF Patterns
<1>2. ASSUME NEW m \in 0 .. Len(p), m = 0 \/ m - 1 \in Has
      PROVE  m \in Has
  <2>1. PICK g : m = 0 \/ Upto(g, m - 1)
    <3> HIDE DEF Upto
    <3> QED
      BY <1>2
  <2> HIDE DEF Has
  <2> DEFINE h == [k \in 1 .. m |-> IF k < m THEN g[k] ELSE Step(g, m)]
  <2>2. \A k \in 1 .. m : Step(h, k) = Step(g, k)
    <3> TAKE k \in 1 .. m
    <3>1. \A j \in 1 .. k - 1 : h[j] = g[j]
      <4> HIDE DEF Step
      <4> QED
        BY <1>1, <1>2
    <3>2. /\ PartsOf(p[k]) \subseteq 1 .. k - 1
          /\ p[k].kind \in {"class", "assertion", "sequence", "alternative", "repeat"}
      BY <1>1, <1>2, PatternParts
    <3> HIDE DEF h
    <3>3. CASE p[k].kind \in {"class", "assertion"}
      BY <3>3 DEF RequiredOf
    <3>4. CASE p[k].kind \in {"sequence", "alternative"}
      <4>1. h[p[k].left] = g[p[k].left] /\ h[p[k].right] = g[p[k].right]
        BY <3>1, <3>2, <3>4 DEF PartsOf
      <4> QED
        BY <3>4, <4>1 DEF RequiredOf
    <3>5. CASE p[k].kind = "repeat"
      <4>1. h[p[k].of] = g[p[k].of]
        BY <3>1, <3>2, <3>5 DEF PartsOf
      <4> QED
        BY <3>5, <4>1 DEF RequiredOf
    <3> QED
      BY <3>2, <3>3, <3>4, <3>5
  <2>3. \A k \in 1 .. m : h[k] = Step(g, k)
    <3> HIDE DEF Step
    <3>1. \A k \in 1 .. m : k < m => g[k] = Step(g, k)
      BY <1>1, <1>2, <2>1
    <3> QED
      BY <1>1, <1>2, <3>1
  <2>4. Upto(h, m)
    <3> HIDE DEF Step
    <3> QED
      BY <2>2, <2>3
  <2> HIDE DEF Upto, h
  <2> QED
    BY <1>1, <1>2, <2>4 DEF Has
<1>3. Upto(f, Len(p))
  <2>1. \E g : Upto(g, Len(p))
    <3> HIDE DEF Upto
    <3> QED
      BY <1>1, <1>2, ToTheEnd
  <2>2. f = CHOOSE g : Upto(g, Len(p))
    BY DEF Required
  <2> HIDE DEF Upto, f
  <2> QED
    BY <2>1, <2>2
<1> QED
  <2>1. \A k \in 1 .. Len(p) : f[k] = Step(f, k)
    <3> HIDE DEF f, Step
    <3> QED
      BY <1>3
  <2> QED
    BY <2>1

(* The ends of the matches of the nodes. *)
LEMMA EndsDef ==
  ASSUME NEW p \in Patterns, NEW text
  PROVE  \A k \in 1 .. Len(p) :
           Ends(p, text)[k] =
             [i \in 0 .. Len(text) |-> EndsOf(p[k], Ends(p, text), i, text)]
<1> DEFINE f == Ends(p, text)
           Step(g, k) == [i \in 0 .. Len(text) |-> EndsOf(p[k], g, i, text)]
           Upto(g, m) == g = [k \in 1 .. m |-> Step(g, k)]
           Has == {m \in 0 .. Len(p) : \E g : Upto(g, m)}
<1>1. Len(p) \in Nat
  BY LenProperties DEF Patterns
<1>2. ASSUME NEW m \in 0 .. Len(p), m = 0 \/ m - 1 \in Has
      PROVE  m \in Has
  <2>1. PICK g : m = 0 \/ Upto(g, m - 1)
    <3> HIDE DEF Upto
    <3> QED
      BY <1>2
  <2> HIDE DEF Has
  <2> DEFINE h == [k \in 1 .. m |-> IF k < m THEN g[k] ELSE Step(g, m)]
  <2>2. \A k \in 1 .. m : Step(h, k) = Step(g, k)
    <3> TAKE k \in 1 .. m
    <3>1. \A j \in 1 .. k - 1 : h[j] = g[j]
      <4> HIDE DEF Step
      <4> QED
        BY <1>1, <1>2
    <3>2. /\ PartsOf(p[k]) \subseteq 1 .. k - 1
          /\ p[k].kind \in {"class", "assertion", "sequence", "alternative", "repeat"}
      BY <1>1, <1>2, PatternParts
    <3> HIDE DEF h
    <3>3. CASE p[k].kind \in {"class", "assertion"}
      BY <3>3 DEF EndsOf
    <3>4. CASE p[k].kind \in {"sequence", "alternative"}
      <4>1. h[p[k].left] = g[p[k].left] /\ h[p[k].right] = g[p[k].right]
        BY <3>1, <3>2, <3>4 DEF PartsOf
      <4> QED
        BY <3>4, <4>1 DEF EndsOf
    <3>5. CASE p[k].kind = "repeat"
      <4>1. h[p[k].of] = g[p[k].of]
        BY <3>1, <3>2, <3>5 DEF PartsOf
      <4> QED
        BY <3>5, <4>1 DEF EndsOf
    <3> QED
      BY <3>2, <3>3, <3>4, <3>5
  <2>3. \A k \in 1 .. m : h[k] = Step(g, k)
    <3> HIDE DEF Step
    <3>1. \A k \in 1 .. m : k < m => g[k] = Step(g, k)
      BY <1>1, <1>2, <2>1
    <3> QED
      BY <1>1, <1>2, <3>1
  <2>4. Upto(h, m)
    <3> HIDE DEF Step
    <3> QED
      BY <2>2, <2>3
  <2> HIDE DEF Upto, h
  <2> QED
    BY <1>1, <1>2, <2>4 DEF Has
<1>3. Upto(f, Len(p))
  <2>1. \E g : Upto(g, Len(p))
    <3> HIDE DEF Upto
    <3> QED
      BY <1>1, <1>2, ToTheEnd
  <2>2. f = CHOOSE g : Upto(g, Len(p))
    BY DEF Ends
  <2> HIDE DEF Upto, f
  <2> QED
    BY <2>1, <2>2
<1> QED
  <2>1. \A k \in 1 .. Len(p) : f[k] = Step(f, k)
    <3> HIDE DEF f, Step
    <3> QED
      BY <1>3
  <2> QED
    BY <2>1
-----------------------------------------------------------------------------
(* The sequences that Required is built from.                              *)

LEMMA SetOfSequence ==
  ASSUME NEW T, NEW s \in Seq(T)
  PROVE  /\ ToSet(s) = {s[n] : n \in 1 .. Len(s)}
         /\ ToSet(s) \subseteq T
         /\ s \in Seq(ToSet(s))
<1>1. Len(s) \in Nat /\ DOMAIN s = 1 .. Len(s)
  BY LenProperties
<1>2. \A n \in 1 .. Len(s) : s[n] \in T
  BY ElementOfSeq
<1>3. ToSet(s) = {s[n] : n \in 1 .. Len(s)}
  BY <1>1 DEF ToSet
<1>4. s = [n \in 1 .. Len(s) |-> s[n]]
  BY LenProperties
<1>5. \A n \in 1 .. Len(s) : s[n] \in ToSet(s)
  BY <1>3
<1>6. s \in [1 .. Len(s) -> ToSet(s)]
  BY <1>4, <1>5
<1>7. s \in Seq(ToSet(s))
  BY <1>1, <1>6, SeqDef
<1> QED
  BY <1>2, <1>3, <1>7

(* filter() keeps nothing that is not in S, and adds nothing. *)
LEMMA KeptElements ==
  ASSUME NEW T, NEW items \in Seq(T), NEW S
  PROVE  Kept(items, S) \in Seq(ToSet(items) \intersect S)
<1> DEFINE U == ToSet(items) \intersect S
           f == Filtered(items, S)
           Bad == {n \in 0 .. Len(items) : f[n] \notin Seq(U)}
<1>1. Len(items) \in Nat
  BY LenProperties
<1>2. \A n \in 1 .. Len(items) : items[n] \in ToSet(items)
  BY SetOfSequence
<1>3. \A n \in 0 .. Len(items) :
        f[n] = IF n = 0 THEN <<>>
               ELSE IF items[n] \in S THEN Append(f[n - 1], items[n])
               ELSE f[n - 1]
  BY <1>1, FilteredDef
<1> HIDE DEF f
<1>4. Bad = {}
  <2> SUFFICES ASSUME Bad # {}
               PROVE  FALSE
    OBVIOUS
  <2>1. PICK n \in Bad : \A k \in Bad : n <= k
    <3>1. Bad \subseteq Nat
      BY <1>1
    <3> HIDE DEF Bad
    <3> QED
      BY <3>1, LeastNatural
  <2>2. n # 0
    <3>1. n \in 0 .. Len(items) /\ f[n] \notin Seq(U)
      BY <2>1
    <3>2. n = 0 => f[n] = <<>>
      BY <1>3, <3>1
    <3> QED
      BY <3>1, <3>2, EmptySeq
  <2>3. n \in 1 .. Len(items) /\ n - 1 \in 0 .. Len(items) /\ n - 1 \notin Bad
    BY <1>1, <2>1, <2>2
  <2>4. f[n - 1] \in Seq(U)
    BY <2>3
  <2>5. items[n] \in S => Append(f[n - 1], items[n]) \in Seq(U)
    BY <1>2, <2>3, <2>4, AppendProperties
  <2>6. f[n] \in Seq(U)
    BY <1>3, <2>2, <2>3, <2>4, <2>5
  <2> QED
    BY <2>1, <2>6
<1> QED
  BY <1>1, <1>4 DEF Kept, f

(* The first items are some of the items. *)
LEMMA FirstElements ==
  ASSUME NEW T, NEW items \in Seq(T)
  PROVE  First(items) \in Seq(T) /\ ToSet(First(items)) \subseteq ToSet(items)
<1> DEFINE n == Min({Len(items), RequiredItems})
<1>1. Len(items) \in Nat /\ RequiredItems \in Nat
  BY LenProperties, PrivacyAssumption
<1>2. n \in 0 .. Len(items)
  BY <1>1 DEF Min
<1> HIDE DEF n
<1>3. /\ SubSeq(items, 1, n) \in Seq(T)
      /\ Len(SubSeq(items, 1, n)) = n
      /\ \A k \in 1 .. n : SubSeq(items, 1, n)[k] = items[k]
  BY <1>1, <1>2, SubSeqProperties
<1>4. \A k \in 1 .. n : items[k] \in ToSet(items)
  BY <1>1, <1>2, SetOfSequence
<1>5. ToSet(SubSeq(items, 1, n)) = {SubSeq(items, 1, n)[k] : k \in 1 .. n}
  BY <1>3, SetOfSequence
<1> QED
  BY <1>3, <1>4, <1>5 DEF First, n

(* What is in two sequences put together. *)
LEMMA JoinedElements ==
  ASSUME NEW T, NEW s \in Seq(T), NEW t \in Seq(T)
  PROVE  s \o t \in Seq(T) /\ ToSet(s \o t) = ToSet(s) \union ToSet(t)
<1>1. /\ s \o t \in Seq(T)
      /\ Len(s \o t) = Len(s) + Len(t)
      /\ \A k \in 1 .. Len(s) + Len(t) :
           (s \o t)[k] = IF k <= Len(s) THEN s[k] ELSE t[k - Len(s)]
  BY ConcatProperties
<1>2. Len(s) \in Nat /\ Len(t) \in Nat
  BY LenProperties
<1>3. /\ ToSet(s) = {s[k] : k \in 1 .. Len(s)}
      /\ ToSet(t) = {t[k] : k \in 1 .. Len(t)}
      /\ ToSet(s \o t) = {(s \o t)[k] : k \in 1 .. Len(s \o t)}
  BY <1>1, SetOfSequence
<1>4. \A k \in 1 .. Len(s) : (s \o t)[k] = s[k] /\ k \in 1 .. Len(s \o t)
  BY <1>1, <1>2
<1>5. \A k \in 1 .. Len(t) : (s \o t)[k + Len(s)] = t[k] /\ k + Len(s) \in 1 .. Len(s \o t)
  BY <1>1, <1>2
<1>6. \A k \in 1 .. Len(s \o t) :
        \/ k \in 1 .. Len(s) /\ (s \o t)[k] = s[k]
        \/ k - Len(s) \in 1 .. Len(t) /\ (s \o t)[k] = t[k - Len(s)]
  BY <1>1, <1>2
<1>7. \A x : x \in ToSet(s \o t) <=> x \in ToSet(s) \/ x \in ToSet(t)
  BY <1>3, <1>4, <1>5, <1>6
<1> QED
  BY <1>1, <1>7

-----------------------------------------------------------------------------
(* Repetition: where the rounds of a step that stays in the text may end,  *)
(* and that a second round takes a first.                                  *)
LEMMA RoundsInText ==
  ASSUME NEW L \in Nat, NEW step \in [0 .. L -> SUBSET (0 .. L)],
         NEW i \in 0 .. L, NEW most \in Nat, NEW n \in 0 .. most
  PROVE  /\ Rounds(step, i, most)[n] \subseteq 0 .. L
         /\ n > 0 /\ Rounds(step, i, most)[n] # {} => \E j \in 0 .. L : step[j] # {}
<1> DEFINE f == Rounds(step, i, most)
           Bad == {m \in 0 .. most : ~(f[m] \subseteq 0 .. L)}
<1>1. /\ f[0] = {i}
      /\ \A m \in 1 .. most : \A x : x \in f[m] <=> \E j \in f[m - 1] : x \in step[j]
  BY RoundsDef
<1> HIDE DEF f
<1>2. Bad = {}
  <2> SUFFICES ASSUME Bad # {}
               PROVE  FALSE
    OBVIOUS
  <2>1. PICK m \in Bad : \A k \in Bad : m <= k
    <3>1. Bad \subseteq Nat
      OBVIOUS
    <3> HIDE DEF Bad
    <3> QED
      BY <3>1, LeastNatural
  <2>2. m # 0
    BY <1>1, <2>1
  <2>3. m \in 1 .. most /\ m - 1 \in 0 .. most /\ m - 1 \notin Bad
    BY <2>1, <2>2
  <2>4. f[m - 1] \subseteq 0 .. L
    BY <2>3
  <2>5. \A x \in f[m] : \E j \in f[m - 1] : x \in step[j]
    BY <1>1, <2>3
  <2>6. f[m] \subseteq 0 .. L
    BY <2>4, <2>5
  <2> QED
    BY <2>1, <2>6
<1>3. f[n] \subseteq 0 .. L
  BY <1>2
<1>4. ASSUME n > 0, f[n] # {}
      PROVE  \E j \in 0 .. L : step[j] # {}
  <2>1. n - 1 \in 0 .. most /\ f[n - 1] \subseteq 0 .. L
    BY <1>2, <1>4
  <2>2. PICK x : x \in f[n]
    BY <1>4
  <2>3. n \in 1 .. most
    BY <1>4
  <2>4. PICK j \in f[n - 1] : x \in step[j]
    BY <1>1, <2>2, <2>3
  <2> QED
    BY <2>1, <2>4
<1> QED
  BY <1>3, <1>4 DEF f

(* What Ends and Required say of a node, if they do so of its parts.       *)
Meets(classes, text) == \A class \in ToSet(classes) : class \intersect ToSet(text) # {}

Within(p, text, k) ==
  \A i \in 0 .. Len(text) : Ends(p, text)[k][i] \subseteq 0 .. Len(text)

Sound(p, text, k) ==
  /\ Required(p)[k] \in Seq(SUBSET Chars)
  /\ Within(p, text, k)
  /\ \A i \in 0 .. Len(text) :
       Ends(p, text)[k][i] # {} => Meets(Required(p)[k], text)

LEMMA EndsOfKind ==
  ASSUME NEW node, NEW ends, NEW i, NEW text
  PROVE  /\ node.kind = "class" =>
              EndsOf(node, ends, i, text) =
                {j \in {i + 1} : j <= Len(text) /\ text[j] \in node.chars}
         /\ node.kind = "assertion" => EndsOf(node, ends, i, text) = {i}
         /\ node.kind = "sequence" =>
              EndsOf(node, ends, i, text) =
                UNION {ends[node.right][j] : j \in ends[node.left][i]}
         /\ node.kind = "alternative" =>
              EndsOf(node, ends, i, text) = ends[node.left][i] \union ends[node.right][i]
         /\ node.kind = "repeat" =>
              LET most == IF node.max = Unbounded THEN node.min + Len(text) ELSE node.max
              IN  EndsOf(node, ends, i, text) =
                    UNION {Rounds(ends[node.of], i, most)[n] : n \in node.min .. most}
<1>1. CASE node.kind = "class"
  BY <1>1 DEF EndsOf
<1>2. CASE node.kind = "assertion"
  BY <1>2 DEF EndsOf
<1>3. CASE node.kind = "sequence"
  BY <1>3 DEF EndsOf
<1>4. CASE node.kind = "alternative"
  BY <1>4 DEF EndsOf
<1>5. CASE node.kind = "repeat"
  BY <1>5 DEF EndsOf
<1> QED
  BY <1>1, <1>2, <1>3, <1>4, <1>5

LEMMA NodeOfPattern ==
  ASSUME NEW p \in Patterns, NEW text, NEW k \in 1 .. Len(p)
  PROVE  /\ Required(p)[k] = RequiredOf(p[k], Required(p))
         /\ Ends(p, text)[k] = [i \in 0 .. Len(text) |-> Ends(p, text)[k][i]]
         /\ \A i \in 0 .. Len(text) :
              Ends(p, text)[k][i] = EndsOf(p[k], Ends(p, text), i, text)
<1> DEFINE f == Ends(p, text)
<1>1. f[k] = [i \in 0 .. Len(text) |-> EndsOf(p[k], f, i, text)]
  BY EndsDef
<1> HIDE DEF f
<1>2. \A i \in 0 .. Len(text) : f[k][i] = EndsOf(p[k], f, i, text)
  BY <1>1
<1>3. f[k] = [i \in 0 .. Len(text) |-> f[k][i]]
  BY <1>1
<1> QED
  BY <1>2, <1>3, RequiredDef DEF f

LEMMA ClassSound ==
  ASSUME NEW p \in Patterns, NEW text \in Texts, NEW k \in 1 .. Len(p),
         p[k].kind = "class"
  PROVE  Sound(p, text, k)
<1> DEFINE chars == p[k].chars
<1>1. chars \subseteq Chars
  BY PatternParts DEF Nodes
<1>2. \A i \in 0 .. Len(text) :
        Ends(p, text)[k][i] = {j \in {i + 1} : j <= Len(text) /\ text[j] \in chars}
  <2> TAKE i \in 0 .. Len(text)
  <2>1. Ends(p, text)[k][i] = EndsOf(p[k], Ends(p, text), i, text)
    BY NodeOfPattern
  <2> QED
    BY <2>1, EndsOfKind
<1>3. Required(p)[k] = <<chars>> \/ Required(p)[k] = <<>>
  BY NodeOfPattern DEF RequiredOf
<1> HIDE DEF chars
<1>4. Len(text) \in Nat /\ ToSet(text) = {text[j] : j \in 1 .. Len(text)}
  BY LenProperties, SetOfSequence DEF Texts
<1>5. Within(p, text, k)
  BY <1>2, <1>4 DEF Within
<1>6. \A i \in 0 .. Len(text) :
        Ends(p, text)[k][i] # {} => chars \intersect ToSet(text) # {}
  BY <1>2, <1>4
<1>7. /\ <<chars>> \in Seq(SUBSET Chars) /\ ToSet(<<chars>>) = {chars}
      /\ <<>> \in Seq(SUBSET Chars) /\ ToSet(<<>>) = {}
  BY <1>1 DEF ToSet
<1>8. Required(p)[k] \in Seq(SUBSET Chars)
  BY <1>3, <1>7
<1>9. \A class \in ToSet(Required(p)[k]) : class = chars
  BY <1>3, <1>7
<1> QED
  BY <1>5, <1>6, <1>8, <1>9 DEF Sound, Meets

LEMMA AssertionSound ==
  ASSUME NEW p \in Patterns, NEW text \in Texts, NEW k \in 1 .. Len(p),
         p[k].kind = "assertion"
  PROVE  Sound(p, text, k)
<1>1. \A i \in 0 .. Len(text) : Ends(p, text)[k][i] = {i}
  <2> TAKE i \in 0 .. Len(text)
  <2>1. Ends(p, text)[k][i] = EndsOf(p[k], Ends(p, text), i, text)
    BY NodeOfPattern
  <2> QED
    BY <2>1, EndsOfKind
<1>2. Required(p)[k] = <<>>
  BY NodeOfPattern DEF RequiredOf
<1>3. <<>> \in Seq(SUBSET Chars) /\ ToSet(<<>>) = {}
  BY DEF ToSet
<1> QED
  BY <1>1, <1>2, <1>3 DEF Sound, Within, Meets

LEMMA SequenceSound ==
  ASSUME NEW p \in Patterns, NEW text \in Texts, NEW k \in 1 .. Len(p),
         p[k].kind = "sequence", Sound(p, text, p[k].left), Sound(p, text, p[k].right)
  PROVE  Sound(p, text, k)
<1> DEFINE l == p[k].left
           r == p[k].right
           L == Required(p)[l]
           R == Required(p)[r]
           rest == Kept(R, ToSet(R) \ ToSet(L))
<1>1. \A i \in 0 .. Len(text) :
        Ends(p, text)[k][i] = UNION {Ends(p, text)[r][j] : j \in Ends(p, text)[l][i]}
  <2> TAKE i \in 0 .. Len(text)
  <2>1. Ends(p, text)[k][i] = EndsOf(p[k], Ends(p, text), i, text)
    BY NodeOfPattern
  <2> QED
    BY <2>1, EndsOfKind
<1>2. Required(p)[k] = First(L \o rest)
  BY NodeOfPattern DEF RequiredOf
<1>3. /\ L \in Seq(SUBSET Chars) /\ R \in Seq(SUBSET Chars)
      /\ Within(p, text, l) /\ Within(p, text, r)
      /\ \A i \in 0 .. Len(text) : Ends(p, text)[l][i] # {} => Meets(L, text)
      /\ \A i \in 0 .. Len(text) : Ends(p, text)[r][i] # {} => Meets(R, text)
  BY DEF Sound
<1> HIDE DEF l, r, L, R
<1>4. rest \in Seq(SUBSET Chars) /\ ToSet(rest) \subseteq ToSet(R)
  <2> DEFINE T == ToSet(R) \intersect (ToSet(R) \ ToSet(L))
  <2>1. rest \in Seq(T)
    BY <1>3, KeptElements
  <2>2. T \subseteq SUBSET Chars /\ T \subseteq ToSet(R)
    BY <1>3, SetOfSequence
  <2> HIDE DEF T, rest
  <2> QED
    BY <2>1, <2>2, SeqMonotonic, SetOfSequence
<1> HIDE DEF rest
<1>5. /\ L \o rest \in Seq(SUBSET Chars)
      /\ ToSet(L \o rest) \subseteq ToSet(L) \union ToSet(R)
  BY <1>3, <1>4, JoinedElements
<1>6. /\ Required(p)[k] \in Seq(SUBSET Chars)
      /\ ToSet(Required(p)[k]) \subseteq ToSet(L) \union ToSet(R)
  BY <1>2, <1>5, FirstElements
<1>7. Within(p, text, k)
  <2> SUFFICES ASSUME NEW i \in 0 .. Len(text), NEW x \in Ends(p, text)[k][i]
               PROVE  x \in 0 .. Len(text)
    BY DEF Within
  <2>1. PICK j \in Ends(p, text)[l][i] : x \in Ends(p, text)[r][j]
    BY <1>1
  <2>2. j \in 0 .. Len(text)
    BY <1>3 DEF Within
  <2> QED
    BY <1>3, <2>1, <2>2 DEF Within
<1>8. ASSUME NEW i \in 0 .. Len(text), Ends(p, text)[k][i] # {}
      PROVE  Meets(Required(p)[k], text)
  <2>1. PICK j \in Ends(p, text)[l][i] : Ends(p, text)[r][j] # {}
    BY <1>1, <1>8
  <2>2. j \in 0 .. Len(text)
    BY <1>3 DEF Within
  <2>3. Meets(L, text) /\ Meets(R, text)
    BY <1>3, <2>1, <2>2
  <2> QED
    BY <1>6, <2>3 DEF Meets
<1> QED
  BY <1>6, <1>7, <1>8 DEF Sound

LEMMA AlternativeSound ==
  ASSUME NEW p \in Patterns, NEW text \in Texts, NEW k \in 1 .. Len(p),
         p[k].kind = "alternative", Sound(p, text, p[k].left), Sound(p, text, p[k].right)
  PROVE  Sound(p, text, k)
<1> DEFINE l == p[k].left
           r == p[k].right
           L == Required(p)[l]
           R == Required(p)[r]
<1>1. \A i \in 0 .. Len(text) :
        Ends(p, text)[k][i] = Ends(p, text)[l][i] \union Ends(p, text)[r][i]
  <2> TAKE i \in 0 .. Len(text)
  <2>1. Ends(p, text)[k][i] = EndsOf(p[k], Ends(p, text), i, text)
    BY NodeOfPattern
  <2> QED
    BY <2>1, EndsOfKind
<1>2. Required(p)[k] = Kept(L, ToSet(R))
  BY NodeOfPattern DEF RequiredOf
<1>3. /\ L \in Seq(SUBSET Chars)
      /\ Within(p, text, l) /\ Within(p, text, r)
      /\ \A i \in 0 .. Len(text) : Ends(p, text)[l][i] # {} => Meets(L, text)
      /\ \A i \in 0 .. Len(text) : Ends(p, text)[r][i] # {} => Meets(R, text)
  BY DEF Sound
<1> HIDE DEF l, r, L, R
<1>4. /\ Required(p)[k] \in Seq(SUBSET Chars)
      /\ ToSet(Required(p)[k]) \subseteq ToSet(L) \intersect ToSet(R)
  <2> DEFINE T == ToSet(L) \intersect ToSet(R)
  <2>1. Kept(L, ToSet(R)) \in Seq(T)
    BY <1>3, KeptElements
  <2>2. T \subseteq SUBSET Chars
    BY <1>3, SetOfSequence
  <2> HIDE DEF T
  <2>3. Required(p)[k] \in Seq(SUBSET Chars) /\ ToSet(Required(p)[k]) \subseteq T
    BY <1>2, <2>1, <2>2, SeqMonotonic, SetOfSequence
  <2> QED
    BY <2>3 DEF T
<1>5. Within(p, text, k)
  BY <1>1, <1>3 DEF Within
<1>6. \A i \in 0 .. Len(text) : Ends(p, text)[k][i] # {} => Meets(Required(p)[k], text)
  BY <1>1, <1>3, <1>4 DEF Meets
<1> QED
  BY <1>4, <1>5, <1>6 DEF Sound

LEMMA RepeatSound ==
  ASSUME NEW p \in Patterns, NEW text \in Texts, NEW k \in 1 .. Len(p),
         p[k].kind = "repeat", p[k].of \in 1 .. Len(p), Sound(p, text, p[k].of)
  PROVE  Sound(p, text, k)
<1> DEFINE node == p[k]
           of == node.of
           most == IF node.max = Unbounded THEN node.min + Len(text) ELSE node.max
           step == Ends(p, text)[of]
<1>1. Len(text) \in Nat
  BY LenProperties DEF Texts
<1>2. node.min \in Nat /\ most \in Nat
  BY <1>1, PatternParts DEF Nodes
<1>3. \A i \in 0 .. Len(text) :
        Ends(p, text)[k][i] = UNION {Rounds(step, i, most)[n] : n \in node.min .. most}
  <2> TAKE i \in 0 .. Len(text)
  <2>1. Ends(p, text)[k][i] = EndsOf(p[k], Ends(p, text), i, text)
    BY NodeOfPattern
  <2> QED
    BY <2>1, EndsOfKind
<1>4. Required(p)[k] = IF node.min > 0 THEN Required(p)[of] ELSE <<>>
  BY NodeOfPattern DEF RequiredOf
<1>5. /\ Required(p)[of] \in Seq(SUBSET Chars)
      /\ Within(p, text, of)
      /\ \A i \in 0 .. Len(text) :
           Ends(p, text)[of][i] # {} => Meets(Required(p)[of], text)
  BY DEF Sound
<1>6. step \in [0 .. Len(text) -> SUBSET (0 .. Len(text))]
  <2>1. step = [i \in 0 .. Len(text) |-> step[i]]
    BY NodeOfPattern, ZenonT(30)
  <2>2. \A i \in 0 .. Len(text) : step[i] \in SUBSET (0 .. Len(text))
    BY <1>5 DEF Within
  <2> HIDE DEF step
  <2> QED
    BY <2>1, <2>2
<1> HIDE DEF most, step, of, node
<1>7. \A i \in 0 .. Len(text), n \in node.min .. most :
        /\ Rounds(step, i, most)[n] \subseteq 0 .. Len(text)
        /\ n > 0 /\ Rounds(step, i, most)[n] # {} => \E j \in 0 .. Len(text) : step[j] # {}
  <2> TAKE i \in 0 .. Len(text), n \in node.min .. most
  <2>1. n \in 0 .. most
    BY <1>2
  <2> QED
    BY <1>1, <1>2, <1>6, <2>1, RoundsInText
<1>8. Within(p, text, k)
  BY <1>3, <1>7 DEF Within
<1>9. Required(p)[k] \in Seq(SUBSET Chars)
  BY <1>4, <1>5, EmptySeq
<1>10. ASSUME NEW i \in 0 .. Len(text), Ends(p, text)[k][i] # {}
       PROVE  Meets(Required(p)[k], text)
  <2>1. CASE node.min > 0
    <3>1. PICK n \in node.min .. most : Rounds(step, i, most)[n] # {}
      BY <1>3, <1>10
    <3>2. PICK j \in 0 .. Len(text) : step[j] # {}
      BY <1>2, <1>7, <2>1, <3>1
    <3> QED
      BY <1>4, <1>5, <2>1, <3>2 DEF step
  <2>2. CASE ~(node.min > 0)
    <3>1. ToSet(<<>>) = {}
      BY DEF ToSet
    <3>2. Required(p)[k] = <<>>
      BY <1>4, <2>2
    <3> QED
      BY <3>1, <3>2 DEF Meets
  <2> QED
    BY <2>1, <2>2
<1> QED
  BY <1>8, <1>9, <1>10 DEF Sound

(* Every node: the least for which it were not so would have parts for     *)
(* which it is.                                                            *)
LEMMA NodesSound ==
  ASSUME NEW p \in Patterns, NEW text \in Texts
  PROVE  \A k \in 1 .. Len(p) : Sound(p, text, k)
<1> DEFINE Bad == {k \in 1 .. Len(p) : ~Sound(p, text, k)}
<1>1. Len(p) \in Nat
  BY LenProperties DEF Patterns
<1>2. Bad = {}
  <2> SUFFICES ASSUME Bad # {}
               PROVE  FALSE
    OBVIOUS
  <2>1. PICK k \in Bad : \A j \in Bad : k <= j
    <3>1. Bad \subseteq Nat
      BY <1>1
    <3> HIDE DEF Bad
    <3> QED
      BY <3>1, LeastNatural
  <2>2. k \in 1 .. Len(p) /\ ~Sound(p, text, k)
    BY <2>1
  <2>3. \A j \in 1 .. k - 1 : j \in 1 .. Len(p) /\ Sound(p, text, j)
    BY <1>1, <2>1
  <2>4. /\ PartsOf(p[k]) \subseteq 1 .. k - 1
        /\ p[k].kind \in {"class", "assertion", "sequence", "alternative", "repeat"}
    BY <2>2, PatternParts
  <2>5. p[k].kind \in {"sequence", "alternative"} =>
          Sound(p, text, p[k].left) /\ Sound(p, text, p[k].right)
    BY <2>3, <2>4 DEF PartsOf
  <2>6. p[k].kind = "repeat" => p[k].of \in 1 .. Len(p) /\ Sound(p, text, p[k].of)
    BY <2>3, <2>4 DEF PartsOf
  <2> QED
    BY <2>2, <2>4, <2>5, <2>6, ClassSound, AssertionSound, SequenceSound,
       AlternativeSound, RepeatSound
<1> QED
  BY <1>2

(* What required says of a pattern is so: a text in which a pattern finds  *)
(* a match, at any position, contains a character of each of its required  *)
(* classes, so that the search for them (Policy.testRule) hides no match.  *)
THEOREM RequiredHidesNoMatch ==
  ASSUME NEW p \in Patterns, NEW text \in Texts, NEW i \in 0 .. Len(text),
         Ends(p, text)[Len(p)][i] # {}
  PROVE  \A class \in ToSet(Required(p)[Len(p)]) : class \intersect ToSet(text) # {}
<1>1. p \in Seq(Nodes) /\ p # <<>> /\ Len(p) \in Nat
  BY LenProperties DEF Patterns
<1>2. Len(p) # 0
  BY <1>1, EmptySeq
<1>3. Sound(p, text, Len(p))
  BY <1>1, <1>2, NodesSound
<1> QED
  BY <1>3 DEF Sound, Meets

-----------------------------------------------------------------------------
(* The questions to a Call.  A call that has failed, and a budget that     *)
(* ends, only ever make an answer sensitive, so that nothing need be known *)
(* of the call.                                                            *)

(* The search only stops at a class that is missing from the text. *)
LEMMA SearchFindsMissing ==
  ASSUME NEW classes, Len(classes) \in Nat, NEW text, NEW c,
         NEW n \in 0 .. Len(classes), Searched(classes, text, c)[n].hit
  PROVE  \E m \in 1 .. Len(classes) : classes[m] \intersect ToSet(text) = {}
<1> DEFINE f == Searched(classes, text, c)
           Bad == {k \in 0 .. Len(classes) : f[k].hit}
<1>1. /\ ~f[0].hit
      /\ \A k \in 1 .. Len(classes) :
           f[k] = f[k - 1] \/ (f[k].hit <=> classes[k] \intersect ToSet(text) = {})
  BY SearchedDef
<1> HIDE DEF f
<1>2. PICK k \in Bad : \A j \in Bad : k <= j
  <2>1. Bad \subseteq Nat /\ Bad # {}
    BY DEF f
  <2> HIDE DEF Bad
  <2> QED
    BY <2>1, LeastNatural
<1>3. k \in 1 .. Len(classes) /\ f[k].hit
  BY <1>1, <1>2
<1>4. f[k] # f[k - 1]
  BY <1>2, <1>3
<1>5. classes[k] \intersect ToSet(text) = {}
  BY <1>1, <1>3, <1>4
<1> QED
  BY <1>3, <1>5

(* So a rule for which the search stops matches nowhere. *)
LEMMA PrefilterSound ==
  ASSUME NEW rule \in Rules, NEW text \in Texts, NEW c,
         Prefiltered(rule, text, c).hit
  PROVE  ~Matches(rule, text)
<1> DEFINE p == rule.pattern
           classes == Required(p)[Len(p)]
<1>1. p \in Patterns
  BY DEF Rules
<1>2. Len(p) \in 1 .. Len(p) /\ Len(text) \in Nat
  <2>1. p \in Seq(Nodes) /\ p # <<>> /\ Len(p) \in Nat
    BY <1>1, LenProperties DEF Patterns
  <2>2. Len(p) # 0
    BY <2>1, EmptySeq
  <2> QED
    BY <2>1, <2>2, LenProperties DEF Texts
<1>3. classes \in Seq(SUBSET Chars)
  BY <1>1, <1>2, NodesSound DEF Sound
<1>4. Searched(classes, text, c)[Len(classes)].hit
  BY DEF Prefiltered
<1> HIDE DEF p, classes
<1>5. Len(classes) \in Nat
  BY <1>3, LenProperties
<1>6. Len(classes) \in 0 .. Len(classes)
  BY <1>5
<1>7. PICK m \in 1 .. Len(classes) : classes[m] \intersect ToSet(text) = {}
  BY <1>4, <1>5, <1>6, SearchFindsMissing
<1>8. classes[m] \in ToSet(classes)
  BY <1>3, SetOfSequence
<1>9. \A i \in 0 .. Len(text) : Ends(p, text)[Len(p)][i] = {}
  BY <1>1, <1>7, <1>8, RequiredHidesNoMatch DEF classes
<1> QED
  BY <1>2, <1>9 DEF Matches, p

(* A decision that is not sensitive is the engine's, of a call that lives. *)
LEMMA DecidedClean ==
  ASSUME NEW o, ~Decided("sensitive", o).hit
  PROVE  ~o.call.failed /\ ~o.hit
<1>1. CASE o.call.failed
  <2>1. Decided("sensitive", o) = Outcome("sensitive" = "sensitive", o.call)
    BY <1>1 DEF Decided
  <2>2. Outcome("sensitive" = "sensitive", o.call).hit
    BY DEF Outcome
  <2> QED
    BY <2>1, <2>2
<1>2. CASE ~o.call.failed
  BY <1>2 DEF Decided
<1> QED
  BY <1>1, <1>2

(* One rule that is not found is one that does not match. *)
LEMMA TestRuleSound ==
  ASSUME NEW rule \in Rules, NEW text \in Texts, NEW c,
         ~TestRule("sensitive", rule, text, c).hit
  PROVE  ~Matches(rule, text)
<1> DEFINE o == IF c.failed THEN Outcome(FALSE, c)
                ELSE IF rule.native THEN Native(<<rule>>, text, c)
                ELSE Engine(rule, text, c)
<1>1. ~o.call.failed /\ ~o.hit
  <2>1. TestRule("sensitive", rule, text, c) = Decided("sensitive", o)
    BY DEF TestRule
  <2> HIDE DEF o
  <2> QED
    BY <2>1, DecidedClean
<1>2. ~c.failed
  BY <1>1 DEF Outcome
<1>3. CASE rule.native
  <2>1. o = Native(<<rule>>, text, c)
    BY <1>2, <1>3
  <2> HIDE DEF o
  <2>2. rule \in ToSet(<<rule>>)
    BY DEF ToSet
  <2> QED
    BY <1>1, <2>1, <2>2 DEF Native, Outcome
<1>4. CASE ~rule.native
  <2>1. o = Engine(rule, text, c)
    BY <1>2, <1>4
  <2> HIDE DEF o
  <2> DEFINE missing == Prefiltered(rule, text, Counted(Compatible(c, text), 1))
  <2>2. missing.hit => ~Matches(rule, text)
    BY PrefilterSound
  <2>3. o = IF missing.hit /\ ~missing.call.failed THEN Outcome(FALSE, missing.call)
            ELSE Outcome(Matches(rule, text),
                         Spent(missing.call, (Len(text) + 1) * Cost(rule.pattern)))
    BY <2>1 DEF Engine
  <2> HIDE DEF missing
  <2> QED
    BY <1>1, <2>2, <2>3 DEF Outcome
<1> QED
  BY <1>3, <1>4

(* The loop of any() leaves out none of its rules. *)
LEMMA TestedSound ==
  ASSUME NEW rules \in Seq(Rules), NEW text \in Texts, NEW c,
         ~Tested("sensitive", rules, text, c)[Len(rules)].hit
  PROVE  \A rule \in ToSet(rules) : ~Matches(rule, text)
<1> DEFINE f == Tested("sensitive", rules, text, c)
           Good(k) == ~f[k].hit => \A m \in 1 .. k : ~Matches(rules[m], text)
           Bad == {k \in 0 .. Len(rules) : ~Good(k)}
<1>1. Len(rules) \in Nat /\ \A m \in 1 .. Len(rules) : rules[m] \in Rules
  BY LenProperties, ElementOfSeq
<1>2. ASSUME NEW k \in 1 .. Len(rules)
      PROVE  f[k] = IF f[k - 1].hit THEN f[k - 1]
                    ELSE TestRule("sensitive", rules[k], text, f[k - 1].call)
  BY <1>1, TestedDef
<1> HIDE DEF f
<1>3. Bad = {}
  <2> SUFFICES ASSUME Bad # {}
               PROVE  FALSE
    OBVIOUS
  <2>1. PICK k \in Bad : \A j \in Bad : k <= j
    <3>1. Bad \subseteq Nat
      OBVIOUS
    <3> HIDE DEF Bad
    <3> QED
      BY <3>1, LeastNatural
  <2>2. k \in 0 .. Len(rules) /\ ~f[k].hit
        /\ \E m \in 1 .. k : Matches(rules[m], text)
    BY <2>1
  <2>3. k # 0 /\ k \in 1 .. Len(rules) /\ k - 1 \in 0 .. Len(rules) /\ k - 1 \notin Bad
    BY <1>1, <2>1, <2>2
  <2>4. /\ ~f[k - 1].hit
        /\ ~TestRule("sensitive", rules[k], text, f[k - 1].call).hit
    BY <1>2, <2>2, <2>3
  <2>5. ~Matches(rules[k], text)
    BY <1>1, <2>3, <2>4, TestRuleSound
  <2>6. \A m \in 1 .. k - 1 : ~Matches(rules[m], text)
    BY <2>3, <2>4
  <2> QED
    BY <2>2, <2>3, <2>5, <2>6
<1>4. Len(rules) \in 0 .. Len(rules) /\ ~f[Len(rules)].hit
  BY <1>1 DEF f
<1>5. \A m \in 1 .. Len(rules) : ~Matches(rules[m], text)
  BY <1>3, <1>4
<1>6. ToSet(rules) = {rules[m] : m \in 1 .. Len(rules)}
  BY SetOfSequence
<1> QED
  BY <1>5, <1>6

(* any(): what is not sensitive was asked of a policy that is open and     *)
(* valid, and none of the rules matches it.                                *)
LEMMA AnyRuleSound ==
  ASSUME NEW rules \in Seq(Rules), NEW pol, NEW text \in Texts, NEW c,
         ~AnyRule("sensitive", rules, pol, text, c).hit
  PROVE  /\ ~pol.closed /\ ~pol.invalid
         /\ \A rule \in ToSet(rules) : ~Matches(rule, text)
<1>1. ~(pol.closed \/ pol.invalid \/ c.failed)
  BY DEF AnyRule, Outcome
<1>2. CASE rules # <<>> /\ \A rule \in ToSet(rules) : rule.native
  <2> DEFINE o == Native(rules, text, c)
  <2>1. AnyRule("sensitive", rules, pol, text, c) = Decided("sensitive", o)
    BY <1>1, <1>2 DEF AnyRule
  <2> HIDE DEF o
  <2>2. ~o.hit
    BY <2>1, DecidedClean
  <2> QED
    BY <1>1, <2>2 DEF o, Native, Outcome
<1>3. CASE ~(rules # <<>> /\ \A rule \in ToSet(rules) : rule.native)
  <2>1. AnyRule("sensitive", rules, pol, text, c)
          = Tested("sensitive", rules, text, c)[Len(rules)]
    BY <1>1, <1>3 DEF AnyRule
  <2> QED
    BY <1>1, <2>1, TestedSound
<1> QED
  BY <1>2, <1>3

-----------------------------------------------------------------------------
(* The record that is handled.                                             *)

(* While it sanitizes, a policy that is open and valid has all the rules   *)
(* of its options, those of the user first.                                *)
PolicyHasRules ==
  options.sanitize /\ ~policy.closed /\ ~policy.invalid =>
    /\ policy.sensitive = options.sensitive \o options.builtins
    /\ policy.custom = Len(options.sensitive)

StateInv ==
  /\ options \in Options
  /\ PolicyHasRules
  /\ todo \in Seq(Pairs)

IInv == StateInv /\ NothingSensitiveShown

LEMMA OptionRules ==
  ASSUME NEW o \in Options
  PROVE  o.sensitive \in Seq(Rules) /\ o.builtins \in Seq(Rules)
  BY PrivacyAssumption

(* The rules for keys are those of the user. *)
LEMMA RulesOfUser ==
  ASSUME NEW T, NEW s \in Seq(T), NEW t \in Seq(T)
  PROVE  SubSeq(s \o t, 1, Min({Len(s), Len(s \o t)})) = s
<1>1. /\ s \o t \in Seq(T)
      /\ Len(s \o t) = Len(s) + Len(t)
      /\ \A k \in 1 .. Len(s) + Len(t) :
           (s \o t)[k] = IF k <= Len(s) THEN s[k] ELSE t[k - Len(s)]
  BY ConcatProperties
<1>2. Len(s) \in Nat /\ Len(t) \in Nat
  BY LenProperties
<1>3. Min({Len(s), Len(s \o t)}) = Len(s)
  BY <1>1, <1>2 DEF Min
<1> DEFINE u == SubSeq(s \o t, 1, Len(s))
<1>4. /\ u \in Seq(T) /\ Len(u) = Len(s)
      /\ \A k \in 1 .. Len(s) : u[k] = (s \o t)[k]
  BY <1>1, <1>2, SubSeqProperties
<1> HIDE DEF u
<1>5. \A k \in 1 .. Len(s) : u[k] = s[k]
  BY <1>1, <1>2, <1>4
<1>6. u = s
  BY <1>4, <1>5, SeqEqual
<1> QED
  BY <1>3, <1>6 DEF u

(* A pair that is not redacted matches no rule. *)
LEMMA RedactsSound ==
  ASSUME StateInv, options.sanitize, NEW pair \in Pairs, NEW c,
         ~Redacts(policy, pair, c).hit
  PROVE  /\ \A rule \in ToSet(options.sensitive \o options.builtins) :
              ~Matches(rule, pair.value)
         /\ \A rule \in ToSet(options.sensitive) :
              pair.key # NoKey => ~Matches(rule, pair.key)
<1> DEFINE key == IF pair.key = NoKey THEN Outcome(FALSE, c)
                  ELSE SensitiveKey(policy, pair.key, c)
<1>1. ~key.hit /\ ~Sensitive(policy, pair.value, key.call).hit
  <2>1. Redacts(policy, pair, c)
          = IF key.hit THEN key ELSE Sensitive(policy, pair.value, key.call)
    BY DEF Redacts
  <2> HIDE DEF key
  <2> QED
    BY <2>1
<1>2. /\ pair.value \in Texts
      /\ pair.key # NoKey => pair.key \in Texts
  BY DEF Pairs
<1>3. /\ options.sensitive \in Seq(Rules) /\ options.builtins \in Seq(Rules)
      /\ options.sensitive \o options.builtins \in Seq(Rules)
  BY OptionRules, ConcatProperties DEF StateInv
<1> DEFINE asked == policy.sensitive
           call_v == key.call
<1>4. ~AnyRule("sensitive", asked, policy, pair.value, call_v).hit
  BY <1>1 DEF Sensitive
<1>5. pair.key # NoKey =>
        ~AnyRule("sensitive", SubSeq(asked, 1, Min({policy.custom, Len(asked)})),
                 policy, pair.key, c).hit
  BY <1>1 DEF SensitiveKey
<1>6. ~policy.closed /\ ~policy.invalid
  BY <1>4 DEF AnyRule, Outcome
<1>7. /\ asked = options.sensitive \o options.builtins
      /\ policy.custom = Len(options.sensitive)
  BY <1>6 DEF StateInv, PolicyHasRules
<1> HIDE DEF key, asked, call_v
<1>8. \A rule \in ToSet(options.sensitive \o options.builtins) :
        ~Matches(rule, pair.value)
  BY <1>2, <1>3, <1>4, <1>7, AnyRuleSound
<1>9. SubSeq(asked, 1, Min({policy.custom, Len(asked)})) = options.sensitive
  BY <1>3, <1>7, RulesOfUser
<1>10. pair.key # NoKey =>
         \A rule \in ToSet(options.sensitive) : ~Matches(rule, pair.key)
  BY <1>2, <1>3, <1>5, <1>9, AnyRuleSound
<1> QED
  BY <1>8, <1>10

(* What is to be decided of a record are pairs. *)
LEMMA PartsArePairs ==
  ASSUME NEW record \in Records
  PROVE  Parts(record) \in Seq(Pairs)
<1>1. /\ record.message \in Texts
      /\ record.context \in Seq(Pairs) /\ record.labels \in Seq(Pairs)
  BY PrivacyAssumption
<1>2. ASSUME NEW pairs \in Seq(Pairs)
      PROVE  Bounded(pairs) \in Seq(Pairs)
  <2>1. Len(pairs) \in Nat /\ EntryLimit \in Nat
    BY LenProperties, PrivacyAssumption
  <2> DEFINE n == Min({Len(pairs), EntryLimit})
  <2>2. n \in 0 .. Len(pairs)
    BY <2>1 DEF Min
  <2> HIDE DEF n
  <2>3. SubSeq(pairs, 1, n) \in Seq(Pairs)
    BY <2>1, <2>2, SubSeqProperties
  <2> QED
    BY <2>3 DEF Bounded, n
<1>3. <<[key |-> NoKey, value |-> record.message]>> \in Seq(Pairs)
  <2>1. [key |-> NoKey, value |-> record.message] \in Pairs
    BY <1>1 DEF Pairs
  <2> QED
    BY <2>1
<1>4. Bounded(record.context) \in Seq(Pairs) /\ Bounded(record.labels) \in Seq(Pairs)
  BY <1>1, <1>2
<1> QED
  BY <1>3, <1>4, ConcatProperties DEF Parts

LEMMA InvInitially == Init => IInv
<1> SUFFICES ASSUME Init
             PROVE  IInv
  OBVIOUS
<1>1. options \in Options /\ policy = Compiled(options) /\ todo = <<>> /\ shown = {}
  BY DEF Init
<1>2. PolicyHasRules
  BY <1>1 DEF PolicyHasRules, Compiled
<1>3. todo \in Seq(Pairs)
  BY <1>1, EmptySeq
<1> QED
  BY <1>1, <1>2, <1>3 DEF IInv, StateInv, NothingSensitiveShown

LEMMA InvInductive == IInv /\ [Next]_vars => IInv'
<1> SUFFICES ASSUME IInv, [Next]_vars
             PROVE  IInv'
  OBVIOUS
<1>1. options' = options
  BY DEF Next, Begin, Decide, Close, vars
<1>2. ASSUME NEW record \in Records, Begin(record)
      PROVE  IInv'
  <2>1. todo' \in Seq(Pairs)
    BY <1>2, PartsArePairs, EmptySeq DEF Begin
  <2>2. policy' = policy /\ shown' = {}
    BY <1>2 DEF Begin
  <2> QED
    BY <1>1, <2>1, <2>2 DEF IInv, StateInv, PolicyHasRules, NothingSensitiveShown
<1>3. CASE Decide
  <2> DEFINE pair == Head(todo)
  <2>1. todo \in Seq(Pairs) /\ todo # <<>>
    BY <1>3 DEF IInv, StateInv, Decide, Idle
  <2>2. pair \in Pairs /\ todo' \in Seq(Pairs)
    BY <1>3, <2>1, HeadTailProperties DEF Decide
  <2>3. policy' = policy
    BY <1>3 DEF Decide
  <2>4. StateInv'
    BY <1>1, <2>2, <2>3 DEF IInv, StateInv, PolicyHasRules
  <2>5. CASE ~options.sanitize
    BY <1>1, <2>4, <2>5 DEF IInv, NothingSensitiveShown
  <2>6. CASE options.sanitize
    <3> DEFINE redacts == Redacts(policy, pair, call)
    <3>1. shown' = IF redacts.hit THEN shown ELSE shown \union {pair}
      BY <1>3, <2>6 DEF Decide
    <3>2. ~redacts.hit =>
            /\ \A rule \in ToSet(options.sensitive \o options.builtins) :
                 ~Matches(rule, pair.value)
            /\ \A rule \in ToSet(options.sensitive) :
                 pair.key # NoKey => ~Matches(rule, pair.key)
      BY <2>2, <2>6, RedactsSound DEF IInv
    <3> HIDE DEF redacts, pair
    <3>3. NothingSensitiveShown'
      BY <1>1, <2>6, <3>1, <3>2 DEF IInv, NothingSensitiveShown
    <3> QED
      BY <2>4, <3>3 DEF IInv
  <2> QED
    BY <2>5, <2>6
<1>4. CASE Close
  <2>1. policy'.closed /\ todo' = todo /\ shown' = shown
    <3>1. policy' = [policy EXCEPT !.closed = TRUE, !.sensitive = <<>>, !.selectors = <<>>]
      BY <1>4 DEF Close
    <3> QED
      BY <1>4, <3>1 DEF Close
  <2> QED
    BY <1>1, <2>1 DEF IInv, StateInv, PolicyHasRules, NothingSensitiveShown
<1>5. CASE UNCHANGED vars
  BY <1>5 DEF vars, IInv, StateInv, PolicyHasRules, NothingSensitiveShown
<1> QED
  BY <1>2, <1>3, <1>4, <1>5 DEF Next

(* Fail closed, for any rules, records and budgets: while the policy       *)
(* sanitizes, nothing that one of its rules matches leaves in the clear    *)
(* (Call.stop, Policy.testRule, sanitizeData).                             *)
THEOREM FailsClosed == Spec => []NothingSensitiveShown
<1>1. IInv => NothingSensitiveShown
  BY DEF IInv
<1> QED
  BY InvInitially, InvInductive, <1>1, PTL DEF Spec
=============================================================================
