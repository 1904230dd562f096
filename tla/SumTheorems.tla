----------------------------- MODULE SumTheorems ----------------------------
(***************************************************************************)
(* How sums change when what is summed up is split, extended, renamed or   *)
(* taken apart, for the accounts of bytes and of entries; and that sets of *)
(* naturals have a least and, if bounded, a greatest element.              *)
(***************************************************************************)
EXTENDS Sums, Sequences, FiniteSetTheorems, FunctionTheorems, SequenceTheorems,
        WellFoundedInduction, TLAPS

(* What can be summed up. *)
Summable(f) == IsFiniteSet(DOMAIN f) /\ \A x \in DOMAIN f : f[x] \in Nat

(* f is put together from d and e. *)
Joins(f, d, e) ==
  /\ DOMAIN f = DOMAIN d \cup DOMAIN e
  /\ DOMAIN d \cap DOMAIN e = {}
  /\ \A x \in DOMAIN d : f[x] = d[x]
  /\ \A x \in DOMAIN e : f[x] = e[x]

(* g is f under the names that b gives. *)
Renames(b, f, g) ==
  /\ \A x \in DOMAIN f : b[x] \in DOMAIN g /\ g[b[x]] = f[x]
  /\ \A x, y \in DOMAIN f : b[x] = b[y] => x = y
  /\ \A y \in DOMAIN g : \E x \in DOMAIN f : b[x] = y

(* What a unit is. *)
LEMMA UnitsDef ==
  ASSUME NEW f
  PROVE  \A u : u \in Units(f) <=> /\ u = <<u[1], u[2]>>
                                   /\ u[1] \in DOMAIN f /\ u[2] \in 1 .. f[u[1]]
  BY DEF Units

(* An interval of naturals is finite, and how long one from 1 is. *)
LEMMA IntervalIsFinite ==
  ASSUME NEW a \in Nat, NEW b \in Nat
  PROVE  IsFiniteSet(a .. b) /\ (a = 1 => Cardinality(a .. b) = b)
<1>1. a \in Int /\ b \in Int
  OBVIOUS
<1>2. IsFiniteSet(a .. b) /\ Cardinality(a .. b) = IF a > b THEN 0 ELSE b - a + 1
  BY <1>1, FS_Interval
<1> QED
  BY <1>2

(* The units of one number. *)
LEMMA UnitsOfOne ==
  ASSUME NEW x, NEW n \in Nat
  PROVE  IsFiniteSet({x} \X (1 .. n)) /\ Cardinality({x} \X (1 .. n)) = n
<1>1. IsFiniteSet({x}) /\ Cardinality({x}) = 1
  BY FS_Singleton
<1>2. IsFiniteSet(1 .. n) /\ Cardinality(1 .. n) = n
  BY IntervalIsFinite
<1>3. /\ IsFiniteSet({x} \X (1 .. n))
      /\ Cardinality({x} \X (1 .. n)) = Cardinality({x}) * Cardinality(1 .. n)
  BY <1>1, <1>2, FS_Product
<1> QED
  BY <1>1, <1>2, <1>3

(* A sum of finitely many numbers is a number. *)
THEOREM SumType ==
  ASSUME NEW f, Summable(f)
  PROVE  IsFiniteSet(Units(f)) /\ SumOf(f) \in Nat
<1> DEFINE Of(x) == {x} \X (1 .. f[x])
           D == DOMAIN f
           g == [x \in D |-> Of(x)]
<1>1. \A x \in D : IsFiniteSet(Of(x))
  BY UnitsOfOne DEF Summable
<1>2. IsFiniteSet({Of(x) : x \in D})
  <2>1. g \in Surjection(D, {Of(x) : x \in D})
    BY DEF Surjection
  <2>2. IsFiniteSet(D)
    BY DEF Summable
  <2> QED
    BY <2>1, <2>2, FS_Surjection
<1>3. IsFiniteSet(UNION {Of(x) : x \in D})
  <2>1. \A T \in {Of(x) : x \in D} : IsFiniteSet(T)
    BY <1>1
  <2> HIDE DEF Of
  <2> QED
    BY <1>2, <2>1, FS_UNION
<1>4. Units(f) = UNION {Of(x) : x \in D}
  BY DEF Units
<1> QED
  BY <1>3, <1>4, FS_CardinalityType DEF SumOf

(* The sum of nothing, and of one number. *)
THEOREM SumEmpty ==
  ASSUME NEW f, DOMAIN f = {}
  PROVE  SumOf(f) = 0
<1>1. Units(f) = {}
  BY UnitsDef
<1> QED
  BY <1>1, FS_EmptySet DEF SumOf

THEOREM SumSingle ==
  ASSUME NEW f, NEW x, DOMAIN f = {x}, f[x] \in Nat
  PROVE  Summable(f) /\ SumOf(f) = f[x]
<1>1. Units(f) = {x} \X (1 .. f[x])
  BY DEF Units
<1>2. Cardinality({x} \X (1 .. f[x])) = f[x]
  BY UnitsOfOne
<1>3. Summable(f)
  BY FS_Singleton DEF Summable
<1> QED
  BY <1>1, <1>2, <1>3 DEF SumOf

(* What is summed up may be taken apart. *)
THEOREM SumJoin ==
  ASSUME NEW f, NEW d, NEW e, Summable(d), Summable(e), Joins(f, d, e)
  PROVE  Summable(f) /\ SumOf(f) = SumOf(d) + SumOf(e)
<1>1. Summable(f)
  BY FS_Union DEF Summable, Joins
<1>2. Units(f) = Units(d) \cup Units(e) /\ Units(d) \cap Units(e) = {}
  BY UnitsDef DEF Joins
<1>3. /\ IsFiniteSet(Units(d)) /\ IsFiniteSet(Units(e))
      /\ Cardinality(Units(d)) \in Nat /\ Cardinality(Units(e)) \in Nat
  BY SumType DEF SumOf
<1>4. Cardinality(Units(d) \cap Units(e)) = 0
  BY <1>2, FS_EmptySet
<1>5. Cardinality(Units(d) \cup Units(e))
        = Cardinality(Units(d)) + Cardinality(Units(e))
            - Cardinality(Units(d) \cap Units(e))
  BY <1>3, FS_Union
<1> QED
  BY <1>1, <1>2, <1>3, <1>4, <1>5 DEF SumOf

(* The names of what is summed up do not matter. *)
THEOREM SumRenamed ==
  ASSUME NEW f, NEW g, NEW b, Summable(f), Renames(b, f, g)
  PROVE  Summable(g) /\ SumOf(g) = SumOf(f)
<1> DEFINE h == [u \in Units(f) |-> <<b[u[1]], u[2]>>]
           r == [x \in DOMAIN f |-> b[x]]
<1>1. h \in [Units(f) -> Units(g)]
  BY UnitsDef DEF Renames
<1>2. \A u, v \in Units(f) : h[u] = h[v] => u = v
  BY UnitsDef DEF Renames
<1>3. \A w \in Units(g) : \E u \in Units(f) : h[u] = w
  <2> SUFFICES ASSUME NEW w \in Units(g)
               PROVE  \E u \in Units(f) : h[u] = w
    OBVIOUS
  <2>1. w = <<w[1], w[2]>> /\ w[1] \in DOMAIN g /\ w[2] \in 1 .. g[w[1]]
    BY UnitsDef
  <2>2. PICK x \in DOMAIN f : b[x] = w[1]
    BY <2>1 DEF Renames
  <2>3. <<x, w[2]>> \in Units(f)
    BY <2>1, <2>2, UnitsDef DEF Renames
  <2>4. h[<<x, w[2]>>] = w
    BY <2>1, <2>2, <2>3
  <2> QED
    BY <2>3, <2>4
<1>4. h \in Bijection(Units(f), Units(g))
  BY <1>1, <1>2, <1>3 DEF Bijection, Injection, Surjection, IsInjective
<1>5. ExistsBijection(Units(f), Units(g)) /\ IsFiniteSet(Units(f))
  BY <1>4, SumType DEF ExistsBijection
<1>6. Summable(g)
  <2>1. r \in Surjection(DOMAIN f, DOMAIN g)
    BY DEF Renames, Surjection
  <2>2. IsFiniteSet(DOMAIN f)
    BY DEF Summable
  <2>3. IsFiniteSet(DOMAIN g)
    BY <2>1, <2>2, FS_Surjection
  <2>4. \A y \in DOMAIN g : g[y] \in Nat
    BY DEF Renames, Summable
  <2> QED
    BY <2>3, <2>4 DEF Summable
<1> QED
  BY <1>5, <1>6, FS_Bijection DEF SumOf

-----------------------------------------------------------------------------
(* A part of a sequence, as SubSeq gives it for bounds within. *)
LEMMA PartOf ==
  ASSUME NEW S, NEW s \in Seq(S), NEW a \in 1 .. Len(s) + 1, NEW b \in 0 .. Len(s),
         a <= b + 1
  PROVE  /\ SubSeq(s, a, b) \in Seq(S)
         /\ Len(SubSeq(s, a, b)) = b - a + 1
         /\ DOMAIN SubSeq(s, a, b) = 1 .. b - a + 1
         /\ \A i \in 1 .. b - a + 1 : SubSeq(s, a, b)[i] = s[a + i - 1]
<1>1. a \in Int /\ b \in Int /\ Len(s) \in Nat
  BY LenProperties
<1>2. \A i \in a .. b : s[i] \in S
  BY <1>1, ElementOfSeq
<1>3. /\ SubSeq(s, a, b) \in Seq(S)
      /\ Len(SubSeq(s, a, b)) = IF a <= b THEN b - a + 1 ELSE 0
      /\ \A i \in 1 .. b - a + 1 : SubSeq(s, a, b)[i] = s[a + i - 1]
  BY <1>1, <1>2, SubSeqProperties
<1>4. Len(SubSeq(s, a, b)) = b - a + 1
  BY <1>1, <1>3
<1> QED
  BY <1>3, <1>4, LenProperties

(* Sequences of numbers can be summed up. *)
THEOREM SumSeqType ==
  ASSUME NEW s \in Seq(Nat)
  PROVE  Summable(s) /\ SumOf(s) \in Nat
<1>1. DOMAIN s = 1 .. Len(s) /\ Len(s) \in Nat /\ \A i \in DOMAIN s : s[i] \in Nat
  BY LenProperties, ElementOfSeq
<1>2. IsFiniteSet(DOMAIN s)
  BY <1>1, IntervalIsFinite
<1>3. Summable(s)
  BY <1>1, <1>2 DEF Summable
<1> QED
  BY <1>3, SumType

(* One number more. *)
THEOREM SumAppend ==
  ASSUME NEW s \in Seq(Nat), NEW n \in Nat
  PROVE  SumOf(Append(s, n)) = SumOf(s) + n
<1> DEFINE k == Len(s)
           all == Append(s, n)
           one == [i \in {k + 1} |-> n]
<1>1. DOMAIN s = 1 .. k /\ k \in Nat
  BY LenProperties
<1>2. /\ all \in Seq(Nat) /\ Len(all) = k + 1
      /\ \A i \in 1 .. k : all[i] = s[i]
      /\ all[k + 1] = n
  BY AppendProperties
<1>3. DOMAIN all = 1 .. k + 1
  BY <1>2, LenProperties
<1>4. DOMAIN one = {k + 1} /\ one[k + 1] = n
  BY <1>1
<1> HIDE DEF k, all, one
<1>5. Joins(all, s, one)
  BY <1>1, <1>2, <1>3, <1>4 DEF Joins
<1>6. Summable(one) /\ SumOf(one) = n
  BY <1>4, SumSingle
<1>7. SumOf(all) = SumOf(s) + SumOf(one)
  BY <1>5, <1>6, SumSeqType, SumJoin
<1> QED
  BY <1>6, <1>7 DEF all

(* A sequence cut in two. *)
THEOREM SumParts ==
  ASSUME NEW s \in Seq(Nat), NEW k \in 0 .. Len(s)
  PROVE  SumOf(s) = SumOf(SubSeq(s, 1, k)) + SumOf(SubSeq(s, k + 1, Len(s)))
<1> DEFINE n == Len(s)
           a == SubSeq(s, 1, k)
           z == SubSeq(s, k + 1, n)
           E == k + 1 .. n
           high == [i \in E |-> s[i]]
           b == [i \in 1 .. n - k |-> i + k]
<1>1. DOMAIN s = 1 .. n /\ n \in Nat /\ k \in Nat /\ k <= n
  BY LenProperties
<1>2. /\ a \in Seq(Nat) /\ DOMAIN a = 1 .. k - 1 + 1
      /\ \A i \in 1 .. k - 1 + 1 : a[i] = s[1 + i - 1]
  BY <1>1, PartOf
<1>3. /\ z \in Seq(Nat) /\ DOMAIN z = 1 .. n - (k + 1) + 1
      /\ \A i \in 1 .. n - (k + 1) + 1 : z[i] = s[(k + 1) + i - 1]
  <2>1. k + 1 \in 1 .. n + 1 /\ n \in 0 .. n /\ k + 1 <= n + 1
    BY <1>1
  <2> QED
    BY <2>1, PartOf
<1>4. DOMAIN high = E /\ \A i \in E : high[i] = s[i]
  OBVIOUS
<1>5. DOMAIN b = 1 .. n - k /\ \A i \in 1 .. n - k : b[i] = i + k
  OBVIOUS
<1> HIDE DEF n, a, z, high, b
<1>6. /\ DOMAIN a = 1 .. k /\ \A i \in 1 .. k : a[i] = s[i]
      /\ DOMAIN z = 1 .. n - k /\ \A i \in 1 .. n - k : z[i] = s[i + k]
  <2>1. k - 1 + 1 = k /\ n - (k + 1) + 1 = n - k
    BY <1>1
  <2>2. \A i \in Int : 1 + i - 1 = i /\ (k + 1) + i - 1 = i + k
    BY <1>1
  <2> QED
    BY <1>1, <1>2, <1>3, <2>1, <2>2
<1>7. Joins(s, a, high)
  BY <1>1, <1>4, <1>6 DEF Joins
<1>8. Renames(b, z, high)
  <2>1. \A i \in 1 .. n - k : i + k \in E
    BY <1>1
  <2>2. \A i \in E : i - k \in 1 .. n - k /\ (i - k) + k = i
    BY <1>1
  <2>3. \A i, j \in 1 .. n - k : i + k = j + k => i = j
    BY <1>1
  <2> HIDE DEF E
  <2> QED
    BY <1>4, <1>5, <1>6, <2>1, <2>2, <2>3 DEF Renames
<1>9. Summable(a) /\ Summable(z)
  BY <1>2, <1>3, SumSeqType
<1>10. Summable(high) /\ SumOf(high) = SumOf(z)
  BY <1>8, <1>9, SumRenamed
<1>11. SumOf(s) = SumOf(a) + SumOf(high)
  BY <1>7, <1>9, <1>10, SumJoin
<1> QED
  BY <1>10, <1>11 DEF a, z, n

-----------------------------------------------------------------------------
(***************************************************************************)
(* Sums of what the elements of a sequence measure.                        *)
(***************************************************************************)
Along(m, s) == [i \in DOMAIN s |-> m[s[i]]]

(* What remains of a sequence after its first k elements. *)
LEMMA RestOf ==
  ASSUME NEW S, NEW s \in Seq(S), NEW k \in 0 .. Len(s)
  PROVE  /\ SubSeq(s, k + 1, Len(s)) \in Seq(S)
         /\ Len(SubSeq(s, k + 1, Len(s))) = Len(s) - k
         /\ DOMAIN SubSeq(s, k + 1, Len(s)) = 1 .. Len(s) - k
         /\ \A i \in 1 .. Len(s) - k : SubSeq(s, k + 1, Len(s))[i] = s[k + i]
<1> DEFINE n == Len(s)
           z == SubSeq(s, k + 1, n)
<1>1. n \in Nat /\ k \in Nat /\ k <= n
  BY LenProperties
<1>2. /\ z \in Seq(S) /\ Len(z) = n - (k + 1) + 1
      /\ DOMAIN z = 1 .. n - (k + 1) + 1
      /\ \A i \in 1 .. n - (k + 1) + 1 : z[i] = s[(k + 1) + i - 1]
  <2>1. k + 1 \in 1 .. n + 1 /\ n \in 0 .. n /\ k + 1 <= n + 1
    BY <1>1
  <2> QED
    BY <2>1, PartOf
<1> HIDE DEF n, z
<1>3. n - (k + 1) + 1 = n - k /\ \A i \in 1 .. n - k : (k + 1) + i - 1 = k + i
  BY <1>1
<1>4. /\ z \in Seq(S) /\ Len(z) = n - k /\ DOMAIN z = 1 .. n - k
      /\ \A i \in 1 .. n - k : z[i] = s[k + i]
  BY <1>2, <1>3
<1> QED
  BY <1>4 DEF z, n

(* Its first k elements. *)
LEMMA FirstOf ==
  ASSUME NEW S, NEW s \in Seq(S), NEW k \in 0 .. Len(s)
  PROVE  /\ SubSeq(s, 1, k) \in Seq(S)
         /\ Len(SubSeq(s, 1, k)) = k
         /\ DOMAIN SubSeq(s, 1, k) = 1 .. k
         /\ \A i \in 1 .. k : SubSeq(s, 1, k)[i] = s[i]
<1> DEFINE a == SubSeq(s, 1, k)
<1>1. Len(s) \in Nat /\ k \in Nat /\ k <= Len(s)
  BY LenProperties
<1>2. /\ a \in Seq(S) /\ Len(a) = k - 1 + 1 /\ DOMAIN a = 1 .. k - 1 + 1
      /\ \A i \in 1 .. k - 1 + 1 : a[i] = s[1 + i - 1]
  BY <1>1, PartOf
<1> HIDE DEF a
<1>3. k - 1 + 1 = k /\ \A i \in 1 .. k : 1 + i - 1 = i
  BY <1>1
<1>4. /\ a \in Seq(S) /\ Len(a) = k /\ DOMAIN a = 1 .. k
      /\ \A i \in 1 .. k : a[i] = s[i]
  BY <1>2, <1>3
<1> QED
  BY <1>4 DEF a

(* The measures of a sequence are a sequence of numbers. *)
THEOREM AlongType ==
  ASSUME NEW S, NEW m \in [S -> Nat], NEW s \in Seq(S)
  PROVE  /\ Along(m, s) \in Seq(Nat) /\ Len(Along(m, s)) = Len(s)
         /\ \A i \in 1 .. Len(s) : Along(m, s)[i] = m[s[i]]
         /\ SumOf(Along(m, s)) \in Nat
<1>1. /\ Len(s) \in Nat /\ DOMAIN s = 1 .. Len(s)
      /\ \A i \in 1 .. Len(s) : s[i] \in S
  BY LenProperties, ElementOfSeq
<1>2. \A i \in 1 .. Len(s) : m[s[i]] \in Nat
  BY <1>1
<1>3. Along(m, s) \in Seq(Nat) /\ Len(Along(m, s)) = Len(s)
  BY <1>1, <1>2 DEF Along
<1> QED
  BY <1>1, <1>3, SumSeqType DEF Along

(* A sequence weighs what its two parts weigh. *)
THEOREM AlongParts ==
  ASSUME NEW S, NEW m \in [S -> Nat], NEW s \in Seq(S), NEW k \in 0 .. Len(s)
  PROVE  SumOf(Along(m, s)) = SumOf(Along(m, SubSeq(s, 1, k)))
                                + SumOf(Along(m, SubSeq(s, k + 1, Len(s))))
<1> DEFINE n == Len(s)
           w == Along(m, s)
           old == SubSeq(s, 1, k)
           rest == SubSeq(s, k + 1, n)
<1>1. n \in Nat /\ k \in 0 .. n
  BY LenProperties
<1>2. w \in Seq(Nat) /\ Len(w) = n /\ \A i \in 1 .. n : w[i] = m[s[i]]
  BY AlongType
<1>3. /\ old \in Seq(S) /\ Len(old) = k /\ \A i \in 1 .. k : old[i] = s[i]
  BY FirstOf
<1>4. /\ rest \in Seq(S) /\ Len(rest) = n - k
      /\ \A i \in 1 .. n - k : rest[i] = s[k + i]
  BY RestOf
<1>5. /\ SubSeq(w, 1, k) \in Seq(Nat) /\ Len(SubSeq(w, 1, k)) = k
      /\ \A i \in 1 .. k : SubSeq(w, 1, k)[i] = w[i]
  BY <1>1, <1>2, FirstOf
<1>6. /\ SubSeq(w, k + 1, n) \in Seq(Nat) /\ Len(SubSeq(w, k + 1, n)) = n - k
      /\ \A i \in 1 .. n - k : SubSeq(w, k + 1, n)[i] = w[k + i]
  <2> HIDE DEF w
  <2>1. /\ SubSeq(w, k + 1, Len(w)) \in Seq(Nat)
        /\ Len(SubSeq(w, k + 1, Len(w))) = Len(w) - k
        /\ \A i \in 1 .. Len(w) - k : SubSeq(w, k + 1, Len(w))[i] = w[k + i]
    BY <1>1, <1>2, RestOf
  <2> QED
    BY <1>2, <2>1
<1> HIDE DEF w, n, old, rest
<1>7. Along(m, old) = SubSeq(w, 1, k)
  <2>1. /\ Along(m, old) \in Seq(Nat) /\ Len(Along(m, old)) = Len(old)
        /\ \A i \in 1 .. Len(old) : Along(m, old)[i] = m[old[i]]
    <3>1. old \in Seq(S)
      BY <1>3
    <3> QED
      BY <3>1, AlongType, SMTT(30)
  <2>2. ASSUME NEW i \in 1 .. k
        PROVE  Along(m, old)[i] = SubSeq(w, 1, k)[i]
    <3>1. i \in 1 .. n /\ i \in 1 .. Len(old)
      BY <1>1, <1>3
    <3>2. old[i] = s[i] /\ w[i] = m[s[i]] /\ Along(m, old)[i] = m[old[i]]
      BY <1>2, <1>3, <2>1, <3>1
    <3> QED
      BY <1>5, <3>2
  <2> QED
    BY <1>3, <1>5, <2>1, <2>2, SeqEqual
<1>8. Along(m, rest) = SubSeq(w, k + 1, n)
  <2>1. /\ Along(m, rest) \in Seq(Nat) /\ Len(Along(m, rest)) = Len(rest)
        /\ \A i \in 1 .. Len(rest) : Along(m, rest)[i] = m[rest[i]]
    <3>1. rest \in Seq(S)
      BY <1>4
    <3> QED
      BY <3>1, AlongType, SMTT(30)
  <2>2. ASSUME NEW i \in 1 .. n - k
        PROVE  Along(m, rest)[i] = SubSeq(w, k + 1, n)[i]
    <3>1. k + i \in 1 .. n /\ i \in 1 .. Len(rest)
      BY <1>1, <1>4
    <3>2. /\ rest[i] = s[k + i] /\ w[k + i] = m[s[k + i]]
          /\ Along(m, rest)[i] = m[rest[i]]
      BY <1>2, <1>4, <2>1, <3>1
    <3> QED
      BY <1>6, <3>2
  <2> QED
    BY <1>4, <1>6, <2>1, <2>2, SeqEqual
<1>9. SumOf(w) = SumOf(SubSeq(w, 1, k)) + SumOf(SubSeq(w, k + 1, n))
  <2>1. k \in 0 .. Len(w)
    BY <1>1, <1>2
  <2> QED
    BY <1>2, <2>1, SumParts
<1> QED
  BY <1>7, <1>8, <1>9 DEF old, rest, w, n

(* One element more. *)
THEOREM AlongAppend ==
  ASSUME NEW S, NEW m \in [S -> Nat], NEW s \in Seq(S), NEW e \in S
  PROVE  SumOf(Along(m, Append(s, e))) = SumOf(Along(m, s)) + m[e]
<1> DEFINE n == Len(s)
           all == Append(s, e)
           w == Along(m, s)
           more == Append(w, m[e])
<1>1. n \in Nat /\ m[e] \in Nat
  BY LenProperties
<1>2. /\ all \in Seq(S) /\ Len(all) = n + 1
      /\ \A i \in 1 .. n : all[i] = s[i]
      /\ all[n + 1] = e
  BY AppendProperties
<1>3. w \in Seq(Nat) /\ Len(w) = n /\ \A i \in 1 .. n : w[i] = m[s[i]]
  BY AlongType
<1>4. /\ more \in Seq(Nat) /\ Len(more) = n + 1
      /\ \A i \in 1 .. n : more[i] = w[i]
      /\ more[n + 1] = m[e]
  BY <1>1, <1>3, AppendProperties
<1> HIDE DEF n, all, w, more
<1>5. /\ Along(m, all) \in Seq(Nat) /\ Len(Along(m, all)) = Len(all)
      /\ \A i \in 1 .. Len(all) : Along(m, all)[i] = m[all[i]]
  <2>1. all \in Seq(S)
    BY <1>2
  <2> QED
    BY <2>1, AlongType, SMTT(30)
<1>6. ASSUME NEW i \in 1 .. n + 1
      PROVE  Along(m, all)[i] = more[i]
  <2>1. Along(m, all)[i] = m[all[i]]
    BY <1>2, <1>5
  <2>2. i \in 1 .. n \/ i = n + 1
    BY <1>1
  <2>3. CASE i \in 1 .. n
    <3>1. all[i] = s[i] /\ w[i] = m[s[i]] /\ more[i] = w[i]
      BY <1>2, <1>3, <1>4, <2>3
    <3> QED
      BY <2>1, <3>1
  <2>4. CASE i = n + 1
    BY <1>2, <1>4, <2>1, <2>4
  <2> QED
    BY <2>2, <2>3, <2>4
<1>7. Len(Along(m, all)) = Len(more) /\ Len(more) = n + 1
  BY <1>2, <1>4, <1>5
<1>8. Along(m, all) = more
  BY <1>4, <1>5, <1>6, <1>7, SeqEqual
<1>9. SumOf(more) = SumOf(w) + m[e]
  BY <1>1, <1>3, SumAppend DEF more
<1> QED
  BY <1>8, <1>9 DEF all, w

-----------------------------------------------------------------------------
(* Less than is a well founded relation, as a set of pairs.                *)
LEMMA LessThan ==
  \E R : IsWellFoundedOn(R, Nat) /\ \A x, y \in Nat : y < x => <<y, x>> \in R
<1>1. IsWellFoundedOn(OpToRel(<, Nat), Nat)
  BY NatLessThanWellFounded
<1>2. \A x, y \in Nat : y < x => <<y, x>> \in OpToRel(<, Nat)
  BY DEF OpToRel
<1> QED
  BY <1>1, <1>2, Zenon

(* A nonempty set of naturals has a least element: what takes the place of *)
(* an induction.                                                           *)
THEOREM LeastNatural ==
  ASSUME NEW T, T \subseteq Nat, T # {}
  PROVE  \E x \in T : \A y \in T : x <= y
<1>1. PICK R : IsWellFoundedOn(R, Nat) /\ \A x, y \in Nat : y < x => <<y, x>> \in R
  BY LessThan
<1>2. PICK x \in T : \A y \in T : ~ (<<y, x>> \in R)
  BY <1>1, WFMin
<1>3. \A y \in T : ~ (y < x)
  BY <1>1, <1>2
<1>4. \A a, b \in Nat : ~ (a < b) => b <= a
  OBVIOUS
<1> QED
  BY <1>3, <1>4

(* A bounded one has a greatest. *)
THEOREM GreatestNatural ==
  ASSUME NEW T, NEW n \in Nat, T \subseteq 0 .. n, T # {}
  PROVE  \E x \in T : \A y \in T : x >= y
<1> DEFINE D == {d \in Nat : \E t \in T : d = n - t}
<1>1. D \subseteq Nat /\ D # {}
  <2>1. PICK t \in T : t \in 0 .. n
    OBVIOUS
  <2>2. n - t \in D
    BY <2>1
  <2> QED
    BY <2>2
<1>2. PICK x \in D : \A y \in D : x <= y
  <2> HIDE DEF D
  <2> QED
    BY <1>1, LeastNatural
<1>3. PICK t \in T : x = n - t
  BY <1>2
<1>4. ASSUME NEW y \in T PROVE t >= y
  <2>1. n - y \in D
    OBVIOUS
  <2>2. y \in 0 .. n /\ t \in 0 .. n
    OBVIOUS
  <2>3. x <= n - y
    BY <1>2, <2>1
  <2> QED
    BY <1>3, <2>2, <2>3
<1> QED
  BY <1>4
=============================================================================
