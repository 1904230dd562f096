-------------------------- MODULE TransportProofs ---------------------------
(***************************************************************************)
(* Proved of what a send of ResilientTransport goes through: of            *)
(* WireTransport and its WorkerPool, for any sends, jobs and threads, and, *)
(* at the end, of CircuitBreaker, for any operations and limits.           *)
(*                                                                         *)
(* Shutdown: a transport that was shut down starts no request.  destroy()  *)
(* aborts every send that is open, none is opened after it, and nobody     *)
(* starts a request who has not looked at the signal before, so that what  *)
(* the pool does is of no importance to it.                                *)
(*                                                                         *)
(* The pool: PoolInv is CapacityUsed, with the types of the pool, and      *)
(* Accounts, which says where each promise that is not settled is.  All    *)
(* events but an abort of a running task and destroy() end in              *)
(* ReplenishAndDrain, so that most of the work is one lemma about it,      *)
(* EventSafe, from what an event leaves to it: Left, of the threads and    *)
(* the queue, and Pending, of the tasks.                                   *)
(*                                                                         *)
(* The breaker: IInv adds to the properties that the probes of the present *)
(* half-open state are running, and that an open breaker has cooled down   *)
(* as far as it has been quiet.                                            *)
(***************************************************************************)
EXTENDS WireTransport, CircuitBreaker, SumTheorems

(***************************************************************************)
(* Shutdown                                                                *)
(***************************************************************************)

Stages == Open \union {"idle", "sent", "failed"}

(* destroy() has aborted every send that is open, and none was opened      *)
(* since (ResilientTransport.destroy, its guard in send).                  *)
ShutAborts == shut => \A s \in Sends : stage[s] \in Open => aborted[s]

(* The types of what the signals concern, and ShutAborts. *)
SignalInv ==
  /\ stage \in [Sends -> Stages]
  /\ aborted \in [Sends -> BOOLEAN]
  /\ shut \in BOOLEAN
  /\ ShutAborts

(* No request begins at a step from a state that is shut.                  *)
NoneBegins == shut => \A s \in Sends : stage'[s] = "requesting" => stage[s] = "requesting"

-----------------------------------------------------------------------------
(* Send s goes from one stage to another, unless it was shut and aborted   *)
(* only if it is open already; a request begins only if it is not aborted. *)
Advances(s, new) ==
  /\ new \in Stages
  /\ new \in Open => (~shut \/ stage[s] \in Open)
  /\ new = "requesting" => ~(stage[s] \in Open /\ aborted[s])
  /\ Becomes(s, new)
  /\ UNCHANGED <<aborted, shut>>

(* Such a step keeps the invariant, and no request begins when it is shut. *)
LEMMA AdvancesSafe ==
  ASSUME SignalInv, NEW s \in Sends, NEW new, Advances(s, new)
  PROVE  SignalInv' /\ NoneBegins
<1> USE DEF SignalInv, Advances, Becomes
<1>1. (stage \in [Sends -> Stages] /\ aborted \in [Sends -> BOOLEAN] /\ shut \in BOOLEAN)'
  OBVIOUS
<1>2. ShutAborts'
  BY DEF ShutAborts
<1>3. NoneBegins
  BY DEF NoneBegins, ShutAborts, Open
<1> QED BY <1>1, <1>2, <1>3

(* Nothing is open at first. *)
LEMMA InitSafe == WireInit => SignalInv
BY DEF WireInit, SignalInv, ShutAborts, Stages, Open

(* Every step is of that kind, or aborts what is open. *)
LEMMA NextSafe ==
  ASSUME SignalInv, [WireNext]_allVars
  PROVE  SignalInv' /\ NoneBegins
<1>0. stage \in [Sends -> Stages]
  BY DEF SignalInv
<1>1. ASSUME NEW s \in Sends, Send(s)
      PROVE  SignalInv' /\ NoneBegins
  <2>1. Advances(s, "working") \/ Advances(s, "preparing")
    BY <1>1 DEF Send, UseWorker, MainThread, Advances, Stages, Open
  <2> QED BY <2>1, AdvancesSafe
<1>2. ASSUME NEW s \in Sends, Continue(s)
      PROVE  SignalInv' /\ NoneBegins
  <2>1. Advances(s, "failed") \/ Advances(s, "working") \/ Advances(s, "preparing")
    BY <1>2 DEF Continue, Fails, UseWorker, MainThread, Advances, Stages, Open
  <2> QED BY <2>1, AdvancesSafe
<1>3. ASSUME NEW s \in Sends, Dispatch(s)
      PROVE  SignalInv' /\ NoneBegins
  <2>1. Advances(s, "failed") \/ Advances(s, "requesting")
    BY <1>3 DEF Dispatch, Fails, Advances, Stages, Open
  <2> QED BY <2>1, AdvancesSafe
<1>4. ASSUME NEW s \in Sends, Export(s)
      PROVE  SignalInv' /\ NoneBegins
  <2>1. Advances(s, "exporting")
    BY <1>4 DEF Export, Advances, Stages, Open
  <2> QED BY <2>1, AdvancesSafe
<1>5. ASSUME NEW s \in Sends, AddRequest(s)
      PROVE  SignalInv' /\ NoneBegins
  <2>1. Advances(s, "failed") \/ Advances(s, "requesting")
    BY <1>5 DEF AddRequest, Advances, Stages, Open
  <2> QED BY <2>1, AdvancesSafe
<1>6. ASSUME NEW s \in Sends, Repeat(s)
      PROVE  SignalInv' /\ NoneBegins
  <2>1. Advances(s, "exporting")
    BY <1>6 DEF Repeat, Advances, Stages, Open
  <2> QED BY <2>1, AdvancesSafe
<1>7. ASSUME NEW s \in Sends, Accepted(s) \/ RequestFails(s)
      PROVE  SignalInv' /\ NoneBegins
  <2>1. Advances(s, "sent") \/ Advances(s, "failed")
    BY <1>7 DEF Accepted, RequestFails, Advances, Stages, Open
  <2> QED BY <2>1, AdvancesSafe
<1>8. ASSUME NEW s \in Sends, Abort(s)
      PROVE  SignalInv' /\ NoneBegins
  BY <1>8 DEF Abort, SignalInv, ShutAborts, NoneBegins
<1>9. ASSUME Shutdown
      PROVE  SignalInv' /\ NoneBegins
  <2>1. /\ UNCHANGED stage /\ shut' = TRUE
        /\ aborted' = [s \in Sends |-> aborted[s] \/ stage[s] \in Open]
    BY <1>9 DEF Shutdown
  <2> QED BY <2>1 DEF SignalInv, ShutAborts, NoneBegins
<1>10. ASSUME UNCHANGED <<stage, aborted, shut>>
       PROVE  SignalInv' /\ NoneBegins
  BY <1>10 DEF SignalInv, ShutAborts, NoneBegins
<1>11. CASE ClientClosed
  BY <1>11, <1>10 DEF ClientClosed
<1>12. CASE PoolStep
  BY <1>12, <1>10 DEF PoolStep, wireVars
<1>13. CASE UNCHANGED allVars
  BY <1>13, <1>10 DEF allVars, wireVars
<1> QED
  BY <1>1, <1>2, <1>3, <1>4, <1>5, <1>6, <1>7, <1>8, <1>9, <1>11, <1>12, <1>13
  DEF WireNext

(* The signal of every open send is aborted once the transport is shut.    *)
THEOREM OpenSendsAborted == WireSpec => []ShutAborts
<1>1. SignalInv /\ [WireNext]_allVars => SignalInv'
  BY NextSafe
<1>2. SignalInv => ShutAborts
  BY DEF SignalInv
<1> QED BY InitSafe, <1>1, <1>2, PTL DEF WireSpec

(* Once destroy() was called no request is sent, wherever its batch was,   *)
(* whatever the threads of the pool do and however the sends share it.     *)
THEOREM NothingSentLate == WireSpec => NothingSentOnceShut
<1>1. SignalInv /\ [WireNext]_allVars => SignalInv'
  BY NextSafe
<1>2. SignalInv /\ [WireNext]_allVars => [NoneBegins]_allVars
  BY NextSafe
<1> QED BY InitSafe, <1>1, <1>2, PTL DEF WireSpec, NothingSentOnceShut, NoneBegins

(***************************************************************************)
(* Lists that have every member of a set, and each once                    *)
(***************************************************************************)

(* A list that has every member of S, and each once. *)
Enumerates(list, S) == list \in Seq(S) /\ IsInjective(list) /\ ToSet(list) = S

(* What is known of such a list, and what makes a list one. *)
LEMMA EnumeratesDef ==
  ASSUME NEW list, NEW S, Enumerates(list, S)
  PROVE  /\ list \in Seq(S) /\ Len(list) \in Nat /\ DOMAIN list = 1 .. Len(list)
         /\ \A i \in 1 .. Len(list) : list[i] \in S
         /\ \A x \in S : \E i \in 1 .. Len(list) : list[i] = x
         /\ \A i, j \in 1 .. Len(list) : list[i] = list[j] => i = j
         /\ ToSet(list) = S
<1>1. list \in Seq(S) /\ IsInjective(list) /\ ToSet(list) = S
  BY DEF Enumerates
<1>2. Len(list) \in Nat /\ DOMAIN list = 1 .. Len(list)
  BY <1>1, LenProperties
<1>3. \A i \in 1 .. Len(list) : list[i] \in S
  BY <1>1, ElementOfSeq
<1>4. \A x \in S : \E i \in 1 .. Len(list) : list[i] = x
  BY <1>1, <1>2 DEF ToSet
<1>5. \A i, j \in 1 .. Len(list) : list[i] = list[j] => i = j
  BY <1>1, <1>2 DEF IsInjective
<1> QED BY <1>1, <1>2, <1>3, <1>4, <1>5

LEMMA EnumeratesIf ==
  ASSUME NEW T, NEW list \in Seq(T), NEW S,
         \A i \in 1 .. Len(list) : list[i] \in S,
         \A x \in S : \E i \in 1 .. Len(list) : list[i] = x,
         \A i, j \in 1 .. Len(list) : list[i] = list[j] => i = j
  PROVE  Enumerates(list, S)
<1>1. Len(list) \in Nat /\ DOMAIN list = 1 .. Len(list)
  BY LenProperties
<1>2. list = [i \in 1 .. Len(list) |-> list[i]]
  BY <1>1
<1>3. list \in [1 .. Len(list) -> S]
  BY <1>2
<1>4. list \in Seq(S)
  BY <1>1, <1>3
<1>5. IsInjective(list)
  BY <1>1 DEF IsInjective
<1>6. ToSet(list) = S
  BY <1>1 DEF ToSet
<1> QED BY <1>4, <1>5, <1>6 DEF Enumerates

(* It has as many members as S. *)
LEMMA EnumeratesCount ==
  ASSUME NEW list, NEW S, Enumerates(list, S)
  PROVE  IsFiniteSet(S) /\ Cardinality(S) = Len(list)
<1> DEFINE n == Len(list)
<1>1. /\ list \in Seq(S) /\ n \in Nat /\ DOMAIN list = 1 .. n
      /\ \A i \in 1 .. n : list[i] \in S
      /\ \A x \in S : \E i \in 1 .. n : list[i] = x
      /\ \A i, j \in 1 .. n : list[i] = list[j] => i = j
  BY EnumeratesDef
<1>2. list \in [1 .. n -> S]
  <2>1. list = [i \in 1 .. n |-> list[i]]
    BY <1>1
  <2> HIDE DEF n
  <2> QED BY <1>1, <2>1
<1> HIDE DEF n
<1>3. list \in Bijection(1 .. n, S)
  BY <1>1, <1>2 DEF Bijection, Injection, Surjection, IsInjective
<1>4. ExistsBijection(1 .. n, S)
  BY <1>3 DEF ExistsBijection
<1>5. IsFiniteSet(1 .. n) /\ Cardinality(1 .. n) = n
  BY <1>1, IntervalIsFinite
<1>6. IsFiniteSet(S) /\ Cardinality(S) = Cardinality(1 .. n)
  BY <1>4, <1>5, FS_Bijection
<1> QED BY <1>5, <1>6 DEF n

(* The empty list, and the list of one. *)
LEMMA EnumeratesNone == Enumerates(<<>>, {})
BY DEF Enumerates, IsInjective, ToSet

(* Its first and its last members. *)
LEMMA EnumeratesPart ==
  ASSUME NEW list, NEW S, Enumerates(list, S), NEW k \in 0 .. Len(list)
  PROVE  /\ Enumerates(SubSeq(list, 1, k), {list[i] : i \in 1 .. k})
         /\ Enumerates(SubSeq(list, k + 1, Len(list)), {list[i] : i \in k + 1 .. Len(list)})
         /\ Len(SubSeq(list, 1, k)) = k
         /\ Len(SubSeq(list, k + 1, Len(list))) = Len(list) - k
<1> DEFINE n == Len(list)
           a == SubSeq(list, 1, k)
           z == SubSeq(list, k + 1, n)
           A == {list[i] : i \in 1 .. k}
           Z == {list[i] : i \in k + 1 .. n}
<1>1. /\ list \in Seq(S) /\ n \in Nat /\ k \in Nat /\ k <= n
      /\ \A i, j \in 1 .. n : list[i] = list[j] => i = j
  BY EnumeratesDef
<1>2. /\ a \in Seq(S) /\ Len(a) = k
      /\ \A i \in 1 .. k : a[i] = list[i]
  BY <1>1, FirstOf
<1>3. /\ z \in Seq(S) /\ Len(z) = n - k
      /\ \A i \in 1 .. n - k : z[i] = list[k + i]
  BY <1>1, RestOf
<1> HIDE DEF n, a, z
<1>4. Enumerates(a, A)
  <2>1. \A i \in 1 .. Len(a) : a[i] \in A
    BY <1>2
  <2>2. \A x \in A : \E i \in 1 .. Len(a) : a[i] = x
    BY <1>2
  <2>3. \A i, j \in 1 .. Len(a) : a[i] = a[j] => i = j
    BY <1>1, <1>2
  <2> HIDE DEF A
  <2> QED BY <1>2, <2>1, <2>2, <2>3, EnumeratesIf
<1>5. Enumerates(z, Z)
  <2>1. ASSUME NEW i \in 1 .. Len(z)
        PROVE  z[i] \in Z
    <3>1. k + i \in k + 1 .. n /\ z[i] = list[k + i]
      BY <1>1, <1>3
    <3> QED BY <3>1
  <2>2. ASSUME NEW x \in Z
        PROVE  \E i \in 1 .. Len(z) : z[i] = x
    <3>1. PICK j \in k + 1 .. n : list[j] = x
      OBVIOUS
    <3>2. j - k \in 1 .. n - k /\ k + (j - k) = j
      BY <1>1
    <3> QED BY <1>3, <3>1, <3>2
  <2>3. ASSUME NEW i \in 1 .. Len(z), NEW j \in 1 .. Len(z), z[i] = z[j]
        PROVE  i = j
    <3>1. k + i \in 1 .. n /\ k + j \in 1 .. n /\ list[k + i] = list[k + j]
      BY <1>1, <1>3, <2>3
    <3>2. k + i = k + j
      BY <1>1, <3>1
    <3> QED BY <1>1, <1>3, <3>2
  <2> HIDE DEF Z
  <2> QED BY <1>3, <2>1, <2>2, <2>3, EnumeratesIf
<1> QED BY <1>2, <1>3, <1>4, <1>5 DEF n, a, z

(* Two lists without a common member, one after the other. *)
LEMMA EnumeratesJoin ==
  ASSUME NEW a, NEW A, Enumerates(a, A), NEW z, NEW Z, Enumerates(z, Z),
         A \cap Z = {}
  PROVE  /\ Enumerates(a \o z, A \cup Z)
         /\ Len(a \o z) = Len(a) + Len(z)
         /\ \A i \in 1 .. Len(a) : (a \o z)[i] = a[i]
<1> DEFINE k == Len(a)
           m == Len(z)
           U == A \cup Z
           s == a \o z
<1>1. /\ a \in Seq(A) /\ k \in Nat /\ \A i \in 1 .. k : a[i] \in A
      /\ \A x \in A : \E i \in 1 .. k : a[i] = x
      /\ \A i, j \in 1 .. k : a[i] = a[j] => i = j
  BY EnumeratesDef
<1>2. /\ z \in Seq(Z) /\ m \in Nat /\ \A i \in 1 .. m : z[i] \in Z
      /\ \A x \in Z : \E i \in 1 .. m : z[i] = x
      /\ \A i, j \in 1 .. m : z[i] = z[j] => i = j
  BY EnumeratesDef
<1>3. a \in Seq(U) /\ z \in Seq(U)
  BY <1>1, <1>2, SeqMonotonic
<1>4. /\ s \in Seq(U) /\ Len(s) = k + m
      /\ \A i \in 1 .. k + m : s[i] = IF i <= k THEN a[i] ELSE z[i - k]
  BY <1>3, ConcatProperties
<1> HIDE DEF k, m, s
<1>5. \A i \in 1 .. k : s[i] = a[i]
  BY <1>1, <1>2, <1>4
<1>6. \A i \in 1 .. m : k + i \in 1 .. k + m /\ s[k + i] = z[i]
  <2> TAKE i \in 1 .. m
  <2>1. k + i \in 1 .. k + m /\ ~ (k + i <= k) /\ (k + i) - k = i
    BY <1>1, <1>2
  <2> QED BY <1>4, <2>1
<1>7. \A i \in 1 .. k + m : i \in 1 .. k \/ \E j \in 1 .. m : i = k + j
  <2> TAKE i \in 1 .. k + m
  <2>1. CASE ~ (i <= k)
    <3>1. i - k \in 1 .. m /\ i = k + (i - k)
      BY <1>1, <1>2, <2>1
    <3> QED BY <3>1
  <2>2. CASE i <= k
    BY <1>1, <1>2, <2>2
  <2> QED BY <2>1, <2>2
<1>8. \A x \in U : \E i \in 1 .. Len(s) : s[i] = x
  <2> SUFFICES ASSUME NEW x \in U
               PROVE  \E i \in 1 .. k + m : s[i] = x
    BY <1>4
  <2>1. CASE x \in A
    <3>1. PICK i \in 1 .. k : a[i] = x
      BY <1>1, <2>1
    <3>2. i \in 1 .. k + m
      BY <1>1, <1>2
    <3> QED BY <1>5, <3>1, <3>2
  <2>2. CASE x \in Z
    BY <1>2, <1>6, <2>2
  <2> QED BY <2>1, <2>2
<1>9. ASSUME NEW i \in 1 .. Len(s), NEW j \in 1 .. Len(s), s[i] = s[j]
      PROVE  i = j
  <2>0. i \in 1 .. k + m /\ j \in 1 .. k + m
    BY <1>4
  <2>1. CASE i \in 1 .. k /\ j \in 1 .. k
    BY <1>1, <1>5, <1>9, <2>1
  <2>2. ASSUME NEW p \in 1 .. m, NEW q \in 1 .. m, i = k + p, j = k + q
        PROVE  i = j
    BY <1>2, <1>6, <1>9, <2>2
  <2>3. ASSUME NEW p \in 1 .. k, NEW q \in 1 .. m, s[p] = s[k + q]
        PROVE  FALSE
    BY <1>1, <1>2, <1>5, <1>6, <2>3
  <2> QED BY <1>7, <1>9, <2>0, <2>1, <2>2, <2>3
<1>10. \A i \in 1 .. Len(s) : s[i] \in U
  BY <1>4, ElementOfSeq
<1>11. Enumerates(s, U)
  <2> HIDE DEF U
  <2> QED BY <1>4, <1>8, <1>9, <1>10, EnumeratesIf
<1> QED BY <1>4, <1>5, <1>11 DEF k, m, s

LEMMA EnumeratesOne ==
  ASSUME NEW e
  PROVE  Enumerates(<<e>>, {e}) /\ Len(<<e>>) = 1
BY DEF Enumerates, IsInjective, ToSet

(* One more at the end. *)
LEMMA EnumeratesAppend ==
  ASSUME NEW list, NEW S, Enumerates(list, S), NEW e, e \notin S
  PROVE  Enumerates(Append(list, e), S \cup {e}) /\ Len(Append(list, e)) = Len(list) + 1
<1>1. Enumerates(<<e>>, {e}) /\ Len(<<e>>) = 1
  BY EnumeratesOne
<1>2. S \cap {e} = {}
  OBVIOUS
<1>3. Enumerates(list \o <<e>>, S \cup {e}) /\ Len(list \o <<e>>) = Len(list) + 1
  <2>1. ASSUME NEW z, NEW Z, z = <<e>>, Z = {e}
        PROVE  Enumerates(list \o z, S \cup Z) /\ Len(list \o z) = Len(list) + Len(z)
    BY <1>1, <1>2, <2>1, EnumeratesJoin
  <2> QED BY <1>1, <2>1
<1>4. Append(list, e) = list \o <<e>>
  <2>1. list \in Seq(S \cup {e})
    BY EnumeratesDef, SeqMonotonic
  <2> QED BY <2>1, AppendIsConcat
<1> QED BY <1>3, <1>4

(* One less (WorkerPool.removeWorker, cancelTask). *)
LEMMA EnumeratesWithout ==
  ASSUME NEW list, NEW S, Enumerates(list, S), NEW e
  PROVE  Enumerates(Without(list, e), S \ {e})
<1>0. Len(list) \in Nat /\ ToSet(list) = S /\ DOMAIN list = 1 .. Len(list)
  BY EnumeratesDef
<1>1. CASE e \notin S
  <2>1. Without(list, e) = list /\ S \ {e} = S
    BY <1>0, <1>1 DEF Without
  <2> QED BY <2>1
<1>2. CASE e \in S
  <2>1. PICK c : c = (CHOOSE i \in DOMAIN list : list[i] = e)
    OBVIOUS
  <2>2. c \in 1 .. Len(list) /\ list[c] = e
    BY <1>0, <1>2, <2>1, EnumeratesDef
  <2>3. Without(list, e) = SubSeq(list, 1, c - 1) \o SubSeq(list, c + 1, Len(list))
    BY <1>0, <1>2, <2>1 DEF Without, RemoveAt
  <2>4. c - 1 \in 0 .. Len(list) /\ c \in 0 .. Len(list)
    BY <1>0, <2>2
  <2> DEFINE A == {list[i] : i \in 1 .. c - 1}
             Z == {list[i] : i \in c + 1 .. Len(list)}
  <2>5. Enumerates(SubSeq(list, 1, c - 1), A)
    <3>1. ASSUME NEW k \in 0 .. Len(list), k = c - 1
          PROVE  Enumerates(SubSeq(list, 1, k), {list[i] : i \in 1 .. k})
      BY EnumeratesPart
    <3> QED BY <2>4, <3>1
  <2>6. Enumerates(SubSeq(list, c + 1, Len(list)), Z)
    BY <2>4, EnumeratesPart
  <2>7. \A i, j \in 1 .. Len(list) : list[i] = list[j] => i = j
    BY EnumeratesDef
  <2>8. A \cap Z = {}
    BY <1>0, <2>2, <2>7
  <2>9. A \cup Z = S \ {e}
    <3>1. ASSUME NEW x \in S, x # e
          PROVE  x \in A \cup Z
      <4>1. PICK i \in 1 .. Len(list) : list[i] = x
        BY EnumeratesDef
      <4>2. i \in 1 .. c - 1 \/ i \in c + 1 .. Len(list)
        BY <1>0, <2>2, <3>1, <4>1
      <4> QED BY <4>1, <4>2
    <3>2. ASSUME NEW i \in 1 .. Len(list), i # c
          PROVE  list[i] \in S \ {e}
      BY <2>2, <2>7, <3>2, EnumeratesDef
    <3>3. A \cup Z \subseteq S \ {e}
      BY <1>0, <2>2, <3>2
    <3> QED BY <3>1, <3>3
  <2> HIDE DEF A, Z
  <2>10. Enumerates(SubSeq(list, 1, c - 1) \o SubSeq(list, c + 1, Len(list)), A \cup Z)
    BY <2>5, <2>6, <2>8, EnumeratesJoin
  <2> QED BY <2>3, <2>9, <2>10
<1> QED BY <1>1, <1>2

(***************************************************************************)
(* bounded(), replenish() and drainQueue()                                 *)
(***************************************************************************)

(* The least number of a set. *)
LEMMA MinIsLeast ==
  ASSUME NEW T, T \subseteq Nat, T # {}
  PROVE  Min(T) \in T /\ \A y \in T : Min(T) <= y
BY LeastNatural DEF Min

(* Of two it is one that neither exceeds. *)
LEMMA MinOfTwo ==
  ASSUME NEW a \in Nat, NEW b \in Nat
  PROVE  Min({a, b}) \in {a, b} /\ Min({a, b}) <= a /\ Min({a, b}) <= b
<1>1. ASSUME NEW T, T = {a, b}
      PROVE  Min(T) \in T /\ \A y \in T : Min(T) <= y
  <2>1. T \subseteq Nat /\ T # {}
    BY <1>1
  <2> QED BY <2>1, MinIsLeast
<1>2. Min({a, b}) \in {a, b} /\ \A y \in {a, b} : Min({a, b}) <= y
  BY <1>1
<1> HIDE DEF Min
<1> QED BY <1>2

(* What bounded() makes of the options. *)
LEMMA BoundedType ==
  ASSUME NEW v \in Nat \union {Undefined}, NEW f \in Nat, NEW m \in Nat, f >= 1, m >= 1
  PROVE  Bounded(v, f, m) \in Nat /\ Bounded(v, f, m) >= 1
<1>1. CASE v = Undefined \/ v = 0
  BY <1>1 DEF Bounded
<1>2. CASE ~ (v = Undefined \/ v = 0)
  <2>1. v \in Nat /\ v >= 1
    BY <1>2
  <2>2. Bounded(v, f, m) = Min({v, m})
    BY <1>2 DEF Bounded
  <2>3. Min({v, m}) \in {v, m}
    BY <2>1, MinOfTwo
  <2> QED BY <2>1, <2>2, <2>3
<1> QED BY <1>1, <1>2

(* The pool has room for a thread, and its queue for a task. *)
LEMMA Limits == /\ MaxWorkers \in Nat /\ MaxWorkers >= 1
                /\ MaxQueueSize \in Nat /\ MaxQueueSize >= 1
<1>1. Bounded(MaxWorkersOption, 2, 16) \in Nat /\ Bounded(MaxWorkersOption, 2, 16) >= 1
  <2>1. MaxWorkersOption \in Nat \union {Undefined}
    BY WorkerPoolAssumption
  <2>2. 2 \in Nat /\ 16 \in Nat /\ 2 >= 1 /\ 16 >= 1
    OBVIOUS
  <2> QED BY <2>1, <2>2, BoundedType
<1>2. MaxWorkers \in Nat /\ MaxWorkers >= 1
  BY <1>1 DEF MaxWorkers
<1>3. ASSUME NEW f \in Nat, f >= 1
      PROVE  Bounded(MaxQueueOption, f, 64) \in Nat /\ Bounded(MaxQueueOption, f, 64) >= 1
  <2>1. MaxQueueOption \in Nat \union {Undefined}
    BY WorkerPoolAssumption
  <2>2. 64 \in Nat /\ 64 >= 1
    OBVIOUS
  <2> QED BY <1>3, <2>1, <2>2, BoundedType
<1>4. MaxWorkers * 4 \in Nat /\ MaxWorkers * 4 >= 1
  BY <1>2
<1>5. MaxQueueSize \in Nat /\ MaxQueueSize >= 1
  BY <1>3, <1>4 DEF MaxQueueSize
<1> QED BY <1>2, <1>5

(* How many of the first tasks can be posted: none of none, and at the     *)
(* next task one more if it is cloneable.                                  *)
LEMMA PostedType ==
  ASSUME NEW list, NEW p \in Nat
  PROVE  /\ Posted(list, p) \in Nat /\ Posted(list, p) <= p
         /\ Posted(list, 0) = 0
<1> DEFINE P == {i \in 1 .. p : Cloneable(list[i])}
<1>1. IsFiniteSet(1 .. p) /\ Cardinality(1 .. p) = p
  BY IntervalIsFinite
<1>2. P \in SUBSET (1 .. p)
  OBVIOUS
<1>3. IsFiniteSet(P) /\ Cardinality(P) <= Cardinality(1 .. p)
  BY <1>1, <1>2, FS_Subset
<1>4. Cardinality(P) \in Nat
  BY <1>3, FS_CardinalityType
<1>5. {i \in 1 .. 0 : Cloneable(list[i])} = {}
  OBVIOUS
<1> QED BY <1>1, <1>3, <1>4, <1>5, FS_EmptySet DEF Posted

(* The next task adds one, if it can be posted. *)
LEMMA PostedNext ==
  ASSUME NEW list, NEW p \in Nat
  PROVE  Posted(list, p + 1) = IF Cloneable(list[p + 1]) THEN Posted(list, p) + 1
                                                         ELSE Posted(list, p)
<1> DEFINE P == {i \in 1 .. p : Cloneable(list[i])}
           Q == {i \in 1 .. p + 1 : Cloneable(list[i])}
<1>1. IsFiniteSet(1 .. p)
  BY IntervalIsFinite
<1>2. IsFiniteSet(P)
  BY <1>1, FS_Subset
<1>3. p + 1 \notin P
  OBVIOUS
<1>4. CASE Cloneable(list[p + 1])
  <2>1. Q = P \cup {p + 1}
    BY <1>4
  <2>2. Cardinality(P \cup {p + 1}) = Cardinality(P) + 1
    BY <1>2, <1>3, FS_AddElement
  <2> QED BY <1>4, <2>1, <2>2 DEF Posted
<1>5. CASE ~ Cloneable(list[p + 1])
  <2>1. Q = P
    BY <1>5
  <2> QED BY <1>5, <2>1 DEF Posted
<1> QED BY <1>4, <1>5

(* The count grows along the queue, at each task that can be posted. *)
LEMMA PostedGrows ==
  ASSUME NEW list, NEW p \in Nat, NEW q \in Nat, p <= q
  PROVE  /\ Posted(list, p) <= Posted(list, q)
         /\ p < q /\ Cloneable(list[q]) => Posted(list, p) < Posted(list, q)
<1>1. ASSUME NEW r \in Nat, p <= r
      PROVE  Posted(list, p) <= Posted(list, r)
  <2> DEFINE P == {i \in 1 .. p : Cloneable(list[i])}
             Q == {i \in 1 .. r : Cloneable(list[i])}
  <2>1. IsFiniteSet(1 .. r)
    BY IntervalIsFinite
  <2>2. IsFiniteSet(Q)
    BY <2>1, FS_Subset
  <2>3. P \in SUBSET Q
    BY <1>1
  <2>4. Cardinality(P) <= Cardinality(Q)
    BY <2>2, <2>3, FS_Subset
  <2> QED BY <2>4 DEF Posted
<1>2. ASSUME p < q, Cloneable(list[q])
      PROVE  Posted(list, p) < Posted(list, q)
  <2>1. PICK r \in Nat : q = r + 1 /\ p <= r
    <3>1. q - 1 \in Nat /\ q = (q - 1) + 1 /\ p <= q - 1
      BY <1>2
    <3> QED BY <3>1
  <2>2. Posted(list, r + 1) = Posted(list, r) + 1
    BY <1>2, <2>1, PostedNext
  <2>3. Posted(list, p) <= Posted(list, r)
    BY <1>1, <2>1
  <2>4. Posted(list, p) \in Nat /\ Posted(list, r) \in Nat
    BY PostedType
  <2> QED BY <2>1, <2>2, <2>3, <2>4
<1> QED BY <1>1, <1>2

(* Every number of posted tasks comes with a task that is posted.          *)
LEMMA PostedReaches ==
  ASSUME NEW list, NEW p \in Nat, NEW k \in 1 .. Posted(list, p)
  PROVE  \E i \in 1 .. p : Cloneable(list[i]) /\ Posted(list, i) = k
<1> DEFINE T == {i \in 0 .. p : k <= Posted(list, i)}
<1>1. Posted(list, p) \in Nat /\ k \in Nat /\ 1 <= k /\ k <= Posted(list, p)
  BY PostedType
<1>2. p \in T /\ T \subseteq Nat
  BY <1>1
<1>3. PICK i \in T : \A j \in T : i <= j
  <2> HIDE DEF T
  <2> QED BY <1>2, LeastNatural
<1>4. i \in Nat /\ i <= p /\ k <= Posted(list, i)
  BY <1>3
<1>5. i # 0
  BY <1>1, <1>4, PostedType
<1>6. PICK r \in Nat : i = r + 1
  <2>1. i - 1 \in Nat /\ i = (i - 1) + 1
    BY <1>4, <1>5
  <2> QED BY <2>1
<1>7. ~ (k <= Posted(list, r))
  <2>1. r \in 0 .. p /\ ~ (i <= r)
    BY <1>4, <1>6
  <2>2. r \notin T
    BY <1>3, <2>1
  <2> QED BY <2>1, <2>2
<1>8. Posted(list, r) \in Nat /\ Posted(list, i) \in Nat
  BY <1>4, PostedType
<1>9. Posted(list, i) = IF Cloneable(list[i]) THEN Posted(list, r) + 1 ELSE Posted(list, r)
  BY <1>6, PostedNext
<1>10. Cloneable(list[i]) /\ Posted(list, i) = k
  BY <1>1, <1>4, <1>7, <1>8, <1>9
<1> QED BY <1>4, <1>5, <1>10

(* Until n threads have a task, or the queue is empty.                     *)
LEMMA LeavingFits ==
  ASSUME NEW list \in Seq(Tasks), NEW m \in Nat
  PROVE  /\ Leaving(list, m) \in 0 .. Len(list)
         /\ Posted(list, Leaving(list, m)) <= m
         /\ \/ Leaving(list, m) = Len(list)
            \/ Posted(list, Leaving(list, m)) = m
<1> DEFINE ends == {p \in 1 .. Len(list) : Posted(list, p) = m}
<1>0. Len(list) \in Nat
  BY LenProperties
<1>1. CASE m = 0
  BY <1>0, <1>1, PostedType DEF Leaving
<1>2. CASE m # 0 /\ ends = {}
  <2>1. Leaving(list, m) = Len(list)
    BY <1>2 DEF Leaving
  <2>2. Posted(list, Len(list)) \in Nat
    BY <1>0, PostedType
  <2>3. ~ (m \in 1 .. Posted(list, Len(list)))
    <3>1. \A p \in 1 .. Len(list) : Posted(list, p) # m
      BY <1>2
    <3>2. PICK k \in Nat : k = Len(list)
      BY <1>0
    <3> HIDE DEF ends
    <3> QED BY <3>1, <3>2, PostedReaches
  <2>4. PICK x \in Nat : x = Posted(list, Len(list))
    BY <2>2
  <2>5. m # 0 /\ ~ (m \in 1 .. x)
    BY <1>2, <2>3, <2>4
  <2>6. x <= m
    BY <2>5
  <2> QED BY <1>0, <2>1, <2>4, <2>6
<1>3. CASE m # 0 /\ ends # {}
  <2>1. Leaving(list, m) = Min(ends)
    BY <1>3 DEF Leaving
  <2>2. ends \subseteq Nat
    BY <1>0
  <2>3. Min(ends) \in ends
    <3> HIDE DEF ends
    <3> QED BY <1>3, <2>2, MinIsLeast
  <2> QED BY <1>0, <2>1, <2>3
<1> QED BY <1>1, <1>2, <1>3

(* Threads for a number within what there is are made, and none is used.   *)
LEMMA FreshNew ==
  ASSUME NEW used \in SUBSET Threads, NEW n \in Nat,
         n + Cardinality(used) <= Cardinality(Threads)
  PROVE  /\ \E F \in SUBSET (Threads \ used) : Enumerates(Fresh(n, used), F)
         /\ Len(Fresh(n, used)) = n
<1> DEFINE S == Threads \ used
           all == SetToSeq(S)
           m == Cardinality(S)
<1>1. /\ IsFiniteSet(Threads) /\ Cardinality(Threads) \in Nat
      /\ IsFiniteSet(used) /\ Cardinality(used) \in Nat
  BY WorkerPoolAssumption, FS_Subset, FS_CardinalityType
<1>2. IsFiniteSet(S) /\ m = Cardinality(Threads) - Cardinality(used)
  <2>1. Threads \cap used = used
    OBVIOUS
  <2> QED BY <1>1, <2>1, FS_Difference
<1>3. m \in Nat /\ n <= m /\ n \in 0 .. m
  BY <1>1, <1>2
<1>4. all \in [1 .. m -> S] /\ IsInjective(all)
  <2>1. ExistsBijection(1 .. m, S)
    BY <1>2, FS_CardinalityType
  <2>2. PICK f \in Bijection(1 .. m, S) : TRUE
    BY <2>1 DEF ExistsBijection
  <2>3. f \in [1 .. m -> S] /\ IsInjective(f)
    BY <2>2 DEF Bijection, Injection, IsInjective
  <2> QED BY <2>3 DEF SetToSeq
<1>5. Enumerates(all, ToSet(all)) /\ Len(all) = m /\ ToSet(all) \subseteq S
  <2> HIDE DEF all, m, S
  <2>1. all \in Seq(S) /\ Len(all) = m
    BY <1>3, <1>4
  <2>2. DOMAIN all = 1 .. Len(all)
    BY <2>1, LenProperties
  <2>3. \A i \in 1 .. Len(all) : all[i] \in ToSet(all)
    BY <2>2 DEF ToSet
  <2>4. \A x \in ToSet(all) : \E i \in 1 .. Len(all) : all[i] = x
    BY <2>2 DEF ToSet
  <2>5. \A i, j \in 1 .. Len(all) : all[i] = all[j] => i = j
    BY <1>4, <2>2 DEF IsInjective
  <2>6. Enumerates(all, ToSet(all))
    BY <2>1, <2>3, <2>4, <2>5, EnumeratesIf
  <2>7. ToSet(all) \subseteq S
    BY <1>4, <2>1, <2>2 DEF ToSet
  <2> QED BY <2>1, <2>6, <2>7
<1>6. Fresh(n, used) = SubSeq(all, 1, n)
  BY DEF Fresh
<1> DEFINE F == {all[i] : i \in 1 .. n}
<1>7. F \subseteq S
  <2> HIDE DEF all, m, S
  <2>1. \A i \in 1 .. n : i \in 1 .. m
    BY <1>3
  <2> QED BY <1>4, <2>1
<1>8. Enumerates(SubSeq(all, 1, n), F) /\ Len(SubSeq(all, 1, n)) = n
  <2> HIDE DEF all, m
  <2>1. n \in 0 .. Len(all)
    BY <1>3, <1>5
  <2> QED BY <1>5, <2>1, EnumeratesPart
<1> QED BY <1>6, <1>7, <1>8

(* replenish(): new threads within the capacity, one for each task that    *)
(* waits unless the capacity is reached.                                   *)
LEMMA ReplenishedFits ==
  ASSUME NEW avail \in Seq(Threads), NEW waiting \in Seq(Tasks),
         NEW alive \in SUBSET Threads, NEW ending \in SUBSET Threads,
         alive \cap ending = {},
         Cardinality(alive) + Cardinality(ending) <= MaxWorkers
  PROVE  \E F \in SUBSET (Threads \ (alive \cup ending)) :
           /\ Enumerates(Replenished(avail, waiting, alive, ending), F)
           /\ IsFiniteSet(F)
           /\ Cardinality(alive) + Cardinality(F) + Cardinality(ending) <= MaxWorkers
           /\ \/ destroyed
              \/ Len(waiting) <= Len(avail) + Cardinality(F)
              \/ Cardinality(alive) + Cardinality(F) + Cardinality(ending) = MaxWorkers
<1> DEFINE fresh == Replenished(avail, waiting, alive, ending)
           none == destroyed \/ Len(waiting) <= Len(avail)
                     \/ MaxWorkers <= Cardinality(alive) + Cardinality(ending)
           wanted == Len(waiting) - Len(avail)
           spare == MaxWorkers - Cardinality(alive) - Cardinality(ending)
           used == alive \cup ending
<1>1. /\ Cardinality(alive) \in Nat /\ Cardinality(ending) \in Nat
      /\ Cardinality(Threads) \in Nat /\ Cardinality(Threads) > MaxWorkers
      /\ IsFiniteSet(alive) /\ IsFiniteSet(ending)
  BY WorkerPoolAssumption, FS_Subset, FS_CardinalityType
<1>2. Cardinality(used) = Cardinality(alive) + Cardinality(ending)
  <2>1. Cardinality(used) = Cardinality(alive) + Cardinality(ending)
                              - Cardinality(alive \cap ending)
    BY <1>1, FS_Union
  <2>2. Cardinality(alive \cap ending) = 0
    BY FS_EmptySet
  <2> QED BY <1>1, <2>1, <2>2
<1>3. Len(waiting) \in Nat /\ Len(avail) \in Nat /\ MaxWorkers \in Nat
  BY LenProperties, Limits
<1>4. PICK a \in Nat, e \in Nat, w \in Nat, v \in Nat, M \in Nat, C \in Nat :
        /\ a = Cardinality(alive) /\ e = Cardinality(ending)
        /\ w = Len(waiting) /\ v = Len(avail) /\ M = MaxWorkers /\ C = Cardinality(Threads)
  BY <1>1, <1>3
<1>5. CASE none
  <2>1. Enumerates(fresh, {})
    BY <1>5, EnumeratesNone DEF Replenished
  <2>2. IsFiniteSet({}) /\ Cardinality({}) = 0
    BY FS_EmptySet
  <2>3. destroyed \/ w <= v + 0 \/ a + 0 + e = M
    BY <1>4, <1>5
  <2>4. a + 0 + e <= M
    BY <1>4
  <2>5. {} \in SUBSET (Threads \ (alive \cup ending))
    OBVIOUS
  <2> QED BY <1>4, <2>1, <2>2, <2>3, <2>4, <2>5
<1>6. CASE ~ none
  <2>1. PICK x \in Nat, y \in Nat :
          x = wanted /\ y = spare /\ x + v = w /\ y + a + e = M
    <3>1. w > v /\ M > a + e
      BY <1>4, <1>6
    <3>2. wanted = w - v /\ spare = M - a - e
      BY <1>4
    <3> HIDE DEF wanted, spare
    <3>3. wanted \in Nat /\ spare \in Nat /\ wanted + v = w /\ spare + a + e = M
      BY <3>1, <3>2
    <3> QED BY <3>3
  <2>2. PICK n : n = Min({x, y})
    OBVIOUS
  <2>3. n \in {x, y} /\ n <= x /\ n <= y
    BY <2>2, MinOfTwo
  <2>4. fresh = Fresh(n, used)
    BY <1>6, <2>1, <2>2 DEF Replenished
  <2>5. n \in Nat /\ n + Cardinality(used) <= Cardinality(Threads)
    <3> HIDE DEF used, wanted, spare, none, fresh
    <3>1. Cardinality(used) = a + e /\ M < C
      BY <1>1, <1>2, <1>4
    <3>2. y + a + e = M
      BY <2>1
    <3>3. n \in Nat
      BY <2>3
    <3>4. n + (a + e) <= C
      BY <2>3, <3>1, <3>2, <3>3
    <3> QED BY <1>4, <3>1, <3>3, <3>4
  <2>6. /\ \E F \in SUBSET (Threads \ used) : Enumerates(Fresh(n, used), F)
        /\ Len(Fresh(n, used)) = n
    <3>1. used \in SUBSET Threads
      OBVIOUS
    <3> HIDE DEF used
    <3> QED BY <2>5, <3>1, FreshNew
  <2>7. PICK F \in SUBSET (Threads \ used) : Enumerates(Fresh(n, used), F)
    BY <2>6
  <2>8. IsFiniteSet(F) /\ Cardinality(F) = n
    BY <2>6, <2>7, EnumeratesCount
  <2>9. (w <= v + n \/ a + n + e = M) /\ a + n + e <= M
    <3> HIDE DEF used, wanted, spare, none, fresh
    <3> QED BY <2>1, <2>3
  <2> QED BY <1>4, <2>4, <2>7, <2>8, <2>9
<1> QED BY <1>5, <1>6

(* The last threads of the list get one task each, the others none, and    *)
(* each task that can be posted goes to one of them.                       *)
LEMMA GivenOut ==
  ASSUME NEW ready, NEW R, Enumerates(ready, R),
         NEW waiting, NEW n \in Nat, Posted(waiting, n) <= Len(ready),
         NEW left, left = Len(ready) - Posted(waiting, n)
  PROVE  /\ left \in 0 .. Len(ready)
         /\ \A p \in 1 .. n : Cloneable(waiting[p]) =>
              \E i \in left + 1 .. Len(ready) :
                Given(ready, waiting, n, ready[i]) = {p}
         /\ \A i \in left + 1 .. Len(ready) :
              \E p \in 1 .. n : /\ Cloneable(waiting[p])
                                /\ Given(ready, waiting, n, ready[i]) = {p}
         /\ \A i \in 1 .. left : Given(ready, waiting, n, ready[i]) = {}
         /\ \A w : w \notin R => Given(ready, waiting, n, w) = {}
<1> DEFINE L == Len(ready)
           k == Posted(waiting, n)
           At(p) == L + 1 - Posted(waiting, p)
<1>1. /\ L \in Nat /\ \A i \in 1 .. L : ready[i] \in R
      /\ \A i, j \in 1 .. L : ready[i] = ready[j] => i = j
  BY EnumeratesDef
<1>2. k \in Nat /\ k <= L /\ left = L - k
  BY PostedType
<1>3. left \in 0 .. L
  BY <1>1, <1>2
<1>4. ASSUME NEW p \in 1 .. n, Cloneable(waiting[p])
      PROVE  /\ At(p) \in left + 1 .. L
             /\ Posted(waiting, p) \in 1 .. k
  <2>1. Posted(waiting, p) \in Nat /\ Posted(waiting, p) <= k
    BY PostedType, PostedGrows
  <2>2. Posted(waiting, 0) = 0 /\ Posted(waiting, 0) < Posted(waiting, p)
    BY <1>4, PostedType, PostedGrows
  <2>3. PICK x \in Nat : x = Posted(waiting, p)
    BY <2>1
  <2>4. 0 < x /\ x <= k
    BY <2>1, <2>2, <2>3
  <2> HIDE DEF k, L
  <2> QED BY <1>1, <1>2, <2>3, <2>4
<1>5. ASSUME NEW p \in 1 .. n, Cloneable(waiting[p]),
             NEW q \in 1 .. n, Cloneable(waiting[q]),
             Posted(waiting, p) = Posted(waiting, q)
      PROVE  p = q
  <2>1. p \in Nat /\ q \in Nat /\ Posted(waiting, p) \in Nat /\ Posted(waiting, q) \in Nat
    BY PostedType
  <2>2. ~ (p < q)
    BY <1>5, <2>1, PostedGrows
  <2>3. ~ (q < p)
    BY <1>5, <2>1, PostedGrows
  <2> QED BY <2>1, <2>2, <2>3
<1>6. ASSUME NEW p \in 1 .. n, Cloneable(waiting[p])
      PROVE  Given(ready, waiting, n, ready[At(p)]) = {p}
  <2>1. p \in Given(ready, waiting, n, ready[At(p)])
    BY <1>6 DEF Given
  <2>2. ASSUME NEW q \in Given(ready, waiting, n, ready[At(p)])
        PROVE  q = p
    <3>1. q \in 1 .. n /\ Cloneable(waiting[q]) /\ ready[At(p)] = ready[At(q)]
      BY <2>2 DEF Given
    <3>2. At(p) \in 1 .. L /\ At(q) \in 1 .. L
      <4>1. \A i \in left + 1 .. L : i \in 1 .. L
        BY <1>2, <1>3
      <4>2. At(p) \in left + 1 .. L /\ At(q) \in left + 1 .. L
        BY <1>4, <1>6, <3>1
      <4> HIDE DEF At
      <4> QED BY <4>1, <4>2
    <3>3. At(p) = At(q)
      BY <1>1, <3>1, <3>2
    <3>4. Posted(waiting, p) \in Nat /\ Posted(waiting, q) \in Nat
      BY <3>1, PostedType
    <3>5. Posted(waiting, p) = Posted(waiting, q)
      BY <1>1, <3>3, <3>4
    <3> QED BY <1>5, <1>6, <3>1, <3>5
  <2> QED BY <2>1, <2>2
<1>7. ASSUME NEW p \in 1 .. n, Cloneable(waiting[p])
      PROVE  \E i \in left + 1 .. L : Given(ready, waiting, n, ready[i]) = {p}
  BY <1>4, <1>6, <1>7
<1>8. ASSUME NEW i \in left + 1 .. L
      PROVE  \E p \in 1 .. n : Cloneable(waiting[p]) /\ Given(ready, waiting, n, ready[i]) = {p}
  <2>1. L + 1 - i \in 1 .. k
    BY <1>1, <1>2, <1>8
  <2>2. PICK p \in 1 .. n : Cloneable(waiting[p]) /\ Posted(waiting, p) = L + 1 - i
    BY <2>1, PostedReaches
  <2>3. At(p) = i
    BY <1>1, <1>2, <1>8, <2>2
  <2> QED BY <1>6, <2>2, <2>3
<1>9. ASSUME NEW i \in 1 .. left
      PROVE  Given(ready, waiting, n, ready[i]) = {}
  <2> SUFFICES ASSUME NEW p \in Given(ready, waiting, n, ready[i])
               PROVE  FALSE
    OBVIOUS
  <2>1. p \in 1 .. n /\ Cloneable(waiting[p]) /\ ready[i] = ready[At(p)]
    BY DEF Given
  <2>2. At(p) \in left + 1 .. L /\ i \in 1 .. L /\ left \in Nat
    BY <1>1, <1>3, <1>4, <2>1
  <2>3. At(p) \in 1 .. L
    BY <1>1, <2>2
  <2>4. i = At(p)
    BY <1>1, <2>1, <2>2, <2>3
  <2> QED BY <1>1, <2>2, <2>4
<1>10. ASSUME NEW w, w \notin R
       PROVE  Given(ready, waiting, n, w) = {}
  <2> SUFFICES ASSUME NEW p \in Given(ready, waiting, n, w)
               PROVE  FALSE
    OBVIOUS
  <2>1. p \in 1 .. n /\ Cloneable(waiting[p]) /\ w = ready[At(p)]
    BY DEF Given
  <2>2. At(p) \in 1 .. L
    BY <1>1, <1>3, <1>4, <2>1
  <2> QED BY <1>1, <1>10, <2>1, <2>2
<1> QED BY <1>3, <1>7, <1>8, <1>9, <1>10

(* The threads that are alive and have no task. *)
Idle(busy, alive) == {w \in alive : busy[w] = NoTask}

(* What an event leaves to ReplenishAndDrain: threads within the capacity, *)
(* those that are alive and have no task available, and a queue within its *)
(* limit that names no task twice.                                         *)
Left(avail, waiting, busy, alive, ending) ==
  /\ busy \in [Threads -> Tasks \union {NoTask}]
  /\ alive \in SUBSET Threads /\ ending \in SUBSET Threads
  /\ alive \cap ending = {}
  /\ Cardinality(alive) + Cardinality(ending) <= MaxWorkers
  /\ \A w \in Threads \ alive : busy[w] = NoTask
  /\ Enumerates(avail, Idle(busy, alive))
  /\ Enumerates(waiting, ToSet(waiting)) /\ ToSet(waiting) \subseteq Tasks
  /\ Len(waiting) <= MaxQueueSize
  /\ destroyed \in BOOLEAN /\ (destroyed => Len(waiting) = 0)

(* How the running tasks change when the first n tasks leave the queue:    *)
(* each that can be posted goes to one thread of its own that had none.    *)
Handed(waiting, n, busy, after) ==
  /\ after \in [Threads -> Tasks \union {NoTask}]
  /\ \A w \in Threads : busy[w] # NoTask => after[w] = busy[w]
  /\ \A w \in Threads : after[w] # busy[w] =>
       \E p \in 1 .. n : Cloneable(waiting[p]) /\ after[w] = waiting[p]
  /\ \A p \in 1 .. n : Cloneable(waiting[p]) =>
       \E w \in Threads : busy[w] = NoTask /\ after[w] = waiting[p]
  /\ \A v, w \in Threads :
       after[v] = after[w] /\ after[v] # busy[v] /\ after[w] # busy[w] => v = w

(* The tasks that run when drainQueue() has handed out the first n. *)
After(ready, waiting, n, busy) ==
  [w \in Threads |->
     IF Given(ready, waiting, n, w) = {} THEN busy[w]
       ELSE waiting[CHOOSE p \in Given(ready, waiting, n, w) : TRUE]]

(* Which threads of R, that ready lists, are left without a task.          *)
Spares(ready, R, left, busy, after) ==
  /\ left \in 0 .. Len(ready)
  /\ \A w \in Threads \ R : after[w] = busy[w]
  /\ {w \in R : after[w] = NoTask} = {ready[i] : i \in 1 .. left}

(* The threads that get a task, and those that stay available. *)
LEMMA HandedOut ==
  ASSUME NEW busy \in [Threads -> Tasks \union {NoTask}],
         NEW R \in SUBSET Threads, \A w \in R : busy[w] = NoTask,
         NEW ready, Enumerates(ready, R),
         NEW waiting \in Seq(Tasks), Enumerates(waiting, ToSet(waiting)),
         NEW n \in 0 .. Len(waiting), Posted(waiting, n) <= Len(ready),
         NEW left, left = Len(ready) - Posted(waiting, n)
  PROVE  /\ Handed(waiting, n, busy, After(ready, waiting, n, busy))
         /\ Spares(ready, R, left, busy, After(ready, waiting, n, busy))
<1> DEFINE after == After(ready, waiting, n, busy)
           Got(w) == Given(ready, waiting, n, w)
           L == Len(ready)
<1>0. n \in Nat /\ Len(waiting) \in Nat
  BY LenProperties
<1>fits. n \in Nat /\ Posted(waiting, n) <= Len(ready) /\ left = Len(ready) - Posted(waiting, n)
  BY <1>0
<1>given. /\ left \in 0 .. Len(ready)
          /\ \A p \in 1 .. n : Cloneable(waiting[p]) =>
               \E i \in left + 1 .. Len(ready) :
                 Given(ready, waiting, n, ready[i]) = {p}
          /\ \A i \in left + 1 .. Len(ready) :
               \E p \in 1 .. n : /\ Cloneable(waiting[p])
                                 /\ Given(ready, waiting, n, ready[i]) = {p}
          /\ \A i \in 1 .. left : Given(ready, waiting, n, ready[i]) = {}
          /\ \A w : w \notin R => Given(ready, waiting, n, w) = {}
  <2> HIDE DEF after, Got, L
  <2> QED BY <1>fits, GivenOut, Zenon
<1>1. /\ left \in 0 .. L
      /\ \A p \in 1 .. n : Cloneable(waiting[p]) => \E i \in left + 1 .. L : Got(ready[i]) = {p}
      /\ \A i \in left + 1 .. L :
           \E p \in 1 .. n : Cloneable(waiting[p]) /\ Got(ready[i]) = {p}
      /\ \A i \in 1 .. left : Got(ready[i]) = {}
      /\ \A w : w \notin R => Got(w) = {}
  BY <1>given, Zenon
<1>2. /\ L \in Nat /\ \A i \in 1 .. L : ready[i] \in R
      /\ \A w \in R : \E i \in 1 .. L : ready[i] = w
  BY EnumeratesDef
<1>3. \A w \in Threads : Got(w) = {} => after[w] = busy[w]
  BY DEF After
<1>4. ASSUME NEW w \in Threads, NEW p, Got(w) = {p}
      PROVE  after[w] = waiting[p]
  BY <1>4 DEF After
<1>5. \A p \in 1 .. n : waiting[p] \in Tasks /\ waiting[p] # NoTask
  <2> TAKE p \in 1 .. n
  <2>1. p \in 1 .. Len(waiting)
    BY <1>0
  <2> QED BY <2>1, ElementOfSeq, WorkerPoolAssumption
<1> HIDE DEF after, Got, L
<1>6. ASSUME NEW w \in Threads
      PROVE  \/ after[w] = busy[w] /\ Got(w) = {}
             \/ \E p \in 1 .. n : /\ Cloneable(waiting[p]) /\ Got(w) = {p}
                                  /\ after[w] = waiting[p]
                                  /\ w \in R /\ busy[w] = NoTask
  <2>1. CASE w \notin R
    BY <1>1, <1>3, <2>1
  <2>2. CASE w \in R
    <3>1. PICK i \in 1 .. L : ready[i] = w
      BY <1>2, <2>2
    <3>2. CASE i \in 1 .. left
      BY <1>1, <1>3, <3>1, <3>2
    <3>3. CASE i \in left + 1 .. L
      <4>1. PICK p \in 1 .. n : Cloneable(waiting[p]) /\ Got(w) = {p}
        BY <1>1, <3>1, <3>3
      <4> QED BY <1>4, <2>2, <4>1
    <3>4. i \in 1 .. left \/ i \in left + 1 .. L
      BY <1>1, <1>2
    <3> QED BY <3>2, <3>3, <3>4
  <2> QED BY <2>1, <2>2
<1>7. ASSUME NEW p \in 1 .. n, Cloneable(waiting[p])
      PROVE  \E w \in R : busy[w] = NoTask /\ after[w] = waiting[p]
  <2>1. PICK i \in left + 1 .. L : Got(ready[i]) = {p}
    BY <1>1, <1>7
  <2>2. i \in 1 .. L
    BY <1>1, <1>2
  <2>3. ready[i] \in R /\ ready[i] \in Threads
    BY <1>2, <2>2
  <2> QED BY <1>4, <2>1, <2>3
<1>8. after \in [Threads -> Tasks \union {NoTask}]
  <2>1. \A w \in Threads : after[w] \in Tasks \union {NoTask}
    BY <1>5, <1>6
  <2>2. after = [w \in Threads |-> after[w]]
    BY DEF after, After
  <2> QED BY <2>1, <2>2
<1>9. ASSUME NEW v \in Threads, NEW w \in Threads,
             after[v] = after[w], after[v] # busy[v], after[w] # busy[w]
      PROVE  v = w
  <2>1. PICK p \in 1 .. n : Got(v) = {p} /\ after[v] = waiting[p]
    BY <1>6, <1>9
  <2>2. PICK q \in 1 .. n : Got(w) = {q} /\ after[w] = waiting[q]
    BY <1>6, <1>9
  <2>3. p \in 1 .. Len(waiting) /\ q \in 1 .. Len(waiting)
    BY <1>0
  <2>4. p = q
    <3>1. \A i, j \in 1 .. Len(waiting) : waiting[i] = waiting[j] => i = j
      BY EnumeratesDef
    <3> QED BY <1>9, <2>1, <2>2, <2>3, <3>1
  <2>5. p \in Got(v) /\ p \in Got(w)
    BY <2>1, <2>2, <2>4
  <2> QED BY <2>5 DEF Got, Given
<1>10. Handed(waiting, n, busy, after)
  <2>1. \A w \in Threads : busy[w] # NoTask => after[w] = busy[w]
    BY <1>6
  <2>2. \A w \in Threads : after[w] # busy[w] =>
          \E p \in 1 .. n : Cloneable(waiting[p]) /\ after[w] = waiting[p]
    BY <1>6
  <2>3. \A p \in 1 .. n : Cloneable(waiting[p]) =>
          \E w \in Threads : busy[w] = NoTask /\ after[w] = waiting[p]
    BY <1>7
  <2> QED BY <1>8, <1>9, <2>1, <2>2, <2>3 DEF Handed
<1>11. \A w \in Threads \ R : after[w] = busy[w]
  BY <1>1, <1>3
<1>12. {w \in R : after[w] = NoTask} = {ready[i] : i \in 1 .. left}
  <2>1. ASSUME NEW i \in 1 .. left
        PROVE  ready[i] \in R /\ after[ready[i]] = NoTask
    <3>1. i \in 1 .. L
      BY <1>1, <1>2
    <3>2. ready[i] \in R /\ Got(ready[i]) = {}
      BY <1>1, <1>2, <3>1
    <3> QED BY <1>3, <3>2
  <2>2. ASSUME NEW w \in R, after[w] = NoTask
        PROVE  \E i \in 1 .. left : w = ready[i]
    <3>1. PICK i \in 1 .. L : ready[i] = w
      BY <1>2
    <3>2. ~ (i \in left + 1 .. L)
      BY <1>1, <1>4, <1>5, <2>2, <3>1
    <3>3. i \in 1 .. left
      BY <1>1, <1>2, <3>2
    <3> QED BY <3>1, <3>3
  <2> QED BY <2>1, <2>2
<1> QED BY <1>1, <1>10, <1>11, <1>12 DEF after, L, Spares

(* The types of the pool; the available threads are those without a task. *)
Shape ==
  /\ active \in [Threads -> Tasks \union {NoTask}]
  /\ workers \in SUBSET Threads /\ closing \in SUBSET Threads
  /\ destroyed \in BOOLEAN
  /\ Enumerates(available, Idle(active, workers))
  /\ Enumerates(queue, ToSet(queue)) /\ ToSet(queue) \subseteq Tasks

(* The tasks among the first n that cannot be posted. *)
Refused(waiting, n) == {waiting[p] : p \in {q \in 1 .. n : ~ Cloneable(waiting[q])}}

(* What an event does to the tasks when the first n leave the queue.       *)
Settles(waiting, n, busy, done, refused) ==
  /\ n \in 0 .. Len(waiting)
  /\ queue' = SubSeq(waiting, n + 1, Len(waiting))
  /\ Handed(waiting, n, busy, active')
  /\ completedTasks' = completedTasks + Cardinality(done)
  /\ failedTasks' = failedTasks + Cardinality(refused \union Refused(waiting, n))
  /\ outcome' = [t \in Tasks |->
                  CASE t \in done -> "resolved"
                    [] t \in refused \union Refused(waiting, n) -> "rejected"
                    [] t \in ToSet(waiting) \ (refused \union Refused(waiting, n)) -> "waiting"
                    [] OTHER -> outcome[t]]

(* Every event keeps the threads within the capacity and uses all of it    *)
(* while a task waits.                                                     *)
LEMMA Drained ==
  ASSUME NEW avail, NEW waiting, NEW busy, NEW alive, NEW ending, NEW done, NEW refused,
         Left(avail, waiting, busy, alive, ending),
         ReplenishAndDrain(avail, waiting, busy, alive, ending, done, refused),
         UNCHANGED destroyed
  PROVE  /\ Shape' /\ CapacityUsed'
         /\ \E n \in 0 .. Len(waiting) : Settles(waiting, n, busy, done, refused)
<1> DEFINE fresh == Replenished(avail, waiting, alive, ending)
           ready == avail \o fresh
           n == Leaving(waiting, Len(ready))
           left == Len(ready) - Posted(waiting, n)
           Q == ToSet(waiting)
           I == Idle(busy, alive)
<1>1. /\ busy \in [Threads -> Tasks \union {NoTask}]
      /\ alive \in SUBSET Threads /\ ending \in SUBSET Threads
      /\ alive \cap ending = {}
      /\ Cardinality(alive) + Cardinality(ending) <= MaxWorkers
      /\ \A w \in Threads \ alive : busy[w] = NoTask
      /\ Enumerates(avail, I)
      /\ Enumerates(waiting, Q) /\ Q \subseteq Tasks
      /\ Len(waiting) <= MaxQueueSize
      /\ destroyed \in BOOLEAN /\ (destroyed => Len(waiting) = 0)
  BY DEF Left
<1>2. /\ available' = SubSeq(ready, 1, left)
      /\ queue' = SubSeq(waiting, n + 1, Len(waiting))
      /\ active' = After(ready, waiting, n, busy)
      /\ workers' = alive \union ToSet(fresh)
      /\ closing' = ending
      /\ completedTasks' = completedTasks + Cardinality(done)
      /\ failedTasks' = failedTasks + Cardinality(refused \union Refused(waiting, n))
      /\ outcome' = [t \in Tasks |->
                      CASE t \in done -> "resolved"
                        [] t \in refused \union Refused(waiting, n) -> "rejected"
                        [] t \in ToSet(waiting) \ (refused \union Refused(waiting, n)) -> "waiting"
                        [] OTHER -> outcome[t]]
  BY DEF ReplenishAndDrain, After, Refused
<1>3. avail \in Seq(Threads) /\ waiting \in Seq(Tasks) /\ I \subseteq Threads
  <2>1. I \subseteq Threads
    BY <1>1 DEF Idle
  <2>2. avail \in Seq(I) /\ waiting \in Seq(Q)
    BY <1>1 DEF Enumerates
  <2> HIDE DEF I, Q
  <2> QED BY <1>1, <2>1, <2>2, SeqMonotonic
<1> HIDE DEF I, Q
<1>4. PICK F \in SUBSET (Threads \ (alive \cup ending)) :
        /\ Enumerates(fresh, F)
        /\ IsFiniteSet(F)
        /\ Cardinality(alive) + Cardinality(F) + Cardinality(ending) <= MaxWorkers
        /\ \/ destroyed
           \/ Len(waiting) <= Len(avail) + Cardinality(F)
           \/ Cardinality(alive) + Cardinality(F) + Cardinality(ending) = MaxWorkers
  BY <1>1, <1>3, ReplenishedFits
<1> HIDE DEF fresh
<1>5. Cardinality(F) = Len(fresh) /\ ToSet(fresh) = F
  BY <1>4, EnumeratesCount, EnumeratesDef
<1>6. Enumerates(ready, I \cup F) /\ Len(ready) = Len(avail) + Len(fresh)
  <2>1. I \cap F = {}
    BY <1>4 DEF I, Idle
  <2> QED BY <1>1, <1>4, <2>1, EnumeratesJoin
<1>7. Len(ready) \in Nat /\ Len(avail) \in Nat /\ Len(waiting) \in Nat
  BY <1>1, <1>6, EnumeratesDef
<1> HIDE DEF ready
<1>8. /\ n \in 0 .. Len(waiting)
      /\ Posted(waiting, n) <= Len(ready)
      /\ n = Len(waiting) \/ Posted(waiting, n) = Len(ready)
  BY <1>3, <1>7, LeavingFits
<1> HIDE DEF n
<1>9. I \cup F \in SUBSET Threads /\ \A w \in I \cup F : busy[w] = NoTask
  BY <1>1, <1>3, <1>4 DEF I, Idle
<1>10. /\ Handed(waiting, n, busy, active')
       /\ left \in 0 .. Len(ready)
       /\ \A w \in Threads \ (I \cup F) : active'[w] = busy[w]
       /\ {w \in I \cup F : active'[w] = NoTask} = {ready[i] : i \in 1 .. left}
  <2>1. ASSUME NEW R \in SUBSET Threads, \A w \in R : busy[w] = NoTask,
               Enumerates(ready, R)
        PROVE  /\ Handed(waiting, n, busy, active')
               /\ left \in 0 .. Len(ready)
               /\ \A w \in Threads \ R : active'[w] = busy[w]
               /\ {w \in R : active'[w] = NoTask} = {ready[i] : i \in 1 .. left}
    <3>1. Enumerates(waiting, ToSet(waiting))
      BY <1>1 DEF Q
    <3>2. left = Len(ready) - Posted(waiting, n)
      OBVIOUS
    <3> HIDE DEF left
    <3>3. /\ Handed(waiting, n, busy, After(ready, waiting, n, busy))
          /\ Spares(ready, R, left, busy, After(ready, waiting, n, busy))
      <4>1. /\ waiting \in Seq(Tasks) /\ n \in 0 .. Len(waiting)
            /\ busy \in [Threads -> Tasks \union {NoTask}]
            /\ Posted(waiting, n) <= Len(ready)
        BY <1>1, <1>3, <1>8
      <4> QED BY <2>1, <3>1, <3>2, <4>1, HandedOut
    <3> QED BY <1>2, <3>3 DEF Spares
  <2> QED BY <1>6, <1>9, <2>1
<1>11. active' \in [Threads -> Tasks \union {NoTask}]
  BY <1>10 DEF Handed
<1>12. Idle(active', workers') = {ready[i] : i \in 1 .. left}
  <2>1. ASSUME NEW w \in alive \cup F, w \notin I \cup F
        PROVE  active'[w] # NoTask
    <3>1. w \in alive /\ busy[w] # NoTask
      BY <2>1 DEF I, Idle
    <3> QED BY <1>1, <1>10, <2>1, <3>1
  <2>2. I \subseteq alive
    BY DEF I, Idle
  <2>3. Idle(active', workers') = {w \in I \cup F : active'[w] = NoTask}
    BY <1>2, <1>5, <2>1, <2>2 DEF Idle
  <2> QED BY <1>10, <2>3
<1>13. Enumerates(available', Idle(active', workers')) /\ Len(available') = left
  <2> HIDE DEF left
  <2>1. ASSUME NEW S, Enumerates(ready, S)
        PROVE  /\ Enumerates(SubSeq(ready, 1, left), {ready[i] : i \in 1 .. left})
               /\ Len(SubSeq(ready, 1, left)) = left
    <3>1. left \in 0 .. Len(ready)
      BY <1>10
    <3> QED BY <2>1, <3>1, EnumeratesPart, ZenonT(60)
  <2> QED BY <1>2, <1>6, <1>12, <2>1
<1>14. /\ Enumerates(queue', ToSet(queue')) /\ ToSet(queue') \subseteq Tasks
       /\ Len(queue') = Len(waiting) - n
  <2>1. /\ Enumerates(queue', {waiting[i] : i \in n + 1 .. Len(waiting)})
        /\ Len(queue') = Len(waiting) - n
    BY <1>1, <1>2, <1>8, EnumeratesPart
  <2>2. ToSet(queue') = {waiting[i] : i \in n + 1 .. Len(waiting)}
    BY <2>1 DEF Enumerates
  <2>3. \A i \in n + 1 .. Len(waiting) : waiting[i] \in Tasks
    <3> TAKE i \in n + 1 .. Len(waiting)
    <3>1. i \in 1 .. Len(waiting)
      BY <1>7, <1>8
    <3> QED BY <1>3, <3>1, ElementOfSeq
  <2> QED BY <2>1, <2>2, <2>3
<1>15. workers' = alive \cup F /\ closing' = ending /\ destroyed' = destroyed
  BY <1>2, <1>5
<1>16. Shape'
  BY <1>1, <1>4, <1>11, <1>13, <1>14, <1>15 DEF Shape
<1>17. CapacityUsed'
  <2>1. /\ IsFiniteSet(alive) /\ Cardinality(alive) \in Nat
        /\ IsFiniteSet(ending) /\ Cardinality(ending) \in Nat
        /\ Cardinality(F) \in Nat
    BY <1>1, <1>4, WorkerPoolAssumption, FS_Subset, FS_CardinalityType
  <2>2. Cardinality(workers') = Cardinality(alive) + Cardinality(F)
    <3>1. alive \cap F = {}
      BY <1>4
    <3>2. Cardinality(alive \cap F) = 0
      BY <3>1, FS_EmptySet
    <3>3. Cardinality(alive \cup F) = Cardinality(alive) + Cardinality(F)
                                        - Cardinality(alive \cap F)
      BY <1>4, <2>1, FS_Union
    <3> QED BY <1>15, <2>1, <3>2, <3>3
  <2>3. PICK a \in Nat, e \in Nat, f \in Nat :
          a = Cardinality(alive) /\ e = Cardinality(ending) /\ f = Cardinality(F)
    BY <2>1
  <2>4. Cardinality(workers') + Cardinality(closing') = a + f + e
    BY <1>15, <2>2, <2>3
  <2>5. a + f + e <= MaxWorkers /\ MaxWorkers \in Nat
    BY <1>4, <2>3, Limits
  <2>6. workers' \cap closing' = {}
    BY <1>1, <1>4, <1>15
  <2>7. IsInjective(available') /\ ToSet(available') = {w \in workers' : active'[w] = NoTask}
    BY <1>13 DEF Enumerates, Idle
  <2>8. \A w \in Threads \ workers' : active'[w] = NoTask
    <3> TAKE w \in Threads \ workers'
    <3>1. w \notin alive /\ w \notin I \cup F
      BY <1>15 DEF I, Idle
    <3> QED BY <1>1, <1>10, <3>1
  <2>9. Len(queue') <= MaxQueueSize
    BY <1>1, <1>7, <1>8, <1>14, Limits
  <2>10. ASSUME queue' # <<>>
         PROVE  ~ destroyed' /\ available' = <<>>
                  /\ Cardinality(workers') + Cardinality(closing') = MaxWorkers
    <3>1. Len(queue') \in Nat /\ Len(queue') > 0
      <4>1. queue' \in Seq(ToSet(queue'))
        BY <1>14 DEF Enumerates
      <4>2. Len(queue') \in Nat /\ (Len(queue') = 0 => queue' = <<>>)
        BY <4>1, EmptySeq, LenProperties
      <4> QED BY <2>10, <4>2
    <3>2. n < Len(waiting) /\ Len(ready) < Len(waiting) /\ left = 0
      <4>1. n < Len(waiting)
        BY <1>7, <1>8, <1>14, <3>1
      <4>2. Posted(waiting, n) = Len(ready) /\ Posted(waiting, n) <= n
        BY <1>7, <1>8, <4>1, PostedType
      <4> QED BY <1>7, <1>8, <4>1, <4>2
    <3>3. ~ destroyed
      BY <1>1, <1>7, <1>8, <3>2
    <3>4. available' = <<>>
      <4>1. available' \in Seq(Idle(active', workers')) /\ Len(available') = 0
        BY <1>13, <3>2 DEF Enumerates
      <4> QED BY <4>1, EmptySeq
    <3>5. ~ (Len(waiting) <= Len(avail) + f)
      BY <1>5, <1>6, <1>7, <2>3, <3>2
    <3>6. a + f + e = MaxWorkers
      BY <1>4, <2>3, <3>3, <3>5
    <3> QED BY <1>15, <2>4, <3>3, <3>4, <3>6
  <2> QED BY <2>4, <2>5, <2>6, <2>7, <2>8, <2>9, <2>10 DEF CapacityUsed
<1>18. Settles(waiting, n, busy, done, refused)
  BY <1>2, <1>8, <1>10 DEF Settles
<1> QED BY <1>8, <1>16, <1>17, <1>18

(***************************************************************************)
(* The promises of execute()                                               *)
(***************************************************************************)

Outcomes == {"none", "waiting", "resolved", "rejected", "over limit", "after destroy"}

(* The tasks whose outcome is one of how. *)
With(how) == {t \in Tasks : outcome[t] \in how}

(* The tasks that run, and those whose thread has to end first. *)
Running(busy) == {busy[w] : w \in Threads} \ {NoTask}
Cancelled(cancel) == {t \in Tasks : cancel[t] # NoTask}
OneEach(busy) ==
  \A v, w \in Threads : busy[v] = busy[w] /\ busy[v] # NoTask => v = w

(* The outcomes that totalTasks counts. *)
Counted == {"waiting", "resolved", "rejected"}

(* A promise that is not settled is in the queue, of one thread or of one  *)
(* cancelTask(), in one of them only, and the counters count the others.   *)
Accounts ==
  /\ outcome \in [Tasks -> Outcomes]
  /\ cancelling \in [Tasks -> Threads \union {NoTask}]
  /\ OneEach(active)
  /\ ToSet(queue) \cap Running(active) = {}
  /\ Cancelled(cancelling) \cap (ToSet(queue) \cup Running(active)) = {}
  /\ With({"waiting"}) = ToSet(queue) \cup Running(active) \cup Cancelled(cancelling)
  /\ completedTasks = Cardinality(With({"resolved"}))
  /\ failedTasks = Cardinality(With({"rejected", "over limit"}))
  /\ totalTasks = Cardinality(With(Counted))

(* What an event leaves to ReplenishAndDrain of the tasks. *)
Pending(waiting, busy, done, refused) ==
  /\ outcome \in [Tasks -> Outcomes]
  /\ OneEach(busy)
  /\ ToSet(waiting) \cap Running(busy) = {}
  /\ Cancelled(cancelling') \cap (ToSet(waiting) \cup Running(busy)) = {}
  /\ done \cap (ToSet(waiting) \cup Running(busy) \cup Cancelled(cancelling')) = {}
  /\ refused \cap (ToSet(waiting) \cup Running(busy) \cup Cancelled(cancelling')) = {}
  /\ done \cap refused = {}
  /\ With({"waiting"}) \subseteq ToSet(waiting) \cup Running(busy)
                                   \cup Cancelled(cancelling') \cup done \cup refused
  /\ Running(busy) \cup Cancelled(cancelling') \cup done \cup refused
       \subseteq With({"waiting"})
  /\ ToSet(waiting) \subseteq With({"waiting", "none"})
  /\ completedTasks = Cardinality(With({"resolved"}))
  /\ failedTasks = Cardinality(With({"rejected", "over limit"}))
  /\ totalTasks' = Cardinality(With(Counted) \cup ToSet(waiting))
  /\ cancelling' \in [Tasks -> Threads \union {NoTask}]

(* Cardinalities of tasks, and of sets without a common member. *)
LEMMA WithIsFinite ==
  ASSUME NEW how
  PROVE  IsFiniteSet(With(how)) /\ Cardinality(With(how)) \in Nat
BY WorkerPoolAssumption, FS_Subset, FS_CardinalityType DEF With

LEMMA CardApart ==
  ASSUME NEW S, IsFiniteSet(S), NEW T, IsFiniteSet(T), S \cap T = {}
  PROVE  Cardinality(S \cup T) = Cardinality(S) + Cardinality(T)
<1>1. Cardinality(S \cap T) = 0
  BY FS_EmptySet
<1>2. Cardinality(S \cup T) = Cardinality(S) + Cardinality(T) - Cardinality(S \cap T)
  BY FS_Union
<1>3. Cardinality(S) \in Nat /\ Cardinality(T) \in Nat
  BY FS_CardinalityType
<1> QED BY <1>1, <1>2, <1>3

(* Every event leaves the accounts balanced. *)
LEMMA Accounted ==
  ASSUME NEW waiting, NEW busy, NEW done, NEW refused, NEW n,
         busy \in [Threads -> Tasks \union {NoTask}],
         Enumerates(waiting, ToSet(waiting)), ToSet(waiting) \subseteq Tasks,
         Pending(waiting, busy, done, refused),
         Settles(waiting, n, busy, done, refused)
  PROVE  Accounts'
<1> DEFINE Q == ToSet(waiting)
           A == Running(busy)
           C == Cancelled(cancelling')
           P == {waiting[p] : p \in {q \in 1 .. n : Cloneable(waiting[q])}}
           X == Refused(waiting, n)
           Z == ToSet(queue')
           L == Len(waiting)
<1>1. /\ outcome \in [Tasks -> Outcomes]
      /\ OneEach(busy)
      /\ Q \cap A = {} /\ C \cap (Q \cup A) = {}
      /\ done \cap (Q \cup A \cup C) = {}
      /\ refused \cap (Q \cup A \cup C) = {}
      /\ done \cap refused = {}
      /\ With({"waiting"}) \subseteq Q \cup A \cup C \cup done \cup refused
      /\ A \cup C \cup done \cup refused \subseteq With({"waiting"})
      /\ Q \subseteq With({"waiting", "none"})
      /\ completedTasks = Cardinality(With({"resolved"}))
      /\ failedTasks = Cardinality(With({"rejected", "over limit"}))
      /\ totalTasks' = Cardinality(With(Counted) \cup Q)
      /\ cancelling' \in [Tasks -> Threads \union {NoTask}]
  BY DEF Pending
<1>2. /\ n \in 0 .. Len(waiting)
      /\ queue' = SubSeq(waiting, n + 1, Len(waiting))
      /\ Handed(waiting, n, busy, active')
      /\ completedTasks' = completedTasks + Cardinality(done)
      /\ failedTasks' = failedTasks + Cardinality(refused \union X)
      /\ outcome' = [t \in Tasks |->
                      CASE t \in done -> "resolved"
                        [] t \in refused \union X -> "rejected"
                        [] t \in Q \ (refused \union X) -> "waiting"
                        [] OTHER -> outcome[t]]
  BY DEF Settles
<1>3. /\ L \in Nat /\ n \in 0 .. L
      /\ \A i \in 1 .. L : waiting[i] \in Q
      /\ \A x \in Q : \E i \in 1 .. L : waiting[i] = x
      /\ \A i, j \in 1 .. L : waiting[i] = waiting[j] => i = j
  BY <1>2, EnumeratesDef
<1>4. Z = {waiting[i] : i \in n + 1 .. L}
  BY <1>2, EnumeratesPart, EnumeratesDef
<1> HIDE DEF Q, A, C, Z, L
(* The queue falls into what stays, what is posted and what is refused. *)
<1>5. /\ Q = Z \cup P \cup X
      /\ Z \cap P = {} /\ Z \cap X = {} /\ P \cap X = {}
  <2>1. \A i \in 1 .. n : i \in 1 .. L
    BY <1>3
  <2>2. \A i \in n + 1 .. L : i \in 1 .. L /\ i \notin 1 .. n
    BY <1>3
  <2>3. \A i \in 1 .. L : i \in 1 .. n \/ i \in n + 1 .. L
    BY <1>3
  <2>4. X = {waiting[p] : p \in {q \in 1 .. n : ~ Cloneable(waiting[q])}}
    BY DEF Refused
  <2>5. Z \subseteq Q /\ P \subseteq Q /\ X \subseteq Q
    BY <1>3, <1>4, <2>1, <2>2, <2>4
  <2>6. Q \subseteq Z \cup P \cup X
    BY <1>3, <1>4, <2>3, <2>4
  <2>7. Z \cap P = {} /\ Z \cap X = {}
    BY <1>3, <1>4, <2>1, <2>2, <2>4
  <2>8. P \cap X = {}
    BY <1>3, <2>1, <2>4
  <2> QED BY <2>5, <2>6, <2>7, <2>8
<1>6. NoTask \notin Tasks
  BY WorkerPoolAssumption
<1>7. Running(active') = A \cup P
  <2>1. ASSUME NEW t \in Running(active')
        PROVE  t \in A \cup P
    <3>1. PICK w \in Threads : active'[w] = t /\ t # NoTask
      BY DEF Running
    <3>2. CASE active'[w] = busy[w]
      BY <3>1, <3>2 DEF A, Running
    <3>3. CASE active'[w] # busy[w]
      BY <1>2, <3>1, <3>3 DEF Handed
    <3> QED BY <3>2, <3>3
  <2>2. ASSUME NEW t \in A
        PROVE  t \in Running(active')
    <3>1. PICK w \in Threads : busy[w] = t /\ t # NoTask
      BY DEF A, Running
    <3>2. active'[w] = t
      BY <1>2, <3>1 DEF Handed
    <3> QED BY <3>1, <3>2 DEF Running
  <2>3. ASSUME NEW t \in P
        PROVE  t \in Running(active')
    <3>1. PICK p \in 1 .. n : Cloneable(waiting[p]) /\ waiting[p] = t
      OBVIOUS
    <3>2. PICK w \in Threads : active'[w] = t
      BY <1>2, <3>1 DEF Handed
    <3>3. t # NoTask
      BY <1>5, <1>6 DEF Q
    <3> QED BY <3>2, <3>3 DEF Running
  <2> QED BY <2>1, <2>2, <2>3
<1>8. OneEach(active')
  <2> SUFFICES ASSUME NEW v \in Threads, NEW w \in Threads,
                      active'[v] = active'[w], active'[v] # NoTask
               PROVE  v = w
    BY DEF OneEach
  <2>1. CASE active'[v] = busy[v] /\ active'[w] = busy[w]
    BY <1>1, <2>1 DEF OneEach
  <2>2. CASE active'[v] # busy[v] /\ active'[w] # busy[w]
    BY <1>2, <2>2 DEF Handed
  <2>3. ASSUME NEW x \in Threads, NEW y \in Threads, active'[x] = active'[y],
               active'[x] # NoTask, active'[x] # busy[x], active'[y] = busy[y]
        PROVE  FALSE
    <3>1. active'[x] \in P
      BY <1>2, <2>3 DEF Handed
    <3>2. active'[y] \in A
      BY <2>3 DEF A, Running
    <3> QED BY <1>1, <1>5, <2>3, <3>1, <3>2
  <2> QED BY <2>1, <2>2, <2>3
<1>9. /\ Z \cap Running(active') = {}
      /\ C \cap (Z \cup Running(active')) = {}
  BY <1>1, <1>5, <1>7
<1> HIDE DEF P, X
<1>10. ASSUME NEW t \in Tasks
       PROVE  /\ t \in done => outcome'[t] = "resolved"
              /\ t \in refused \cup X => outcome'[t] = "rejected"
              /\ t \in Z \cup P => outcome'[t] = "waiting"
              /\ t \notin done \cup refused \cup Q => outcome'[t] = outcome[t]
  <2>1. outcome'[t] = CASE t \in done -> "resolved"
                        [] t \in refused \union X -> "rejected"
                        [] t \in Q \ (refused \union X) -> "waiting"
                        [] OTHER -> outcome[t]
    BY <1>2
  <2>2. CASE t \in done
    <3>1. t \notin refused \cup X /\ t \notin Q \ (refused \cup X)
      BY <1>1, <1>5, <2>2
    <3> QED BY <1>5, <2>1, <2>2, <3>1
  <2>3. CASE t \in refused \cup X
    <3>1. t \notin done /\ t \notin Z \cup P
      BY <1>1, <1>5, <2>3
    <3>2. outcome'[t] = "rejected"
      BY <2>1, <2>3, <3>1
    <3>3. t \in done \cup refused \cup Q
      BY <1>5, <2>3
    <3> QED BY <3>1, <3>2, <3>3
  <2>4. CASE t \in Z \cup P
    <3>1. t \notin done /\ t \in Q \ (refused \cup X) /\ t \notin refused \cup X
      BY <1>1, <1>5, <2>4
    <3> QED BY <2>1, <2>4, <3>1
  <2>5. CASE t \notin done \cup refused \cup Q
    BY <1>5, <2>1, <2>5
  <2> QED BY <1>5, <2>2, <2>3, <2>4, <2>5
<1>11. outcome' \in [Tasks -> Outcomes]
  <2>1. \A t \in Tasks : outcome'[t] \in Outcomes
    BY <1>1, <1>5, <1>10 DEF Outcomes
  <2> QED BY <1>2, <2>1
<1>12. \A t \in Tasks : /\ t \in done \cup refused => outcome[t] = "waiting"
                        /\ t \in Q => outcome[t] \in {"waiting", "none"}
                        /\ outcome[t] = "waiting" => t \in Q \cup A \cup C \cup done \cup refused
                        /\ t \in A \cup C => outcome[t] = "waiting"
  BY <1>1 DEF With
<1>13. done \cup refused \cup Q \cup A \cup C \subseteq Tasks
  BY <1>1 DEF With
<1> DEFINE New(how) == {t \in Tasks : outcome'[t] \in how}
<1>14. New({"waiting"}) = Z \cup Running(active') \cup C
  <2>1. ASSUME NEW t \in Tasks, outcome'[t] = "waiting"
        PROVE  t \in Z \cup P \cup A \cup C
    BY <1>5, <1>10, <1>12, <2>1
  <2>2. ASSUME NEW t \in Z \cup P
        PROVE  t \in New({"waiting"})
    BY <1>5, <1>10, <1>13
  <2>3. ASSUME NEW t \in A \cup C
        PROVE  t \in New({"waiting"})
    BY <1>1, <1>10, <1>12, <1>13
  <2> QED BY <1>7, <2>1, <2>2, <2>3
<1>15. New({"resolved"}) = With({"resolved"}) \cup done /\ With({"resolved"}) \cap done = {}
  <2>1. \A t \in Tasks : outcome'[t] = "resolved" <=> outcome[t] = "resolved" \/ t \in done
    BY <1>5, <1>10, <1>12
  <2> QED BY <1>12, <1>13, <2>1 DEF With
<1>16. /\ New({"rejected", "over limit"}) = With({"rejected", "over limit"}) \cup (refused \cup X)
       /\ With({"rejected", "over limit"}) \cap (refused \cup X) = {}
  <2>1. \A t \in Tasks : outcome'[t] \in {"rejected", "over limit"} <=>
          outcome[t] \in {"rejected", "over limit"} \/ t \in refused \cup X
    BY <1>5, <1>10, <1>12
  <2> QED BY <1>5, <1>12, <1>13, <2>1 DEF With
<1>17. New(Counted) = With(Counted) \cup Q
  <2>1. \A t \in Tasks : outcome'[t] \in Counted <=> outcome[t] \in Counted \/ t \in Q
    BY <1>5, <1>10, <1>12 DEF Counted
  <2> QED BY <1>13, <2>1 DEF With
<1>18. /\ IsFiniteSet(done) /\ IsFiniteSet(refused \cup X)
  <2>1. done \in SUBSET Tasks /\ refused \cup X \in SUBSET Tasks
    BY <1>5, <1>13
  <2> QED BY <2>1, WorkerPoolAssumption, FS_Subset
<1>19. completedTasks' = Cardinality(New({"resolved"}))
  BY <1>1, <1>2, <1>15, <1>18, WithIsFinite, CardApart
<1>20. failedTasks' = Cardinality(New({"rejected", "over limit"}))
  BY <1>1, <1>2, <1>16, <1>18, WithIsFinite, CardApart
<1>21. totalTasks' = Cardinality(New(Counted))
  BY <1>1, <1>17
<1> QED
  BY <1>1, <1>8, <1>9, <1>11, <1>14, <1>19, <1>20, <1>21 DEF Accounts, With, C, Z

(***************************************************************************)
(* The events of the pool                                                  *)
(***************************************************************************)

(* The pool: CapacityUsed with its types, and the accounts of the tasks.   *)
PoolInv == Shape /\ CapacityUsed /\ Accounts

(* The threads and the queue, as ReplenishAndDrain would be given them.    *)
LEMMA PoolFacts ==
  ASSUME PoolInv
  PROVE  /\ Left(available, queue, active, workers, closing)
         /\ IsFiniteSet(workers) /\ Cardinality(workers) \in Nat
         /\ IsFiniteSet(closing) /\ Cardinality(closing) \in Nat
         /\ Len(queue) \in Nat
<1>1. Enumerates(queue, ToSet(queue)) /\ Len(queue) \in Nat
  BY EnumeratesDef DEF PoolInv, Shape
<1>2. /\ IsFiniteSet(workers) /\ Cardinality(workers) \in Nat
      /\ IsFiniteSet(closing) /\ Cardinality(closing) \in Nat
  BY WorkerPoolAssumption, FS_Subset, FS_CardinalityType DEF PoolInv, Shape
<1>3. destroyed => Len(queue) = 0
  <2>1. destroyed => queue = <<>>
    BY DEF PoolInv, CapacityUsed
  <2>2. Len(<<>>) = 0
    OBVIOUS
  <2> QED BY <2>1, <2>2
<1> QED BY <1>1, <1>2, <1>3 DEF PoolInv, Shape, CapacityUsed, Left

(* An event that ends in ReplenishAndDrain keeps it. *)
LEMMA EventSafe ==
  ASSUME NEW avail, NEW waiting, NEW busy, NEW alive, NEW ending, NEW done, NEW refused,
         Left(avail, waiting, busy, alive, ending),
         Pending(waiting, busy, done, refused),
         ReplenishAndDrain(avail, waiting, busy, alive, ending, done, refused),
         UNCHANGED destroyed
  PROVE  PoolInv'
<1>1. Shape' /\ CapacityUsed'
  BY Drained
<1>2. PICK n \in 0 .. Len(waiting) : Settles(waiting, n, busy, done, refused)
  BY Drained
<1>3. /\ busy \in [Threads -> Tasks \union {NoTask}]
      /\ Enumerates(waiting, ToSet(waiting)) /\ ToSet(waiting) \subseteq Tasks
  BY DEF Left
<1>4. Accounts'
  BY <1>2, <1>3, Accounted
<1> QED BY <1>1, <1>4 DEF PoolInv

(* One that changes the tasks of the accounts only by what it settles. *)
LEMMA SamePending ==
  ASSUME PoolInv, NEW done, NEW refused, NEW busy, NEW waiting,
         UNCHANGED totalTasks,
         OneEach(busy),
         ToSet(waiting) \cap Running(busy) = {},
         ToSet(waiting) \subseteq ToSet(queue), 
         cancelling' \in [Tasks -> Threads \union {NoTask}],
         Cancelled(cancelling') \cap (ToSet(waiting) \cup Running(busy)) = {},
         done \cap refused = {},
         (done \cup refused) \cap
           (ToSet(waiting) \cup Running(busy) \cup Cancelled(cancelling')) = {},
         ToSet(queue) \cup Running(active) \cup Cancelled(cancelling)
           = ToSet(waiting) \cup Running(busy) \cup Cancelled(cancelling')
               \cup done \cup refused
  PROVE  Pending(waiting, busy, done, refused)
<1> DEFINE Q == ToSet(waiting)
           A == Running(busy)
           C == Cancelled(cancelling')
<1>1. /\ outcome \in [Tasks -> Outcomes]
      /\ With({"waiting"}) = ToSet(queue) \cup Running(active) \cup Cancelled(cancelling)
      /\ completedTasks = Cardinality(With({"resolved"}))
      /\ failedTasks = Cardinality(With({"rejected", "over limit"}))
      /\ totalTasks = Cardinality(With(Counted))
  BY DEF PoolInv, Accounts
<1>2. With({"waiting"}) = Q \cup A \cup C \cup done \cup refused
  BY <1>1
<1>3. With({"waiting"}) \subseteq With({"waiting", "none"})
      /\ With({"waiting"}) \subseteq With(Counted)
  BY DEF With, Counted
<1>4. With(Counted) \cup Q = With(Counted)
  BY <1>2, <1>3
<1>5. totalTasks' = Cardinality(With(Counted) \cup Q)
  BY <1>1, <1>4
<1>6. Q \subseteq With({"waiting", "none"})
  BY <1>2, <1>3
<1>7. done \cap (Q \cup A \cup C) = {} /\ refused \cap (Q \cup A \cup C) = {}
  OBVIOUS
<1>8. A \cup C \cup done \cup refused \subseteq With({"waiting"})
  BY <1>2
<1> QED BY <1>1, <1>2, <1>5, <1>6, <1>7, <1>8 DEF Pending

(* What Freed(w) takes from the running tasks. *)
LEMMA FreedTasks ==
  ASSUME PoolInv, NEW w \in Threads
  PROVE  /\ Freed(w) \in [Threads -> Tasks \union {NoTask}]
         /\ Freed(w)[w] = NoTask
         /\ \A v \in Threads : v # w => Freed(w)[v] = active[v]
         /\ OneEach(Freed(w))
         /\ Running(Freed(w)) = Running(active) \ {active[w]}
         /\ active[w] # NoTask => active[w] \in Running(active)
<1>1. active \in [Threads -> Tasks \union {NoTask}] /\ OneEach(active)
  BY DEF PoolInv, Shape, Accounts
<1>2. /\ Freed(w) \in [Threads -> Tasks \union {NoTask}]
      /\ Freed(w)[w] = NoTask
      /\ \A v \in Threads : v # w => Freed(w)[v] = active[v]
  BY <1>1 DEF Freed
<1>3. OneEach(Freed(w))
  BY <1>1, <1>2 DEF OneEach
<1>4. Running(Freed(w)) = Running(active) \ {active[w]}
  <2>1. ASSUME NEW t \in Running(Freed(w))
        PROVE  t \in Running(active) \ {active[w]}
    <3>1. PICK v \in Threads : Freed(w)[v] = t /\ t # NoTask
      BY DEF Running
    <3>2. v # w /\ active[v] = t
      BY <1>2, <3>1
    <3>3. active[w] # t
      BY <1>1, <3>1, <3>2 DEF OneEach
    <3> QED BY <3>1, <3>2, <3>3 DEF Running
  <2>2. ASSUME NEW t \in Running(active), t # active[w]
        PROVE  t \in Running(Freed(w))
    <3>1. PICK v \in Threads : active[v] = t /\ t # NoTask
      BY DEF Running
    <3> QED BY <1>2, <2>2, <3>1 DEF Running
  <2> QED BY <2>1, <2>2
<1>5. active[w] # NoTask => active[w] \in Running(active)
  BY DEF Running
<1> QED BY <1>2, <1>3, <1>4, <1>5

(* A thread answers (the message handler of drainQueue). *)
LEMMA AnswerSafe ==
  ASSUME PoolInv, NEW w \in Threads, NEW reply \in Reply, Answer(w, reply)
  PROVE  PoolInv'
<1> DEFINE done == IF reply = "result" THEN {active[w]} ELSE {}
           refused == IF reply = "error" THEN {active[w]} ELSE {}
           avail == Append(available, w)
           I == Idle(active, workers)
<1>1. /\ active[w] # NoTask
      /\ ReplenishAndDrain(avail, queue, Freed(w), workers, closing, done, refused)
      /\ UNCHANGED <<cancelling, totalTasks, destroyed>>
  BY DEF Answer
<1>2. /\ Freed(w) \in [Threads -> Tasks \union {NoTask}]
      /\ Freed(w)[w] = NoTask
      /\ \A v \in Threads : v # w => Freed(w)[v] = active[v]
      /\ OneEach(Freed(w))
      /\ Running(Freed(w)) = Running(active) \ {active[w]}
      /\ active[w] \in Running(active)
  BY <1>1, FreedTasks
<1>3. Left(available, queue, active, workers, closing)
  BY PoolFacts
<1>4. w \in workers /\ w \notin I
  BY <1>1, <1>3 DEF Left, Idle
<1>5. Enumerates(avail, I \cup {w})
  <2>1. Enumerates(available, I)
    BY <1>3 DEF Left
  <2> HIDE DEF I
  <2> QED BY <1>4, <2>1, EnumeratesAppend
<1>6. Idle(Freed(w), workers) = I \cup {w}
  BY <1>2, <1>3, <1>4 DEF Idle, Left
<1>7. Left(avail, queue, Freed(w), workers, closing)
  <2>1. \A v \in Threads \ workers : Freed(w)[v] = NoTask
    BY <1>2, <1>3 DEF Left
  <2> HIDE DEF avail, I
  <2> QED BY <1>2, <1>3, <1>5, <1>6, <2>1 DEF Left
<1>8. (done \cup refused) = {active[w]} /\ done \cap refused = {}
  BY DEF Reply
<1>9. Pending(queue, Freed(w), done, refused)
  <2>1. /\ ToSet(queue) \cap Running(active) = {}
        /\ Cancelled(cancelling) \cap (ToSet(queue) \cup Running(active)) = {}
        /\ cancelling \in [Tasks -> Threads \union {NoTask}]
    BY DEF PoolInv, Accounts
  <2>2. cancelling' = cancelling /\ Cancelled(cancelling') = Cancelled(cancelling)
    BY <1>1
  <2> HIDE DEF done, refused
  <2>3. /\ ToSet(queue) \cap Running(Freed(w)) = {}
        /\ Cancelled(cancelling') \cap (ToSet(queue) \cup Running(Freed(w))) = {}
        /\ (done \cup refused) \cap
             (ToSet(queue) \cup Running(Freed(w)) \cup Cancelled(cancelling')) = {}
        /\ ToSet(queue) \cup Running(active) \cup Cancelled(cancelling)
             = ToSet(queue) \cup Running(Freed(w)) \cup Cancelled(cancelling')
                 \cup done \cup refused
    BY <1>2, <1>8, <2>1, <2>2
  <2> QED BY <1>1, <1>2, <1>8, <2>1, <2>2, <2>3, SamePending
<1> HIDE DEF avail, done, refused
<1> QED BY <1>1, <1>7, <1>9, EventSafe

(* A thread is removed: its timeout, its error or its exit. *)
LEMMA RemoveWorkerSafe ==
  ASSUME PoolInv, NEW w \in Threads, RemoveWorker(w)
  PROVE  PoolInv'
<1> DEFINE refused == {active[w]} \ {NoTask}
           avail == Without(available, w)
           alive == workers \ {w}
           ending == closing \union {w}
           I == Idle(active, workers)
<1>1. /\ w \in workers
      /\ ReplenishAndDrain(avail, queue, Freed(w), alive, ending, {}, refused)
      /\ UNCHANGED <<cancelling, totalTasks, destroyed>>
  BY DEF RemoveWorker
<1>2. /\ Freed(w) \in [Threads -> Tasks \union {NoTask}]
      /\ Freed(w)[w] = NoTask
      /\ \A v \in Threads : v # w => Freed(w)[v] = active[v]
      /\ OneEach(Freed(w))
      /\ Running(Freed(w)) = Running(active) \ {active[w]}
      /\ active[w] # NoTask => active[w] \in Running(active)
  BY FreedTasks
<1>3. /\ Left(available, queue, active, workers, closing)
      /\ IsFiniteSet(workers) /\ Cardinality(workers) \in Nat
      /\ IsFiniteSet(closing) /\ Cardinality(closing) \in Nat
  BY PoolFacts
<1>4. Enumerates(avail, I \ {w})
  BY <1>3, EnumeratesWithout DEF Left
<1>5. Idle(Freed(w), alive) = I \ {w}
  BY <1>2, <1>3 DEF Idle, Left
<1>6. w \notin closing
  BY <1>1, <1>3 DEF Left
<1>7. Cardinality(alive) + Cardinality(ending) <= MaxWorkers
  <2>1. Cardinality(alive) = Cardinality(workers) - 1
    BY <1>1, <1>3, FS_RemoveElement
  <2>2. Cardinality(ending) = Cardinality(closing) + 1
    BY <1>3, <1>6, FS_AddElement
  <2>3. Cardinality(workers) + Cardinality(closing) <= MaxWorkers
    BY <1>3 DEF Left
  <2> QED BY <1>3, <2>1, <2>2, <2>3, Limits
<1>8. Left(avail, queue, Freed(w), alive, ending)
  <2>1. \A v \in Threads \ alive : Freed(w)[v] = NoTask
    BY <1>2, <1>3 DEF Left
  <2>2. alive \in SUBSET Threads /\ ending \in SUBSET Threads /\ alive \cap ending = {}
    BY <1>3 DEF Left
  <2> HIDE DEF avail, I, alive, ending
  <2> QED BY <1>2, <1>3, <1>4, <1>5, <1>7, <2>1, <2>2 DEF Left
<1>9. Pending(queue, Freed(w), {}, refused)
  <2>1. /\ ToSet(queue) \cap Running(active) = {}
        /\ Cancelled(cancelling) \cap (ToSet(queue) \cup Running(active)) = {}
        /\ cancelling \in [Tasks -> Threads \union {NoTask}]
    BY DEF PoolInv, Accounts
  <2>2. cancelling' = cancelling /\ Cancelled(cancelling') = Cancelled(cancelling)
    BY <1>1
  <2>3. refused \subseteq Running(active) /\ Running(active) \subseteq Running(Freed(w)) \cup refused
        /\ refused \cap Running(Freed(w)) = {}
    BY <1>2 DEF Running
  <2> HIDE DEF refused
  <2>4. /\ ToSet(queue) \cap Running(Freed(w)) = {}
        /\ Cancelled(cancelling') \cap (ToSet(queue) \cup Running(Freed(w))) = {}
        /\ ({} \cup refused) \cap
             (ToSet(queue) \cup Running(Freed(w)) \cup Cancelled(cancelling')) = {}
        /\ {} \cap refused = {}
        /\ ToSet(queue) \cup Running(active) \cup Cancelled(cancelling)
             = ToSet(queue) \cup Running(Freed(w)) \cup Cancelled(cancelling')
                 \cup {} \cup refused
    BY <1>2, <2>1, <2>2, <2>3
  <2> QED BY <1>1, <1>2, <2>1, <2>2, <2>4, SamePending
<1> HIDE DEF avail, refused, alive, ending
<1> QED BY <1>1, <1>8, <1>9, EventSafe

(* terminate() resolves, and cancelTask() goes on. *)
LEMMA TerminatedSafe ==
  ASSUME PoolInv, NEW w \in Threads, Terminated(w)
  PROVE  PoolInv'
<1> DEFINE cancelled == {t \in Tasks : cancelling[t] = w}
           ending == closing \ {w}
<1>1. /\ w \in closing
      /\ ReplenishAndDrain(available, queue, active, workers, ending, {}, cancelled)
      /\ cancelling' = [t \in Tasks |-> IF t \in cancelled THEN NoTask ELSE cancelling[t]]
      /\ UNCHANGED <<totalTasks, destroyed>>
  BY DEF Terminated
<1>2. /\ Left(available, queue, active, workers, closing)
      /\ IsFiniteSet(closing) /\ Cardinality(closing) \in Nat
      /\ Cardinality(workers) \in Nat
  BY PoolFacts
<1>3. Cardinality(workers) + Cardinality(ending) <= MaxWorkers
  <2>1. Cardinality(ending) = Cardinality(closing) - 1
    BY <1>1, <1>2, FS_RemoveElement
  <2>2. Cardinality(workers) + Cardinality(closing) <= MaxWorkers
    BY <1>2 DEF Left
  <2> QED BY <1>2, <2>1, <2>2, Limits
<1>4. Left(available, queue, active, workers, ending)
  <2>1. ending \in SUBSET Threads /\ workers \cap ending = {}
    BY <1>2 DEF Left
  <2> HIDE DEF ending
  <2> QED BY <1>2, <1>3, <2>1 DEF Left
<1>5. Pending(queue, active, {}, cancelled)
  <2>1. /\ ToSet(queue) \cap Running(active) = {}
        /\ Cancelled(cancelling) \cap (ToSet(queue) \cup Running(active)) = {}
        /\ cancelling \in [Tasks -> Threads \union {NoTask}]
        /\ OneEach(active)
    BY DEF PoolInv, Accounts
  <2>2. w # NoTask
    BY WorkerPoolAssumption
  <2>3. cancelling' \in [Tasks -> Threads \union {NoTask}]
    BY <1>1, <2>1
  <2>4. /\ cancelled \subseteq Cancelled(cancelling)
        /\ Cancelled(cancelling') = Cancelled(cancelling) \ cancelled
    BY <1>1, <2>1, <2>2 DEF Cancelled
  <2> HIDE DEF cancelled
  <2>5. /\ Cancelled(cancelling') \cap (ToSet(queue) \cup Running(active)) = {}
        /\ ({} \cup cancelled) \cap
             (ToSet(queue) \cup Running(active) \cup Cancelled(cancelling')) = {}
        /\ {} \cap cancelled = {}
        /\ ToSet(queue) \cup Running(active) \cup Cancelled(cancelling)
             = ToSet(queue) \cup Running(active) \cup Cancelled(cancelling')
                 \cup {} \cup cancelled
    BY <2>1, <2>4
  <2> QED BY <1>1, <2>1, <2>3, <2>5, SamePending
<1> HIDE DEF cancelled, ending
<1> QED BY <1>1, <1>4, <1>5, EventSafe

(* A task that waits is aborted. *)
LEMMA AbortQueuedSafe ==
  ASSUME PoolInv, NEW t, AbortQueued(t)
  PROVE  PoolInv'
<1> DEFINE waiting == Without(queue, t)
           Q == ToSet(queue)
<1>1. /\ t \in Q
      /\ ReplenishAndDrain(available, waiting, active, workers, closing, {}, {t})
      /\ UNCHANGED <<cancelling, totalTasks, destroyed>>
  BY DEF AbortQueued
<1>2. Left(available, queue, active, workers, closing) /\ Len(queue) \in Nat
  BY PoolFacts
<1>3. Enumerates(queue, Q) /\ Q \subseteq Tasks
  BY <1>2 DEF Left
<1>4. Enumerates(waiting, Q \ {t})
  <2> HIDE DEF Q
  <2> QED BY <1>3, EnumeratesWithout
<1>5. ToSet(waiting) = Q \ {t}
  BY <1>4 DEF Enumerates
<1>6. Len(waiting) = Len(queue) - 1
  <2> HIDE DEF waiting, Q
  <2>1. IsFiniteSet(Q) /\ Cardinality(Q) = Len(queue) /\ Cardinality(Q \ {t}) = Len(waiting)
    BY <1>3, <1>4, EnumeratesCount
  <2>2. Cardinality(Q \ {t}) = Cardinality(Q) - 1
    BY <1>1, <2>1, FS_RemoveElement
  <2> QED BY <2>1, <2>2
<1>7. Left(available, waiting, active, workers, closing)
  <2>1. Len(queue) <= MaxQueueSize /\ MaxQueueSize \in Nat
    BY <1>2, Limits DEF Left
  <2>2. Len(waiting) <= MaxQueueSize
    BY <1>2, <1>6, <2>1
  <2>3. Len(queue) # 0
    <3>1. \E i \in 1 .. Len(queue) : queue[i] = t
      BY <1>1, <1>3, EnumeratesDef
    <3> QED BY <3>1
  <2>4. ~ destroyed
    BY <1>2, <2>3 DEF Left
  <2>5. Enumerates(waiting, ToSet(waiting)) /\ ToSet(waiting) \subseteq Tasks
    BY <1>3, <1>4, <1>5
  <2> HIDE DEF waiting
  <2> QED BY <1>2, <2>2, <2>4, <2>5 DEF Left
<1>8. Pending(waiting, active, {}, {t})
  <2>1. /\ Q \cap Running(active) = {}
        /\ Cancelled(cancelling) \cap (Q \cup Running(active)) = {}
        /\ cancelling \in [Tasks -> Threads \union {NoTask}]
        /\ OneEach(active)
    BY DEF PoolInv, Accounts
  <2>2. cancelling' = cancelling /\ Cancelled(cancelling') = Cancelled(cancelling)
    BY <1>1
  <2>3. /\ ToSet(waiting) \subseteq Q
        /\ ToSet(waiting) \cap Running(active) = {}
        /\ Cancelled(cancelling') \cap (ToSet(waiting) \cup Running(active)) = {}
        /\ ({} \cup {t}) \cap
             (ToSet(waiting) \cup Running(active) \cup Cancelled(cancelling')) = {}
        /\ {} \cap {t} = {}
        /\ Q \cup Running(active) \cup Cancelled(cancelling)
             = ToSet(waiting) \cup Running(active) \cup Cancelled(cancelling')
                 \cup {} \cup {t}
    <3> HIDE DEF waiting, Q
    <3> QED BY <1>1, <1>5, <2>1, <2>2
  <2> HIDE DEF waiting
  <2> QED BY <1>1, <2>1, <2>2, <2>3, SamePending
<1> HIDE DEF waiting
<1> QED BY <1>1, <1>7, <1>8, EventSafe

(* The thread of an aborted task is no longer alive and not yet gone. *)
LEMMA AbortRunningSafe ==
  ASSUME PoolInv, NEW t \in Tasks, AbortRunning(t)
  PROVE  PoolInv'
<1>1. PICK w \in Threads :
        /\ active[w] = t
        /\ active' = Freed(w)
        /\ workers' = workers \ {w} /\ closing' = closing \union {w}
        /\ available' = Without(available, w)
        /\ cancelling' = [cancelling EXCEPT ![t] = w]
        /\ UNCHANGED <<queue, counters, destroyed, outcome>>
  BY DEF AbortRunning
<1>2. active[w] # NoTask /\ w # NoTask
  BY <1>1, WorkerPoolAssumption
<1>3. /\ Freed(w) \in [Threads -> Tasks \union {NoTask}]
      /\ Freed(w)[w] = NoTask
      /\ \A v \in Threads : v # w => Freed(w)[v] = active[v]
      /\ OneEach(Freed(w))
      /\ Running(Freed(w)) = Running(active) \ {t}
      /\ t \in Running(active)
  BY <1>1, <1>2, FreedTasks
<1>4. /\ Left(available, queue, active, workers, closing)
      /\ IsFiniteSet(workers) /\ Cardinality(workers) \in Nat
      /\ IsFiniteSet(closing) /\ Cardinality(closing) \in Nat
  BY PoolFacts
<1>5. w \in workers /\ w \notin closing /\ w \notin Idle(active, workers)
  BY <1>2, <1>4 DEF Left, Idle
<1>6. Enumerates(available', Idle(active', workers'))
  <2>1. Enumerates(available', Idle(active, workers) \ {w})
    BY <1>1, <1>4, EnumeratesWithout DEF Left
  <2>2. Idle(active', workers') = Idle(active, workers) \ {w}
    BY <1>1, <1>3, <1>4 DEF Idle, Left
  <2> QED BY <2>1, <2>2
<1>7. Cardinality(workers') + Cardinality(closing')
        = Cardinality(workers) + Cardinality(closing)
  <2>1. Cardinality(workers') = Cardinality(workers) - 1
    BY <1>1, <1>4, <1>5, FS_RemoveElement
  <2>2. Cardinality(closing') = Cardinality(closing) + 1
    BY <1>1, <1>4, <1>5, FS_AddElement
  <2> QED BY <1>4, <2>1, <2>2
<1>8. Shape'
  <2>1. Enumerates(queue', ToSet(queue')) /\ ToSet(queue') \subseteq Tasks
    BY <1>1, <1>4 DEF Left
  <2>2. workers' \in SUBSET Threads /\ closing' \in SUBSET Threads
    BY <1>1, <1>4 DEF Left
  <2>3. active' \in [Threads -> Tasks \union {NoTask}] /\ destroyed' \in BOOLEAN
    BY <1>1, <1>3, <1>4 DEF Left
  <2> QED BY <1>6, <2>1, <2>2, <2>3 DEF Shape
<1>9. CapacityUsed'
  <2>1. workers' \cap closing' = {}
    BY <1>1, <1>4 DEF Left
  <2>2. Cardinality(workers') + Cardinality(closing') <= MaxWorkers
    BY <1>4, <1>7 DEF Left
  <2>3. IsInjective(available') /\ ToSet(available') = {v \in workers' : active'[v] = NoTask}
    BY <1>6 DEF Enumerates, Idle
  <2>4. \A v \in Threads \ workers' : active'[v] = NoTask
    BY <1>1, <1>3, <1>4 DEF Left
  <2>5. Len(queue') <= MaxQueueSize
    BY <1>1, <1>4 DEF Left
  <2>6. ASSUME queue' # <<>>
        PROVE  ~ destroyed' /\ available' = <<>>
                 /\ Cardinality(workers') + Cardinality(closing') = MaxWorkers
    <3>1. ~ destroyed /\ available = <<>>
            /\ Cardinality(workers) + Cardinality(closing) = MaxWorkers
      BY <1>1, <2>6 DEF PoolInv, CapacityUsed
    <3>2. w \notin ToSet(available)
      BY <1>4, <1>5 DEF Left, Enumerates
    <3>3. available' = <<>>
      BY <1>1, <3>1, <3>2 DEF Without
    <3> QED BY <1>1, <1>7, <3>1, <3>3
  <2> QED BY <2>1, <2>2, <2>3, <2>4, <2>5, <2>6 DEF CapacityUsed
<1>10. Accounts'
  <2>1. /\ outcome \in [Tasks -> Outcomes]
        /\ cancelling \in [Tasks -> Threads \union {NoTask}]
        /\ ToSet(queue) \cap Running(active) = {}
        /\ Cancelled(cancelling) \cap (ToSet(queue) \cup Running(active)) = {}
        /\ With({"waiting"}) = ToSet(queue) \cup Running(active) \cup Cancelled(cancelling)
        /\ completedTasks = Cardinality(With({"resolved"}))
        /\ failedTasks = Cardinality(With({"rejected", "over limit"}))
        /\ totalTasks = Cardinality(With(Counted))
    BY DEF PoolInv, Accounts
  <2>2. cancelling' \in [Tasks -> Threads \union {NoTask}]
    BY <1>1, <2>1
  <2>3. Cancelled(cancelling') = Cancelled(cancelling) \cup {t}
    BY <1>1, <1>2, <2>1 DEF Cancelled
  <2>4. /\ OneEach(active') /\ Running(active') = Running(active) \ {t}
        /\ queue' = queue /\ ToSet(queue') = ToSet(queue)
    BY <1>1, <1>3
  <2>5. /\ ToSet(queue') \cap Running(active') = {}
        /\ Cancelled(cancelling') \cap (ToSet(queue') \cup Running(active')) = {}
        /\ With({"waiting"}) = ToSet(queue') \cup Running(active') \cup Cancelled(cancelling')
    BY <1>3, <2>1, <2>3, <2>4
  <2>6. outcome' = outcome /\ UNCHANGED <<completedTasks, failedTasks, totalTasks>>
    BY <1>1 DEF counters
  <2> QED BY <2>1, <2>2, <2>4, <2>5, <2>6 DEF Accounts, With
<1> QED BY <1>8, <1>9, <1>10 DEF PoolInv

-----------------------------------------------------------------------------
(* destroy() leaves no thread and no task to the pool. *)
LEMMA StoppedSafe ==
  ASSUME PoolInv,
         destroyed' = TRUE, available' = <<>>, queue' = <<>>,
         active' = [w \in Threads |-> NoTask],
         workers' = {}, closing' = closing \union workers
  PROVE  /\ Shape' /\ CapacityUsed'
         /\ ToSet(queue') = {} /\ Running(active') = {} /\ OneEach(active')
<1>1. /\ Left(available, queue, active, workers, closing)
      /\ IsFiniteSet(workers) /\ Cardinality(workers) \in Nat
      /\ IsFiniteSet(closing) /\ Cardinality(closing) \in Nat
  BY PoolFacts
<1>2. /\ Enumerates(available', {}) /\ Enumerates(queue', {})
      /\ ToSet(queue') = {} /\ ToSet(available') = {} /\ IsInjective(available')
  BY EnumeratesNone DEF Enumerates
<1>3. Idle(active', workers') = {}
  BY DEF Idle
<1>4. Shape'
  BY <1>1, <1>2, <1>3 DEF Shape, Left
<1>5. Cardinality(workers') + Cardinality(closing') <= MaxWorkers
  <2>1. workers \cap closing = {} /\ Cardinality(workers) + Cardinality(closing) <= MaxWorkers
    BY <1>1 DEF Left
  <2>2. Cardinality(closing \cup workers) = Cardinality(closing) + Cardinality(workers)
    BY <1>1, <2>1, CardApart
  <2>3. Cardinality(workers') = 0
    BY FS_EmptySet
  <2> QED BY <1>1, <2>1, <2>2, <2>3
<1>6. Len(queue') <= MaxQueueSize
  <2>1. Len(<<>>) = 0
    OBVIOUS
  <2> QED BY <2>1, Limits
<1>7. CapacityUsed'
  BY <1>2, <1>3, <1>5, <1>6 DEF CapacityUsed, Idle
<1>8. Running(active') = {} /\ OneEach(active')
  BY DEF Running, OneEach
<1> QED BY <1>2, <1>4, <1>7, <1>8

(* The accounts when the tasks of G, that wait, are rejected. *)
LEMMA RejectedSafe ==
  ASSUME PoolInv, NEW G \in SUBSET Tasks, G \subseteq With({"waiting"}),
         outcome' = [t \in Tasks |-> IF t \in G THEN "rejected" ELSE outcome[t]],
         failedTasks' = failedTasks + Cardinality(G),
         UNCHANGED <<totalTasks, completedTasks>>,
         cancelling' \in [Tasks -> Threads \union {NoTask}],
         ToSet(queue') = {}, Running(active') = {}, OneEach(active'),
         With({"waiting"}) \ G = Cancelled(cancelling')
  PROVE  Accounts'
<1>1. /\ outcome \in [Tasks -> Outcomes]
      /\ completedTasks = Cardinality(With({"resolved"}))
      /\ failedTasks = Cardinality(With({"rejected", "over limit"}))
      /\ totalTasks = Cardinality(With(Counted))
  BY DEF PoolInv, Accounts
<1> DEFINE New(how) == {t \in Tasks : outcome'[t] \in how}
<1>2. \A t \in Tasks : /\ t \in G => outcome[t] = "waiting" /\ outcome'[t] = "rejected"
                       /\ t \notin G => outcome'[t] = outcome[t]
  BY DEF With
<1>3. New({"waiting"}) = With({"waiting"}) \ G
  BY <1>2 DEF With
<1>4. New({"resolved"}) = With({"resolved"})
  BY <1>2 DEF With
<1>5. /\ New({"rejected", "over limit"}) = With({"rejected", "over limit"}) \cup G
      /\ With({"rejected", "over limit"}) \cap G = {}
  BY <1>2 DEF With
<1>6. New(Counted) = With(Counted)
  BY <1>2 DEF With, Counted
<1>7. outcome' \in [Tasks -> Outcomes]
  <2>1. \A t \in Tasks : outcome'[t] \in Outcomes
    BY <1>1, <1>2 DEF Outcomes
  <2> QED BY <2>1
<1>8. IsFiniteSet(G)
  BY WorkerPoolAssumption, FS_Subset
<1>9. failedTasks' = Cardinality(New({"rejected", "over limit"}))
  BY <1>1, <1>5, <1>8, WithIsFinite, CardApart
<1>10. /\ New({"waiting"}) = ToSet(queue') \cup Running(active') \cup Cancelled(cancelling')
       /\ ToSet(queue') \cap Running(active') = {}
       /\ Cancelled(cancelling') \cap (ToSet(queue') \cup Running(active')) = {}
  BY <1>3
<1>11. completedTasks' = Cardinality(New({"resolved"})) /\ totalTasks' = Cardinality(New(Counted))
  BY <1>1, <1>4, <1>6
<1> QED BY <1>7, <1>9, <1>10, <1>11 DEF Accounts, With

(* destroy() of the pool, and of the transport that has it. *)
LEMMA DestroySafe ==
  ASSUME PoolInv, Destroy
  PROVE  PoolInv'
<1> DEFINE dropped == (ToSet(queue) \union {active[w] : w \in workers}) \ {NoTask}
<1>1. /\ destroyed' = TRUE /\ available' = <<>> /\ queue' = <<>>
      /\ active' = [w \in Threads |-> NoTask]
      /\ workers' = {} /\ closing' = closing \union workers
      /\ failedTasks' = failedTasks + Cardinality(dropped)
      /\ outcome' = [t \in Tasks |-> IF t \in dropped THEN "rejected" ELSE outcome[t]]
      /\ UNCHANGED <<cancelling, totalTasks, completedTasks>>
  BY DEF Destroy
<1>2. /\ Shape' /\ CapacityUsed'
      /\ ToSet(queue') = {} /\ Running(active') = {} /\ OneEach(active')
  BY <1>1, StoppedSafe
<1>3. /\ workers \subseteq Threads /\ ToSet(queue) \subseteq Tasks
      /\ \A w \in Threads \ workers : active[w] = NoTask
      /\ active \in [Threads -> Tasks \union {NoTask}]
  BY DEF PoolInv, Shape, CapacityUsed
<1>4. dropped = ToSet(queue) \cup Running(active)
  BY <1>3, WorkerPoolAssumption DEF Running
<1>5. /\ With({"waiting"}) = ToSet(queue) \cup Running(active) \cup Cancelled(cancelling)
      /\ Cancelled(cancelling) \cap (ToSet(queue) \cup Running(active)) = {}
      /\ cancelling \in [Tasks -> Threads \union {NoTask}]
  BY DEF PoolInv, Accounts
<1>6. dropped \subseteq With({"waiting"}) /\ dropped \in SUBSET Tasks
      /\ With({"waiting"}) \ dropped = Cancelled(cancelling')
  <2>1. With({"waiting"}) \subseteq Tasks
    BY DEF With
  <2>2. Cancelled(cancelling') = Cancelled(cancelling)
    BY <1>1
  <2> QED BY <1>4, <1>5, <2>1, <2>2
<1>7. Accounts'
  <2> HIDE DEF dropped
  <2> QED BY <1>1, <1>2, <1>5, <1>6, RejectedSafe
<1> QED BY <1>2, <1>7 DEF PoolInv

LEMMA PoolShutdownSafe ==
  ASSUME PoolInv, PoolShutdown
  PROVE  PoolInv'
<1> DEFINE Q == ToSet(queue)
<1>1. /\ destroyed' = TRUE /\ available' = <<>> /\ queue' = <<>>
      /\ active' = [w \in Threads |-> NoTask]
      /\ workers' = {} /\ closing' = closing \union workers
      /\ cancelling' = [t \in Tasks |->
                          IF \E w \in workers : active[w] = t
                            THEN CHOOSE w \in workers : active[w] = t
                            ELSE cancelling[t]]
      /\ failedTasks' = failedTasks + Len(queue)
      /\ outcome' = [t \in Tasks |-> IF t \in Q THEN "rejected" ELSE outcome[t]]
      /\ UNCHANGED <<totalTasks, completedTasks>>
  BY DEF PoolShutdown
<1>2. /\ Shape' /\ CapacityUsed'
      /\ ToSet(queue') = {} /\ Running(active') = {} /\ OneEach(active')
  BY <1>1, StoppedSafe
<1>3. /\ workers \subseteq Threads /\ Q \subseteq Tasks /\ Enumerates(queue, Q)
      /\ \A w \in Threads \ workers : active[w] = NoTask
      /\ active \in [Threads -> Tasks \union {NoTask}]
  BY DEF PoolInv, Shape, CapacityUsed
<1>4. /\ With({"waiting"}) = Q \cup Running(active) \cup Cancelled(cancelling)
      /\ Q \cap Running(active) = {}
      /\ Cancelled(cancelling) \cap (Q \cup Running(active)) = {}
      /\ cancelling \in [Tasks -> Threads \union {NoTask}]
  BY DEF PoolInv, Accounts
<1>5. NoTask \notin Tasks /\ NoTask \notin Threads
  BY WorkerPoolAssumption
<1>6. \A t \in Tasks : (\E w \in workers : active[w] = t) <=> t \in Running(active)
  BY <1>3, <1>5 DEF Running
<1>7. ASSUME NEW t \in Tasks
      PROVE  /\ t \in Running(active) => cancelling'[t] \in Threads
             /\ t \notin Running(active) => cancelling'[t] = cancelling[t]
  <2>1. CASE t \in Running(active)
    <3>1. \E w \in workers : active[w] = t
      BY <1>6, <2>1
    <3>2. (CHOOSE w \in workers : active[w] = t) \in workers
      BY <3>1
    <3> QED BY <1>1, <1>3, <2>1, <3>1, <3>2
  <2>2. CASE t \notin Running(active)
    BY <1>1, <1>6, <2>2
  <2> QED BY <2>1, <2>2
<1>8. cancelling' \in [Tasks -> Threads \union {NoTask}]
  <2>1. \A t \in Tasks : cancelling'[t] \in Threads \union {NoTask}
    BY <1>4, <1>7
  <2> QED BY <1>1, <2>1
<1>9. Cancelled(cancelling') = Cancelled(cancelling) \cup Running(active)
  <2>1. Running(active) \subseteq Tasks
    BY <1>3 DEF Running
  <2> QED BY <1>5, <1>7, <2>1 DEF Cancelled
<1>10. Q \subseteq With({"waiting"}) /\ With({"waiting"}) \ Q = Cancelled(cancelling')
  BY <1>4, <1>9
<1>11. Cardinality(Q) = Len(queue)
  <2> HIDE DEF Q
  <2> QED BY <1>3, EnumeratesCount
<1>12. Accounts'
  <2> HIDE DEF Q
  <2>1. failedTasks' = failedTasks + Cardinality(Q) /\ Q \in SUBSET Tasks
    BY <1>1, <1>3, <1>11
  <2> QED BY <1>1, <1>2, <1>8, <1>10, <2>1, RejectedSafe
<1> QED BY <1>2, <1>12 DEF PoolInv

(* What the pool has when a call of execute() looks. *)
LEMMA ExecuteReady ==
  ASSUME PoolInv, NEW first,
         first = IF workers = {} /\ closing = {} THEN Fresh(1, {}) ELSE <<>>
  PROVE  \E F \in SUBSET Threads :
           /\ ToSet(first) = F
           /\ workers \cup F \in SUBSET Threads
           /\ (workers \cup F) \cap closing = {}
           /\ Cardinality(workers \cup F) + Cardinality(closing) <= MaxWorkers
           /\ \A w \in Threads \ (workers \cup F) : active[w] = NoTask
           /\ Enumerates(available \o first, Idle(active, workers \cup F))
           /\ Len(queue) > 0 => available \o first = <<>>
<1>1. /\ Left(available, queue, active, workers, closing)
      /\ Len(queue) \in Nat
  BY PoolFacts
<1>2. CASE workers = {} /\ closing = {}
  <2>1. first = Fresh(1, {})
    BY <1>2
  <2>2. Cardinality({}) = 0 /\ {} \in SUBSET Threads
    BY FS_EmptySet
  <2>3. 1 + Cardinality({}) <= Cardinality(Threads)
    <3>1. Cardinality(Threads) \in Nat /\ Cardinality(Threads) > MaxWorkers
      BY WorkerPoolAssumption, FS_CardinalityType
    <3> QED BY <2>2, <3>1, Limits
  <2>4. \E F \in SUBSET (Threads \ {}) : Enumerates(Fresh(1, {}), F)
    BY <2>2, <2>3, FreshNew
  <2>5. Len(Fresh(1, {})) = 1
    BY <2>2, <2>3, FreshNew
  <2>6. PICK F \in SUBSET Threads : Enumerates(first, F)
    BY <2>1, <2>4
  <2>7. Cardinality(F) = 1 /\ ToSet(first) = F
    BY <2>1, <2>5, <2>6, EnumeratesCount, EnumeratesDef
  <2>8. Idle(active, workers) = {}
    BY <1>2 DEF Idle
  <2>9. Idle(active, workers \cup F) = F /\ workers \cup F = F
    BY <1>1, <1>2 DEF Idle, Left
  <2>10. Enumerates(available \o first, F)
    <3>1. Enumerates(available, {})
      BY <1>1, <2>8 DEF Left
    <3>2. {} \cap F = {} /\ {} \cup F = F
      OBVIOUS
    <3>3. Enumerates(available \o first, {} \cup F)
      BY <2>6, <3>1, <3>2, EnumeratesJoin
    <3> QED BY <3>2, <3>3
  <2>11. Cardinality(workers \cup F) + Cardinality(closing) <= MaxWorkers
    BY <1>2, <2>2, <2>7, <2>9, Limits
  <2>12. ~ (Len(queue) > 0)
    <3>1. queue # <<>> => Cardinality(workers) + Cardinality(closing) = MaxWorkers
      BY DEF PoolInv, CapacityUsed
    <3>2. queue = <<>>
      BY <1>2, <2>2, <3>1, Limits
    <3>3. Len(<<>>) = 0
      OBVIOUS
    <3> QED BY <3>2, <3>3
  <2>13. \A w \in Threads \ (workers \cup F) : active[w] = NoTask
    BY <1>1 DEF Left
  <2> QED BY <1>2, <2>7, <2>9, <2>10, <2>11, <2>12, <2>13
<1>3. CASE ~ (workers = {} /\ closing = {})
  <2>1. first = <<>>
    BY <1>3
  <2>2. ToSet(first) = {} /\ workers \cup {} = workers
    BY <2>1 DEF ToSet
  <2>3. available \o first = available
    <3>1. available \in Seq(Idle(active, workers))
      BY <1>1 DEF Left, Enumerates
    <3> QED BY <2>1, <3>1, ConcatEmptySeq
  <2>4. Len(queue) > 0 => available = <<>>
    <3>1. queue # <<>> => available = <<>>
      BY DEF PoolInv, CapacityUsed
    <3>2. Len(<<>>) = 0
      OBVIOUS
    <3> QED BY <3>1, <3>2
  <2>5. WITNESS {} \in SUBSET Threads
  <2> QED BY <1>1, <2>2, <2>3, <2>4 DEF Left
<1> QED BY <1>2, <1>3

(* A task is taken: onto the queue, then handed out with the others. *)
LEMMA ExecuteSafe ==
  ASSUME PoolInv, NEW t \in Tasks, Execute(t)
  PROVE  PoolInv'
<1> DEFINE waiting == Append(queue, t)
           Q == ToSet(queue)
<1>1. PICK first : first = IF workers = {} /\ closing = {} THEN Fresh(1, {}) ELSE <<>>
  OBVIOUS
<1> DEFINE avail == available \o first
           alive == workers \union ToSet(first)
<1>2. /\ outcome[t] = "none" /\ ~destroyed
      /\ avail # <<>> \/ Len(queue) < MaxQueueSize
      /\ totalTasks' = totalTasks + 1
      /\ ReplenishAndDrain(avail, waiting, active, alive, closing, {}, {})
      /\ UNCHANGED <<cancelling, destroyed>>
  BY <1>1 DEF Execute
<1>3. /\ Left(available, queue, active, workers, closing)
      /\ Len(queue) \in Nat
  BY PoolFacts
<1>4. /\ alive \in SUBSET Threads
      /\ alive \cap closing = {}
      /\ Cardinality(alive) + Cardinality(closing) <= MaxWorkers
      /\ \A w \in Threads \ alive : active[w] = NoTask
      /\ Enumerates(avail, Idle(active, alive))
      /\ Len(queue) > 0 => avail = <<>>
  BY <1>1, ExecuteReady
<1>5. Enumerates(queue, Q) /\ Q \subseteq Tasks
  BY <1>3 DEF Left
<1>6. /\ outcome \in [Tasks -> Outcomes]
      /\ OneEach(active)
      /\ Q \cap Running(active) = {}
      /\ Cancelled(cancelling) \cap (Q \cup Running(active)) = {}
      /\ With({"waiting"}) = Q \cup Running(active) \cup Cancelled(cancelling)
      /\ completedTasks = Cardinality(With({"resolved"}))
      /\ failedTasks = Cardinality(With({"rejected", "over limit"}))
      /\ totalTasks = Cardinality(With(Counted))
      /\ cancelling \in [Tasks -> Threads \union {NoTask}]
  BY DEF PoolInv, Accounts
<1>7. t \notin With({"waiting"}) /\ t \notin With(Counted)
  BY <1>2 DEF With, Counted
<1>8. t \notin Q /\ t \notin Running(active) /\ t \notin Cancelled(cancelling)
  BY <1>6, <1>7
<1>9. Enumerates(waiting, Q \cup {t}) /\ Len(waiting) = Len(queue) + 1
  <2> HIDE DEF Q
  <2> QED BY <1>5, <1>8, EnumeratesAppend
<1>10. ToSet(waiting) = Q \cup {t}
  BY <1>9 DEF Enumerates
<1>11. Len(waiting) <= MaxQueueSize
  <2>1. CASE Len(queue) > 0
    BY <1>2, <1>3, <1>4, <1>9, <2>1, Limits
  <2>2. CASE ~ (Len(queue) > 0)
    BY <1>3, <1>9, <2>2, Limits
  <2> QED BY <2>1, <2>2
<1>12. Left(avail, waiting, active, alive, closing)
  <2>1. Enumerates(waiting, ToSet(waiting)) /\ ToSet(waiting) \subseteq Tasks
    BY <1>5, <1>9, <1>10
  <2> HIDE DEF avail, waiting, alive
  <2> QED BY <1>2, <1>3, <1>4, <1>11, <2>1 DEF Left
<1>13. Pending(waiting, active, {}, {})
  <2>1. cancelling' = cancelling /\ Cancelled(cancelling') = Cancelled(cancelling)
    BY <1>2
  <2>2. ToSet(waiting) \subseteq With({"waiting", "none"})
    <3>1. Q \subseteq With({"waiting"})
      BY <1>6
    <3> QED BY <1>2, <1>10, <3>1 DEF With
  <2>3. With(Counted) \cup ToSet(waiting) = With(Counted) \cup {t}
    <3>1. Q \subseteq With(Counted)
      BY <1>6 DEF With, Counted
    <3> QED BY <1>10, <3>1
  <2>4. totalTasks' = Cardinality(With(Counted) \cup ToSet(waiting))
    <3>1. Cardinality(With(Counted) \cup {t}) = Cardinality(With(Counted)) + 1
      BY <1>7, WithIsFinite, FS_AddElement
    <3> QED BY <1>2, <1>6, <2>3, <3>1
  <2>5. /\ ToSet(waiting) \cap Running(active) = {}
        /\ Cancelled(cancelling') \cap (ToSet(waiting) \cup Running(active)) = {}
        /\ With({"waiting"}) \subseteq ToSet(waiting) \cup Running(active)
                                         \cup Cancelled(cancelling') \cup {} \cup {}
        /\ Running(active) \cup Cancelled(cancelling') \cup {} \cup {}
             \subseteq With({"waiting"})
    BY <1>6, <1>8, <1>10, <2>1
  <2> HIDE DEF waiting
  <2> QED BY <1>6, <2>1, <2>2, <2>4, <2>5 DEF Pending
<1> HIDE DEF waiting, avail, alive
<1> QED BY <1>2, <1>12, <1>13, EventSafe

(* The calls of execute() that never become a task. *)
LEMMA NoTaskSafe ==
  ASSUME PoolInv, NEW t \in Tasks, ExecuteOverLimit(t) \/ ExecuteDestroyed(t)
  PROVE  PoolInv'
<1>1. PICK new \in {"over limit", "after destroy"} :
        /\ outcome[t] = "none"
        /\ outcome' = [outcome EXCEPT ![t] = new]
        /\ new = "over limit" => failedTasks' = failedTasks + 1
        /\ new = "after destroy" => failedTasks' = failedTasks
        /\ UNCHANGED <<available, queue, active, workers, closing, cancelling,
                       totalTasks, completedTasks, destroyed>>
  <2>2. CASE ExecuteOverLimit(t)
    BY <2>2 DEF ExecuteOverLimit
  <2>3. CASE ExecuteDestroyed(t)
    BY <2>3 DEF ExecuteDestroyed, counters
  <2> QED BY <2>2, <2>3
<1>2. /\ outcome \in [Tasks -> Outcomes]
      /\ completedTasks = Cardinality(With({"resolved"}))
      /\ failedTasks = Cardinality(With({"rejected", "over limit"}))
      /\ totalTasks = Cardinality(With(Counted))
      /\ With({"waiting"}) = ToSet(queue) \cup Running(active) \cup Cancelled(cancelling)
  BY DEF PoolInv, Accounts
<1> DEFINE New(how) == {u \in Tasks : outcome'[u] \in how}
<1>3. outcome'[t] = new /\ \A u \in Tasks : u # t => outcome'[u] = outcome[u]
  BY <1>1, <1>2
<1>4. outcome' \in [Tasks -> Outcomes]
  BY <1>1, <1>2 DEF Outcomes
<1>5. /\ New({"waiting"}) = With({"waiting"}) /\ New({"resolved"}) = With({"resolved"})
      /\ New(Counted) = With(Counted)
  BY <1>1, <1>3 DEF With, Counted
<1>6. failedTasks' = Cardinality(New({"rejected", "over limit"}))
  <2>1. t \notin With({"rejected", "over limit"})
    BY <1>1 DEF With
  <2>2. CASE new = "over limit"
    <3>1. New({"rejected", "over limit"}) = With({"rejected", "over limit"}) \cup {t}
      BY <1>1, <1>3, <2>2 DEF With
    <3>2. Cardinality(With({"rejected", "over limit"}) \cup {t})
            = Cardinality(With({"rejected", "over limit"})) + 1
      BY <2>1, WithIsFinite, FS_AddElement
    <3> QED BY <1>1, <1>2, <2>2, <3>1, <3>2
  <2>3. CASE new = "after destroy"
    <3>1. New({"rejected", "over limit"}) = With({"rejected", "over limit"})
      BY <1>1, <1>3, <2>3 DEF With
    <3>2. failedTasks' = failedTasks
      BY <1>1, <2>3
    <3> HIDE DEF New
    <3> QED BY <1>2, <3>1, <3>2
  <2> QED BY <1>1, <2>2, <2>3
<1>7. Accounts'
  BY <1>1, <1>2, <1>4, <1>5, <1>6 DEF Accounts, With, PoolInv
<1>8. Shape' /\ CapacityUsed'
  BY <1>1 DEF PoolInv, Shape, CapacityUsed, Idle
<1> QED BY <1>7, <1>8 DEF PoolInv

(* The constructor fills the pool. *)
LEMMA PoolStarts == Init => PoolInv
<1> SUFFICES ASSUME Init
             PROVE  PoolInv
  OBVIOUS
<1>1. /\ available = Fresh(MaxWorkers, {}) /\ workers = ToSet(available)
      /\ queue = <<>> /\ closing = {}
      /\ active = [w \in Threads |-> NoTask]
      /\ cancelling = [t \in Tasks |-> NoTask]
      /\ totalTasks = 0 /\ completedTasks = 0 /\ failedTasks = 0
      /\ destroyed = FALSE
      /\ outcome = [t \in Tasks |-> "none"]
  BY DEF Init
<1>2. Cardinality({}) = 0 /\ {} \in SUBSET Threads
  BY FS_EmptySet
<1>3. MaxWorkers \in Nat /\ MaxWorkers + Cardinality({}) <= Cardinality(Threads)
  <2>1. Cardinality(Threads) \in Nat /\ Cardinality(Threads) > MaxWorkers
    BY WorkerPoolAssumption, FS_CardinalityType
  <2> QED BY <1>2, <2>1, Limits
<1>4. PICK F \in SUBSET (Threads \ {}) : Enumerates(available, F)
  BY <1>1, <1>2, <1>3, FreshNew
<1>5. Len(available) = MaxWorkers
  BY <1>1, <1>2, <1>3, FreshNew
<1>6. workers = F /\ Cardinality(workers) = MaxWorkers /\ F \in SUBSET Threads
  BY <1>1, <1>4, <1>5, EnumeratesCount, EnumeratesDef
<1>7. Idle(active, workers) = F
  BY <1>1, <1>6 DEF Idle
<1>8. Enumerates(queue, {}) /\ ToSet(queue) = {}
  BY <1>1, EnumeratesNone DEF Enumerates
<1>9. Shape
  BY <1>1, <1>4, <1>6, <1>7, <1>8 DEF Shape
<1>10. CapacityUsed
  <2>1. Cardinality(workers) + Cardinality(closing) <= MaxWorkers
    BY <1>1, <1>2, <1>3, <1>6
  <2>2. IsInjective(available) /\ ToSet(available) = {w \in workers : active[w] = NoTask}
    BY <1>4, <1>7 DEF Enumerates, Idle
  <2>3. Len(queue) <= MaxQueueSize
    <3>1. Len(<<>>) = 0
      OBVIOUS
    <3> QED BY <1>1, <3>1, Limits
  <2> QED BY <1>1, <2>1, <2>2, <2>3 DEF CapacityUsed
<1>11. Accounts
  <2>1. OneEach(active) /\ Running(active) = {} /\ Cancelled(cancelling) = {}
    BY <1>1 DEF OneEach, Running, Cancelled
  <2>2. With({"waiting"}) = {} /\ With({"resolved"}) = {} /\ With(Counted) = {}
        /\ With({"rejected", "over limit"}) = {}
    BY <1>1 DEF With, Counted
  <2>3. outcome \in [Tasks -> Outcomes] /\ cancelling \in [Tasks -> Threads \union {NoTask}]
    BY <1>1 DEF Outcomes
  <2> QED BY <1>1, <1>2, <1>8, <2>1, <2>2, <2>3 DEF Accounts
<1> QED BY <1>9, <1>10, <1>11 DEF PoolInv

(* The accounts are those of SettledOnce. *)
LEMMA AccountsBalance == PoolInv => SettledOnce
<1> SUFFICES ASSUME PoolInv
             PROVE  SettledOnce
  OBVIOUS
<1> DEFINE Q == ToSet(queue)
           A == Running(active)
           C == Cancelled(cancelling)
           R == With({"resolved"})
           J == With({"rejected"})
           O == With({"over limit"})
           W == With({"waiting"})
<1>1. /\ Q \cap A = {} /\ C \cap (Q \cup A) = {} /\ W = Q \cup A \cup C
      /\ completedTasks = Cardinality(R)
      /\ failedTasks = Cardinality(With({"rejected", "over limit"}))
      /\ totalTasks = Cardinality(With(Counted))
  BY DEF PoolInv, Accounts
<1>2. /\ With({"rejected", "over limit"}) = J \cup O /\ J \cap O = {}
      /\ With(Counted) = W \cup (R \cup J) /\ W \cap (R \cup J) = {} /\ R \cap J = {}
  BY DEF With, Counted
<1>3. Cardinality(Q) = Len(queue)
  <2>1. Enumerates(queue, ToSet(queue))
    BY DEF PoolInv, Shape
  <2> QED BY <2>1, EnumeratesCount
<1>4. /\ IsFiniteSet(W) /\ IsFiniteSet(R) /\ IsFiniteSet(J) /\ IsFiniteSet(O)
  BY WithIsFinite
<1> HIDE DEF Q, A, C, R, J, O, W
<1>5. IsFiniteSet(Q) /\ IsFiniteSet(A) /\ IsFiniteSet(C) /\ IsFiniteSet(Q \cup A)
  <2>1. Q \in SUBSET W /\ A \in SUBSET W /\ C \in SUBSET W /\ Q \cup A \in SUBSET W
    BY <1>1
  <2> QED BY <1>4, <2>1, FS_Subset
<1>6. Cardinality(W) = Cardinality(Q) + Cardinality(A) + Cardinality(C)
  <2>1. Cardinality(Q \cup A) = Cardinality(Q) + Cardinality(A)
    BY <1>1, <1>5, CardApart
  <2>2. (Q \cup A) \cap C = {}
    BY <1>1
  <2>3. Cardinality((Q \cup A) \cup C) = Cardinality(Q \cup A) + Cardinality(C)
    BY <1>5, <2>2, CardApart
  <2> QED BY <1>1, <2>1, <2>3
<1>7. Cardinality(R \cup J) = Cardinality(R) + Cardinality(J) /\ IsFiniteSet(R \cup J)
  BY <1>2, <1>4, CardApart, FS_Union
<1>8. Cardinality(W \cup (R \cup J)) = Cardinality(W) + Cardinality(R \cup J)
  BY <1>2, <1>4, <1>7, CardApart
<1>9. Cardinality(J \cup O) = Cardinality(J) + Cardinality(O)
  BY <1>2, <1>4, CardApart
<1>10. /\ Cardinality(Q) \in Nat /\ Cardinality(A) \in Nat /\ Cardinality(C) \in Nat
       /\ Cardinality(R) \in Nat /\ Cardinality(J) \in Nat
  BY <1>4, <1>5, FS_CardinalityType
<1>11. totalTasks = Len(queue) + Cardinality(A) + Cardinality(C)
                      + Cardinality(R) + Cardinality(J)
  <2>1. PICK q \in Nat, a \in Nat, c \in Nat, r \in Nat, j \in Nat :
          /\ q = Cardinality(Q) /\ a = Cardinality(A) /\ c = Cardinality(C)
          /\ r = Cardinality(R) /\ j = Cardinality(J)
    BY <1>10
  <2>2. totalTasks = (q + a + c) + (r + j)
    BY <1>1, <1>2, <1>6, <1>7, <1>8, <2>1
  <2>3. totalTasks = q + a + c + r + j
    BY <2>2
  <2> QED BY <1>3, <2>1, <2>3
<1>12. failedTasks = Cardinality(J) + Cardinality(O)
  BY <1>1, <1>2, <1>9
<1>13. /\ R = {t \in Tasks : outcome[t] = "resolved"}
       /\ J = {t \in Tasks : outcome[t] = "rejected"}
       /\ O = {t \in Tasks : outcome[t] = "over limit"}
       /\ A = {active[w] : w \in Threads} \ {NoTask}
       /\ C = {t \in Tasks : cancelling[t] # NoTask}
  BY DEF R, J, O, A, C, With, Running, Cancelled
<1> QED BY <1>1, <1>11, <1>12, <1>13 DEF SettledOnce

(***************************************************************************)
(* The pool under the transports                                           *)
(***************************************************************************)

(* A send has given as many of its jobs to the pool as it can have, and    *)
(* one that waits for the pool has given it one. *)
JobsTaken ==
  /\ job \in [Sends -> Nat]
  /\ \A s \in Sends : /\ job[s] <= Len(Jobs[s])
                      /\ stage[s] = "working" => job[s] > 0

(* The jobs of a send are tasks. *)
LEMMA JobOf ==
  ASSUME NEW s \in Sends
  PROVE  /\ Len(Jobs[s]) \in Nat
         /\ \A i \in 1 .. Len(Jobs[s]) : Jobs[s][i] \in Tasks
<1>1. Jobs[s] \in Seq(Tasks)
  BY WireTransportAssumption
<1> QED BY <1>1, LenProperties, ElementOfSeq

(* A step of a send that leaves the pool alone. *)
LEMMA SamePool ==
  ASSUME PoolInv, UNCHANGED vars
  PROVE  PoolInv'
<1>1. UNCHANGED <<available, queue, active, workers, closing, cancelling,
                  totalTasks, completedTasks, failedTasks, destroyed, outcome>>
  BY DEF vars, counters
<1> QED BY <1>1 DEF PoolInv, Shape, CapacityUsed, Accounts, Idle, With

(* What the theorems rest on: of the signals, the sends and the pool. *)
WireInv == SignalInv /\ JobsTaken /\ PoolInv

(* A send that calls execute() for its next job. *)
LEMMA UseWorkerSafe ==
  ASSUME WireInv, NEW s \in Sends, UseWorker(s)
  PROVE  JobsTaken' /\ PoolInv'
<1>1. /\ job[s] < Len(Jobs[s])
      /\ job' = [job EXCEPT ![s] = job[s] + 1]
      /\ stage' = [stage EXCEPT ![s] = "working"]
  BY DEF UseWorker, Becomes
<1>2. job[s] \in Nat /\ Len(Jobs[s]) \in Nat
  BY JobOf DEF WireInv, JobsTaken
<1>3. PICK t : t = Jobs[s][job[s] + 1]
  OBVIOUS
<1>4. t \in Tasks
  <2>1. job[s] + 1 \in 1 .. Len(Jobs[s])
    BY <1>1, <1>2
  <2> QED BY <1>3, <2>1, JobOf
<1>5. Execute(t) \/ ExecuteOverLimit(t) \/ ExecuteDestroyed(t)
  BY <1>3 DEF UseWorker
<1>6. PoolInv'
  BY <1>4, <1>5, ExecuteSafe, NoTaskSafe DEF WireInv
<1>7. JobsTaken'
  BY <1>1, <1>2 DEF WireInv, SignalInv, JobsTaken
<1> QED BY <1>6, <1>7

(* One that does not call the pool. *)
LEMMA StageSafe ==
  ASSUME WireInv, NEW s \in Sends, NEW new, new # "working", Becomes(s, new),
         UNCHANGED <<vars, job>>
  PROVE  JobsTaken' /\ PoolInv'
<1>1. JobsTaken'
  BY DEF WireInv, SignalInv, JobsTaken, Becomes
<1> QED BY <1>1, SamePool DEF WireInv

(* It holds at first and is kept by every step. *)
LEMMA WireStarts == WireInit => WireInv
<1>1. ASSUME WireInit
      PROVE  JobsTaken
  <2>1. \A s \in Sends : 0 <= Len(Jobs[s])
    BY JobOf
  <2> QED BY <1>1, <2>1 DEF WireInit, JobsTaken
<1> QED BY <1>1, InitSafe, PoolStarts DEF WireInv, WireInit

LEMMA WireSafe ==
  ASSUME WireInv, [WireNext]_allVars
  PROVE  WireInv'
<1>0. SignalInv'
  BY NextSafe DEF WireInv
<1> SUFFICES JobsTaken' /\ PoolInv'
  BY <1>0 DEF WireInv
<1>1. ASSUME NEW s \in Sends, UseWorker(s) \/ MainThread(s) \/ Fails(s)
      PROVE  JobsTaken' /\ PoolInv'
  BY <1>1, UseWorkerSafe, StageSafe DEF MainThread, Fails
<1>2. ASSUME NEW s \in Sends, Send(s) \/ Continue(s)
      PROVE  JobsTaken' /\ PoolInv'
  BY <1>1, <1>2 DEF Send, Continue
<1>3. ASSUME NEW s \in Sends,
             \/ Dispatch(s) \/ Export(s) \/ AddRequest(s) \/ Repeat(s)
             \/ Accepted(s) \/ RequestFails(s)
      PROVE  JobsTaken' /\ PoolInv'
  <2>1. \E new \in {"failed", "requesting", "exporting", "sent"} :
          Becomes(s, new) /\ UNCHANGED <<vars, job>>
    BY <1>3 DEF Dispatch, Fails, Export, AddRequest, Repeat, Accepted, RequestFails
  <2> QED BY <2>1, StageSafe
<1>4. ASSUME UNCHANGED <<stage, job>>
      PROVE  JobsTaken'
  BY <1>4 DEF WireInv, JobsTaken
<1>5. ASSUME NEW s \in Sends, Abort(s)
      PROVE  JobsTaken' /\ PoolInv'
  <2>1. JobsTaken'
    BY <1>4, <1>5 DEF Abort
  <2>2. CASE UNCHANGED vars
    BY <2>1, <2>2, SamePool DEF WireInv
  <2>3. ASSUME stage[s] = "working", AbortQueued(Current(s)) \/ AbortRunning(Current(s))
        PROVE  PoolInv'
    <3>1. job[s] \in 1 .. Len(Jobs[s])
      BY <2>3, JobOf DEF WireInv, JobsTaken
    <3>2. Current(s) \in Tasks
      BY <3>1, JobOf DEF Current
    <3> QED BY <2>3, <3>2, AbortQueuedSafe, AbortRunningSafe DEF WireInv
  <2> QED BY <1>5, <2>1, <2>2, <2>3 DEF Abort
<1>6. CASE Shutdown
  <2>1. JobsTaken'
    BY <1>4, <1>6 DEF Shutdown
  <2>2. PoolShutdown \/ UNCHANGED vars
    BY <1>6 DEF Shutdown
  <2> QED BY <2>1, <2>2, PoolShutdownSafe, SamePool DEF WireInv
<1>7. CASE ClientClosed
  BY <1>4, <1>7, SamePool DEF ClientClosed, WireInv
<1>8. CASE PoolStep
  <2>1. JobsTaken'
    BY <1>4, <1>8 DEF PoolStep, wireVars
  <2>2. ThreadStep \/ Destroy
    BY <1>8 DEF PoolStep
  <2>3. ASSUME NEW w \in Threads,
               \/ \E reply \in Reply : Answer(w, reply)
               \/ Timeout(w) \/ Exit(w) \/ Terminated(w)
        PROVE  PoolInv'
    BY <2>3, AnswerSafe, RemoveWorkerSafe, TerminatedSafe DEF Timeout, Exit, WireInv
  <2> QED BY <2>1, <2>2, <2>3, DestroySafe DEF ThreadStep, WireInv
<1>9. CASE UNCHANGED allVars
  BY <1>4, <1>9, SamePool DEF allVars, wireVars, WireInv
<1> QED
  BY <1>2, <1>3, <1>5, <1>6, <1>7, <1>8, <1>9 DEF WireNext

(* Threads that are closing count against the capacity, and a task waits   *)
(* only while every thread that may exist does (WorkerPool.replenish,      *)
(* removeWorker, cancelTask, terminate).                                   *)
THEOREM CapacityIsUsed == WireSpec => []CapacityUsed
<1>1. WireInv /\ [WireNext]_allVars => WireInv'
  BY WireSafe
<1>2. WireInv => CapacityUsed
  BY DEF WireInv, PoolInv
<1> QED BY WireStarts, <1>1, <1>2, PTL DEF WireSpec

(* Every promise of execute() is settled once, and the counters are those  *)
(* of the promises (WorkerPool.settle, cancelTask, destroy).               *)
THEOREM EachTaskSettledOnce == WireSpec => []SettledOnce
<1>1. WireInv /\ [WireNext]_allVars => WireInv'
  BY WireSafe
<1>2. WireInv => SettledOnce
  BY AccountsBalance DEF WireInv
<1> QED BY WireStarts, <1>1, <1>2, PTL DEF WireSpec

(***************************************************************************)
(* The circuit breaker                                                     *)
(***************************************************************************)

USE CircuitBreakerAssumption DEF CircuitBreakerAssumption

(* The probes of the present half-open state are running (and there are    *)
(* none in another state), and an open breaker has cooled down as far as   *)
(* it has been quiet.                                                      *)
ProbesRun ==
  /\ \A o \in current : running[o] = "probe"
  /\ state # "half-open" => current = {}

CoolsWhileQuiet == state = "open" => coolDown + quiet = ResetTimeout

(* All but the sizes of sets. *)
StateInv == TypeOK /\ CountersFitState /\ ProbesRun /\ CoolsWhileQuiet

IInv == StateInv /\ NoLeakedSlot

-----------------------------------------------------------------------------
(* One lemma per half of execute().                                        *)

(* Entering execute() keeps the counters consistent; the mode in which an  *)
(* idle operation starts is the one it is counted in.                      *)
LEMMA EnteringKeepsState ==
  ASSUME StateInv, NEW o \in Ops, Begin(o) \/ HalfOpen(o) \/ Probe(o)
  PROVE  StateInv'
<1> USE DEF StateInv, TypeOK, CountersFitState, ProbesRun, CoolsWhileQuiet,
            Starts, breakerCounters
<1>1. CASE Begin(o)
  BY <1>1 DEF Begin
<1>2. CASE HalfOpen(o)
  BY <1>2 DEF HalfOpen
<1>3. CASE Probe(o)
  BY <1>3 DEF Probe
<1> QED
  BY <1>1, <1>2, <1>3

(* So does every outcome, whatever state it arrives in: the finally block  *)
(* finds nothing to give back unless the breaker is half-open.             *)
LEMMA OutcomeKeepsState ==
  ASSUME StateInv, NEW o \in Ops, Succeed(o) \/ Fail(o) \/ Decline(o)
  PROVE  StateInv'
<1>1. /\ Released(o, halfOpenInFlight) \in 0 .. HalfOpenRequests
      /\ state # "half-open" => Released(o, halfOpenInFlight) = 0
  BY DEF Released, StateInv, TypeOK, CountersFitState
<1>2. /\ running' \in [Ops -> {"idle", "plain", "probe"}]
      /\ \A c : (c \subseteq current \ {o}) =>
           /\ c \subseteq Ops
           /\ \A q \in c : running'[q] = "probe"
  BY DEF Succeed, Fail, Decline, Ends, StateInv, TypeOK, ProbesRun
<1>3. state # "half-open" => current = {}
  BY DEF StateInv, ProbesRun
<1>4. CASE Succeed(o)
  <2>1. CASE state = "half-open" /\ successCount + 1 >= HalfOpenRequests
    BY <1>2, <1>4, <2>1 DEF Succeed, RecordSuccess, StateInv, TypeOK,
       CountersFitState, ProbesRun, CoolsWhileQuiet
  <2>2. CASE state = "half-open" /\ successCount + 1 < HalfOpenRequests
    BY <1>1, <1>2, <1>4, <2>2 DEF Succeed, RecordSuccess, StateInv, TypeOK,
       CountersFitState, ProbesRun, CoolsWhileQuiet
  <2>3. CASE state # "half-open"
    BY <1>1, <1>2, <1>3, <1>4, <2>3 DEF Succeed, RecordSuccess, StateInv, TypeOK,
       CountersFitState, ProbesRun, CoolsWhileQuiet
  <2> QED
    BY <1>4, <2>1, <2>2, <2>3 DEF Succeed, RecordSuccess
<1>5. CASE Fail(o)
  <2>1. failures' \in 0 .. FailureThreshold
    BY <1>5 DEF Fail, RecordFailure, OneMoreFailure, StateInv, TypeOK
  <2>2. CASE failures' = FailureThreshold \/ state = "half-open"
    BY <1>2, <1>5, <2>1, <2>2 DEF Fail, RecordFailure, OneMoreFailure, StateInv,
       TypeOK, CountersFitState, ProbesRun, CoolsWhileQuiet
  <2>3. CASE failures' # FailureThreshold /\ state # "half-open"
    BY <1>1, <1>2, <1>3, <1>5, <2>1, <2>3 DEF Fail, RecordFailure, OneMoreFailure,
       StateInv, TypeOK, CountersFitState, ProbesRun, CoolsWhileQuiet
  <2> QED
    BY <2>2, <2>3
<1>6. CASE Decline(o)
  BY <1>1, <1>2, <1>3, <1>6 DEF Decline, StateInv, TypeOK, CountersFitState,
     ProbesRun, CoolsWhileQuiet
<1> QED
  BY <1>4, <1>5, <1>6

LEMMA StateInductive == StateInv /\ [Next]_breakerVars => StateInv'
<1> SUFFICES ASSUME StateInv, [Next]_breakerVars
             PROVE  StateInv'
  OBVIOUS
<1>1. ASSUME NEW o \in Ops, Begin(o) \/ HalfOpen(o) \/ Probe(o)
      PROVE  StateInv'
  BY <1>1, EnteringKeepsState
<1>2. ASSUME NEW o \in Ops, Succeed(o) \/ Fail(o) \/ Decline(o)
      PROVE  StateInv'
  BY <1>2, OutcomeKeepsState
<1>3. CASE Reset
  BY <1>3 DEF Reset, StateInv, TypeOK, CountersFitState, ProbesRun, CoolsWhileQuiet
<1>4. CASE Tick
  BY <1>4 DEF Tick, breakerCounters, StateInv, TypeOK, CountersFitState, ProbesRun, CoolsWhileQuiet
<1>5. CASE UNCHANGED breakerVars
  BY <1>5 DEF breakerVars, breakerCounters, StateInv, TypeOK, CountersFitState, ProbesRun, CoolsWhileQuiet
<1> QED
  BY <1>1, <1>2, <1>3, <1>4, <1>5 DEF Next

-----------------------------------------------------------------------------
(* The number of probes, as one operation starts or ends.                  *)
LEMMA CountProbes ==
  ASSUME StateInv, NEW o
  PROVE  /\ Cardinality(current) \in Nat
         /\ o \notin current =>
              /\ Cardinality(current \union {o}) = Cardinality(current) + 1
              /\ current \ {o} = current
         /\ o \in current =>
              Cardinality(current \ {o}) = Cardinality(current) - 1
<1>1. IsFiniteSet(current)
  BY FS_Subset DEF StateInv, TypeOK
<1>2. Cardinality(current) \in Nat
  BY <1>1, FS_CardinalityType
<1>3. Cardinality(current \union {o}) =
        IF o \in current THEN Cardinality(current) ELSE Cardinality(current) + 1
  BY <1>1, FS_AddElement
<1>4. Cardinality(current \ {o}) =
        IF o \in current THEN Cardinality(current) - 1 ELSE Cardinality(current)
  BY <1>1, FS_RemoveElement
<1> QED
  BY <1>2, <1>3, <1>4

(* A slot is taken with a probe and given back no later than it ends.      *)
LEMMA NoSlotLeaks == IInv /\ [Next]_breakerVars => NoLeakedSlot'
<1> SUFFICES ASSUME StateInv, NoLeakedSlot, [Next]_breakerVars
             PROVE  NoLeakedSlot'
  BY DEF IInv
<1> DEFINE Slots == halfOpenInFlight \in Nat /\ halfOpenInFlight <= Cardinality(current)
<1>0. Slots
  BY DEF NoLeakedSlot, StateInv, TypeOK
<1>1. ASSUME NEW o \in Ops, Begin(o)
      PROVE  NoLeakedSlot'
  BY <1>0, <1>1 DEF Begin, breakerCounters, NoLeakedSlot
<1>2. ASSUME NEW o \in Ops, HalfOpen(o)
      PROVE  NoLeakedSlot'
  <2>1. halfOpenInFlight' = 1 /\ current' = {o}
    BY <1>2 DEF HalfOpen
  <2>2. Cardinality(current') = Cardinality({o})
    BY <2>1, Zenon
  <2>3. Cardinality({o}) = 1
    BY FS_Singleton, Zenon
  <2> QED
    BY <2>1, <2>2, <2>3 DEF NoLeakedSlot
<1>3. ASSUME NEW o \in Ops, Probe(o)
      PROVE  NoLeakedSlot'
  <2>1. halfOpenInFlight' = halfOpenInFlight + 1 /\ current' = current \union {o}
    BY <1>3 DEF Probe
  <2>2. o \notin current
    BY <1>3 DEF Probe, Starts, StateInv, ProbesRun
  <2>3. Cardinality(current \union {o}) = Cardinality(current) + 1
    BY <2>2, CountProbes
  <2>4. Cardinality(current) \in Nat
    BY CountProbes
  <2> QED
    BY <1>0, <2>1, <2>3, <2>4 DEF NoLeakedSlot
<1>4. ASSUME NEW o \in Ops, running[o] # "idle",
             halfOpenInFlight' = Released(o, halfOpenInFlight),
             current' = current \ {o}
      PROVE  NoLeakedSlot'
  <2>1. Cardinality(current) \in Nat
    BY CountProbes
  <2>2. CASE o \in current
    <3>1. Cardinality(current \ {o}) = Cardinality(current) - 1
      BY <2>2, CountProbes
    <3>2. running[o] = "probe"
      BY <2>2 DEF StateInv, ProbesRun
    <3>3. Cardinality(current \ {o}) \in Nat
      BY FS_Subset, FS_RemoveElement, FS_CardinalityType DEF StateInv, TypeOK
    <3> QED
      BY <1>0, <1>4, <2>1, <3>1, <3>2, <3>3 DEF Released, NoLeakedSlot
  <2>3. CASE o \notin current
    <3>1. current \ {o} = current
      BY <2>3
    <3>2. Cardinality(current') = Cardinality(current)
      BY <1>4, <3>1, Zenon
    <3> QED
      BY <1>0, <1>4, <2>1, <3>2 DEF Released, NoLeakedSlot
  <2> QED
    BY <2>2, <2>3
<1>5. ASSUME halfOpenInFlight' = 0, current' = {}
      PROVE  NoLeakedSlot'
  BY <1>5, FS_EmptySet DEF NoLeakedSlot
<1>6. ASSUME NEW o \in Ops, state # "half-open",
             halfOpenInFlight' = Released(o, halfOpenInFlight),
             UNCHANGED current
      PROVE  NoLeakedSlot'
  <2>1. halfOpenInFlight' = 0
    BY <1>6 DEF Released, StateInv, CountersFitState
  <2>2. Cardinality(current) \in Nat
    BY CountProbes
  <2> QED
    BY <1>6, <2>1, <2>2 DEF NoLeakedSlot
<1>7. ASSUME NEW o \in Ops, Succeed(o)
      PROVE  NoLeakedSlot'
  BY <1>4, <1>5, <1>6, <1>7 DEF Succeed, RecordSuccess, Ends
<1>8. ASSUME NEW o \in Ops, Fail(o)
      PROVE  NoLeakedSlot'
  BY <1>5, <1>6, <1>8 DEF Fail, RecordFailure
<1>9. ASSUME NEW o \in Ops, Decline(o)
      PROVE  NoLeakedSlot'
  BY <1>4, <1>9 DEF Decline, Ends
<1>10. CASE Reset
  BY <1>5, <1>10 DEF Reset
<1>11. CASE Tick \/ UNCHANGED breakerVars
  BY <1>0, <1>11 DEF Tick, breakerVars, breakerCounters, NoLeakedSlot
<1> QED
  BY <1>1, <1>2, <1>3, <1>7, <1>8, <1>9, <1>10, <1>11 DEF Next

-----------------------------------------------------------------------------
LEMMA InitIInv == BreakerInit => IInv
<1> SUFFICES ASSUME BreakerInit
             PROVE  IInv
  OBVIOUS
<1>1. StateInv
  BY DEF BreakerInit, StateInv, TypeOK, CountersFitState, ProbesRun, CoolsWhileQuiet
<1>2. NoLeakedSlot
  BY FS_EmptySet DEF BreakerInit, NoLeakedSlot
<1> QED
  BY <1>1, <1>2 DEF IInv

(* The inductive invariant holds in every reachable state. *)
THEOREM Invariance == Spec => []IInv
<1>1. IInv /\ [Next]_breakerVars => IInv'
  BY StateInductive, NoSlotLeaks DEF IInv
<1> QED
  BY InitIInv, <1>1, PTL DEF Spec

(* execute() and reset() keep every counter within its range: in           *)
(* particular halfOpenInFlight within the limit on probes.                 *)
THEOREM TypeCorrect == Spec => []TypeOK
<1>1. IInv => TypeOK
  BY DEF IInv, StateInv
<1> QED
  BY Invariance, <1>1, PTL

(* The counters are those of the state, for any limits and any overlap.    *)
THEOREM CountersAlwaysFit == Spec => []CountersFitState
<1>1. IInv => CountersFitState
  BY DEF IInv, StateInv
<1> QED
  BY Invariance, <1>1, PTL

(* No probe slot leaks, however many operations overlap.                   *)
THEOREM SlotsDoNotLeak == Spec => []NoLeakedSlot
<1>1. IInv => NoLeakedSlot
  BY DEF IInv
<1> QED
  BY Invariance, <1>1, PTL

(* The breaker never half-opens early. *)
THEOREM QuietBeforeProbing == Spec => HalfOpensAfterQuiet
<1>1. IInv /\ [Next]_breakerVars
        => [state = "open" /\ state' = "half-open" => quiet = ResetTimeout]_breakerVars
  <2> SUFFICES ASSUME IInv, Next, state = "open", state' = "half-open"
               PROVE  quiet = ResetTimeout
    OBVIOUS
  <2>1. coolDown + quiet = ResetTimeout /\ quiet \in Nat
    BY DEF IInv, StateInv, CoolsWhileQuiet, TypeOK
  <2>2. coolDown = 0
    BY DEF Next, Begin, HalfOpen, Probe, Succeed, Fail, Decline, RecordSuccess,
           RecordFailure, Reset, Tick
  <2> QED
    BY <2>1, <2>2
<1> QED
  BY Invariance, <1>1, PTL DEF Spec, HalfOpensAfterQuiet
=============================================================================
