-------------------------------- MODULE Sums --------------------------------
(***************************************************************************)
(* The sum of the values of a function into the naturals, of a sequence in *)
(* particular, without recursion: what it counts are the units that the    *)
(* values stand for, unit j of x for every j up to f[x].  SumTheorems has  *)
(* the rules of calculation.                                               *)
(***************************************************************************)
EXTENDS Integers, FiniteSets

Units(f) == UNION {{x} \X (1 .. f[x]) : x \in DOMAIN f}

SumOf(f) == Cardinality(Units(f))
=============================================================================
