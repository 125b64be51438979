------------------------------- MODULE Sums ---------------------------------
(***************************************************************************)
(* The sum of a function whose values are natural numbers, as the number   *)
(* of things there are to count: f[x] of them for each x.  It needs no     *)
(* recursion and no order of the elements, so a sum can be reasoned about  *)
(* by moving its units.                                                    *)
(***************************************************************************)
EXTENDS Integers, FiniteSets

Units(f) == UNION {{x} \X (1..f[x]) : x \in DOMAIN f}

SumOver(f) == Cardinality(Units(f))
=============================================================================
