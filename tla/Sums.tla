-------------------------------- MODULE Sums --------------------------------
(***************************************************************************)
(* The sum of the values of a function (numbers of bytes) over a finite    *)
(* set: so many units as the values count at all the elements together.    *)
(***************************************************************************)
EXTENDS Integers, FiniteSets

Units(f, S) == UNION {{x} \X (1..f[x]) : x \in S}

SumOver(f, S) == Cardinality(Units(f, S))
=============================================================================
